--------------------------- MODULE Assignment_proofs ---------------------------
EXTENDS Assignment, Sequences, FiniteSetTheorems, NaturalsInduction, WellFoundedInduction, TLAPS

-----------------------------------------------------------------------------
(* Least elements, and loops written as recursive functions. *)

(* A set of naturals that is not empty has a least element. *)
LEMMA LeastExists ==
  ASSUME NEW S \in SUBSET Nat, S # {}
  PROVE  \E a \in S : \A b \in S : a <= b
  <1> DEFINE Less == {p \in Nat \X Nat : p[1] < p[2]}
  <1>1. IsWellFoundedOn(Less, Nat)
    BY NatLessThanWellFounded, Zenon DEF OpToRel
  <1>2. PICK a \in S : \A b \in S : ~ (<<b, a>> \in Less)
    <2> HIDE DEF Less
    <2> QED BY <1>1, WFMin, Zenon
  <1>3. ASSUME NEW b \in S PROVE a <= b
    <2>1. a \in Nat /\ b \in Nat /\ <<b, a>> \notin Less
      BY <1>2
    <2>2. ~(b < a)
      BY <2>1
    <2> QED BY <2>1, <2>2
  <1> QED BY <1>3

(* G holds the first index of an interval, and the next of each it holds.   *)
Inductive(a, b, G) == /\ a \in Int /\ b \in Int /\ a \in G
                      /\ \A k \in a + 1 .. b : k - 1 \in G => k \in G

(* So such a set holds the whole interval. *)
LEMMA IntervalInduction ==
  ASSUME NEW a, NEW b, NEW G, Inductive(a, b, G)
  PROVE  \A k \in a .. b : k \in G
  <1> USE DEF Inductive
  <1> SUFFICES ASSUME NEW c \in a .. b, c \notin G PROVE FALSE
    OBVIOUS
  <1> DEFINE T == {t \in Nat : a + t \in a .. b /\ a + t \notin G}
  <1>1. c - a \in T
    <2>1. c \in Int /\ a <= c /\ c - a \in Nat /\ a + (c - a) = c
      OBVIOUS
    <2> QED BY <2>1
  <1>2. PICK t \in T : \A u \in T : t <= u
    <2>1. T \in SUBSET Nat /\ T # {}
      BY <1>1
    <2> HIDE DEF T
    <2> QED BY <2>1, LeastExists
  <1>3. t \in Nat /\ a + t \in a .. b /\ a + t \notin G
    OBVIOUS
  <1>4. t # 0
    BY <1>3
  <1>5. t - 1 \in Nat /\ ~(t <= t - 1) /\ a + (t - 1) \in a .. b /\ a + (t - 1) = (a + t) - 1
    BY <1>3, <1>4
  <1>6. a + (t - 1) \in G
    BY <1>2, <1>5
  <1>7. a + t \in a + 1 .. b
    BY <1>3, <1>4
  <1> QED BY <1>3, <1>5, <1>6, <1>7

(* A loop over the indices a + 1 .. b that starts in s0 and takes turn g.    *)
Loop(a, b, S, s0, g) ==
    /\ a \in Int /\ b \in Int /\ a <= b
    /\ s0 \in S /\ g \in [(a + 1 .. b) \X S -> S]

(* A loop has a run: the states it passes through, index by index. *)
LEMMA RecursionExists ==
  ASSUME NEW a, NEW b, NEW S, NEW s0, NEW g, Loop(a, b, S, s0, g)
  PROVE  \E f \in [a .. b -> S] : f = [k \in a .. b |-> IF k = a THEN s0 ELSE g[<<k, f[k - 1]>>]]
  <1> USE DEF Loop
  <1> DEFINE Run(m, f) == f = [k \in a .. m |-> IF k = a THEN s0 ELSE g[<<k, f[k - 1]>>]]
             G == {m \in a .. b : \E f \in [a .. m -> S] : Run(m, f)}
  <1>1. a \in G
    <2>1. a \in a .. b /\ a .. a = {a}
      OBVIOUS
    <2> DEFINE f == [k \in a .. a |-> s0]
    <2>2. f \in [a .. a -> S] /\ Run(a, f)
      BY <2>1
    <2> QED BY <2>1, <2>2
  <1>2. ASSUME NEW m \in a + 1 .. b, m - 1 \in G PROVE m \in G
    <2>1. PICK f \in [a .. m - 1 -> S] : Run(m - 1, f)
      BY <1>2
    <2> DEFINE h == [k \in a .. m |-> IF k < m THEN f[k] ELSE g[<<m, f[m - 1]>>]]
    <2>2. m \in Int /\ a + 1 <= m /\ m <= b /\ m \in a .. b /\ m - 1 \in a .. m - 1
      OBVIOUS
    <2>3. ASSUME NEW k \in a .. m
          PROVE  /\ k \in Int /\ a <= k /\ k <= m
                 /\ k < m => k \in a .. m - 1
                 /\ k # a => k - 1 \in a .. m - 1 /\ k \in a + 1 .. b /\ k - 1 \in a .. m
      BY <2>2
    <2>4. f[m - 1] \in S /\ <<m, f[m - 1]>> \in (a + 1 .. b) \X S
      BY <2>2
    <2>5. g[<<m, f[m - 1]>>] \in S
      BY <2>4
    <2>6. h \in [a .. m -> S]
      BY <2>1, <2>3, <2>5
    <2>7. ASSUME NEW k \in a .. m
          PROVE  h[k] = IF k = a THEN s0 ELSE g[<<k, h[k - 1]>>]
      <3>1. CASE k = m
        <4>1. h[k] = g[<<m, f[m - 1]>>]
          BY <2>2, <3>1
        <4>2. m - 1 \in a .. m /\ m - 1 < m
          BY <2>2
        <4>3. h[m - 1] = f[m - 1]
          BY <4>2
        <4>4. k # a
          BY <2>2, <3>1
        <4> QED BY <3>1, <4>1, <4>3, <4>4
      <3>2. CASE k # m
        <4>1. k < m /\ k \in a .. m - 1
          BY <2>2, <2>3, <3>2
        <4>2. h[k] = f[k]
          BY <4>1
        <4>3. f[k] = IF k = a THEN s0 ELSE g[<<k, f[k - 1]>>]
          BY <2>1, <4>1
        <4>4. k # a => h[k - 1] = f[k - 1]
          <5>1. k # a => k - 1 \in a .. m /\ k - 1 < m
            BY <2>2, <2>3, <4>1
          <5> QED BY <5>1
        <4> QED BY <4>2, <4>3, <4>4
      <3> QED BY <3>1, <3>2
    <2>8. Run(m, h)
      <3>1. h = [k \in a .. m |-> h[k]]
        OBVIOUS
      <3> HIDE DEF h
      <3> QED BY <2>7, <3>1
    <2> HIDE DEF h, Run
    <2> QED BY <2>2, <2>6, <2>8
  <1>3. b \in G
    <2> HIDE DEF G
    <2>1. \A k \in a .. b : k \in G
      BY <1>1, <1>2, IntervalInduction DEF Inductive
    <2> QED BY <2>1
  <1> QED BY <1>3

(* A function has a least value on a set of indices that is not empty. *)
LEMMA ImageHasLeast ==
  ASSUME NEW b \in Int, NEW T \in SUBSET (0 .. b), T # {}, NEW f, \A k \in T : f[k] \in Int
  PROVE  \E k \in T : \A l \in T : f[k] <= f[l]
  <1> DEFINE Upto(m) == {k \in T : k <= m}
             G == {m \in Int : Upto(m) # {} => \E k \in Upto(m) : \A l \in Upto(m) : f[k] <= f[l]}
  <1>0. \A k \in T : k \in Int /\ 0 <= k /\ k <= b
    OBVIOUS
  <1>1. -1 \in G
    <2>1. Upto(-1) = {}
      <3>1. ASSUME NEW k \in T PROVE ~(k <= -1)
        BY <1>0
      <3> QED BY <3>1
    <2>2. -1 \in Int
      OBVIOUS
    <2> HIDE DEF Upto
    <2> QED BY <2>1, <2>2
  <1>2. ASSUME NEW m \in 0 .. b, m - 1 \in G PROVE m \in G
    <2>0. m \in Int
      OBVIOUS
    <2>1. CASE m \notin T
      <3>1. Upto(m) = Upto(m - 1)
        <4>1. ASSUME NEW k \in T PROVE k <= m <=> k <= m - 1
          BY <1>0, <2>0, <2>1
        <4> QED BY <4>1
      <3> QED BY <1>2, <2>0, <3>1
    <2>2. CASE m \in T
      <3>1. Upto(m) = Upto(m - 1) \union {m}
        <4>1. ASSUME NEW k \in T PROVE k <= m <=> (k <= m - 1 \/ k = m)
          BY <1>0, <2>0
        <4>2. m \in Upto(m)
          BY <2>0, <2>2
        <4> QED BY <4>1, <4>2
      <3>2. CASE Upto(m - 1) = {}
        <4>1. Upto(m) = {m}
          BY <3>1, <3>2
        <4>2. f[m] <= f[m]
          BY <2>2
        <4> HIDE DEF Upto
        <4> QED BY <2>0, <4>1, <4>2
      <3>3. CASE Upto(m - 1) # {}
        <4>1. PICK k \in Upto(m - 1) : \A l \in Upto(m - 1) : f[k] <= f[l]
          BY <1>2, <3>3
        <4>2. k \in T /\ \A l \in Upto(m - 1) : l \in T
          OBVIOUS
        <4> HIDE DEF Upto
        <4>3. CASE f[k] <= f[m]
          <5>1. k \in Upto(m) /\ \A l \in Upto(m) : f[k] <= f[l]
            BY <3>1, <4>1, <4>3
          <5> QED BY <2>0, <5>1
        <4>4. CASE ~(f[k] <= f[m])
          <5>1. f[m] < f[k] /\ f[m] \in Int /\ f[k] \in Int
            BY <2>2, <4>2, <4>4
          <5>2. m \in Upto(m) /\ \A l \in Upto(m) : f[m] <= f[l]
            <6>1. ASSUME NEW l \in Upto(m) PROVE f[m] <= f[l]
              <7>1. CASE l = m
                BY <5>1, <7>1
              <7>2. CASE l \in Upto(m - 1)
                <8>1. f[l] \in Int /\ f[k] <= f[l]
                  BY <4>1, <4>2, <7>2
                <8> QED BY <5>1, <8>1
              <7> QED BY <3>1, <7>1, <7>2
            <6> QED BY <3>1, <6>1
          <5> QED BY <2>0, <5>2
        <4> QED BY <4>3, <4>4
      <3> QED BY <3>2, <3>3
    <2> QED BY <2>1, <2>2
  <1>3. PICK t \in T : TRUE
    OBVIOUS
  <1>4. 0 <= b /\ t <= b
    BY <1>0, <1>3
  <1>5. b \in G
    <2> HIDE DEF G
    <2>1. \A k \in -1 .. b : k \in G
      <3>1. -1 \in Int /\ -1 + 1 = 0
        OBVIOUS
      <3> QED BY <1>1, <1>2, <3>1, IntervalInduction DEF Inductive
    <2> QED BY <1>4, <2>1
  <1>6. Upto(b) = T
    BY <1>0
  <1> QED BY <1>5, <1>6

-----------------------------------------------------------------------------
(* The operators of the solver. *)

(* The cost matrix is a square one of integers. *)
CostOK == n \in Nat /\ n >= 2 /\ cost \in [Index -> [Index -> Int]]

(* The reduced costs of a row are integers. *)
LEMMA ReducedType ==
  ASSUME CostOK, NEW w \in [Index -> Int], NEW i \in Index
  PROVE  /\ Reduced(i, w) \in [Index -> Int]
         /\ \A k \in Index : Reduced(i, w)[k] = cost[i][k] - w[k]
  <1>1. \A k \in Index : cost[i][k] \in Int
    <2> HIDE DEF Index
    <2> QED BY DEF CostOK
  <1> HIDE DEF cost, Index
  <1> QED BY <1>1 DEF Reduced

(* ArgMin is an element of the set where the function is smallest. *)
LEMMA ArgMinLeast ==
  ASSUME CostOK, NEW S \in SUBSET Index, S # {}, NEW f, \A k \in S : f[k] \in Int
  PROVE  ArgMin(f, S) \in S /\ \A l \in S : f[ArgMin(f, S)] <= f[l]
  <1> DEFINE T == {k \in S : \A l \in S : f[k] <= f[l]}
  <1>1. T # {}
    <2>1. n - 1 \in Int /\ S \in SUBSET (0 .. n - 1)
      BY DEF CostOK, Index
    <2>2. \E k \in S : \A l \in S : f[k] <= f[l]
      BY <2>1, ImageHasLeast
    <2> QED BY <2>2
  <1>2. T \in SUBSET Nat
    <2>1. Index \subseteq Nat
      BY DEF CostOK, Index
    <2> QED BY <2>1
  <1>3. PICK t \in T : \A u \in T : t <= u
    <2> HIDE DEF T
    <2> QED BY <1>1, <1>2, LeastExists
  <1>4. Min(T) \in T
    <2> HIDE DEF T
    <2> QED BY <1>3 DEF Min
  <1> QED BY <1>4 DEF ArgMin

(* Kept is one of the columns that asked the row, if any did. *)
LEMMA KeptAsks ==
  ASSUME CostOK, NEW i, Askers(i) # {}
  PROVE  Kept(i) \in Index /\ y[Kept(i)] = i
  <1> DEFINE f == [k \in Index |-> -k]
             T == Askers(i)
  <1>1. n - 1 \in Int /\ T \in SUBSET (0 .. n - 1) /\ T # {} /\ \A k \in T : f[k] \in Int /\ k \in Int /\ f[k] = -k
    <2>1. T \in SUBSET Index
      BY DEF Askers
    <2>2. \A k \in Index : k \in Int
      BY DEF CostOK, Index
    <2>3. n - 1 \in Int /\ Index = 0 .. n - 1
      BY DEF CostOK, Index
    <2> QED BY <2>1, <2>2, <2>3
  <1>2. PICK k \in T : \A l \in T : f[k] <= f[l]
    <2> HIDE DEF T, f
    <2> QED BY <1>1, ImageHasLeast
  <1>3. k \in T /\ \A l \in T : k >= l
    <2>1. ASSUME NEW l \in T PROVE k >= l
      <3>1. f[k] = -k /\ f[l] = -l /\ k \in Int /\ l \in Int /\ f[k] <= f[l]
        BY <1>1, <1>2
      <3> QED BY <3>1
    <2> QED BY <2>1
  <1>4. Max(T) \in T
    <2> HIDE DEF T
    <2> QED BY <1>3 DEF Max
  <1> QED BY <1>4 DEF Kept, Askers

-----------------------------------------------------------------------------
(* Reduction transfer. *)

(* The state between _ccrrt_dense's two loops: every price is the least     *)
(* cost of its column, and the column has asked a row with that cost.       *)
TransferInv ==
    /\ y \in [Index -> Index] /\ v \in [Index -> Int]
    /\ \A k \in Index : v[k] = cost[y[k]][k]
    /\ \A i, k \in Index : v[k] <= cost[i][k]

Single(i) == Cardinality(Askers(i)) = 1

(* What holds of the prices when the first t rows have been handled. *)
Lowered(w, t) ==
    /\ w \in [Index -> Int]
    /\ \A k \in Index : w[k] <= v[k]
    /\ \A k \in Index : w[k] # v[k] => Single(y[k]) /\ k = Kept(y[k]) /\ y[k] < t
    /\ \A r \in Index : r < t /\ Single(r) =>
          \A l \in Index : Reduced(r, w)[Kept(r)] <= Reduced(r, w)[l]

(* A row with a single asker keeps that column. *)
LEMMA SingleKeeps ==
  ASSUME CostOK, NEW i, Single(i)
  PROVE  Kept(i) \in Index /\ y[Kept(i)] = i
  <1>1. Askers(i) # {}
    BY FS_EmptySet DEF Single
  <1> QED BY <1>1, KeptAsks

(* The new price of a row's column is the old one less the second cheapest. *)
LEMMA TransferredIs ==
  ASSUME CostOK, TransferInv, NEW r \in Index, NEW w \in [Index -> Int]
  PROVE  /\ Transferred(r, w) \in [Index -> Int]
         /\ ~Single(r) => Transferred(r, w) = w
         /\ Single(r) => \E m \in Index \ {Kept(r)} :
               /\ \A l \in Index \ {Kept(r)} : Reduced(r, w)[m] <= Reduced(r, w)[l]
               /\ Transferred(r, w) = [w EXCEPT ![Kept(r)] = w[Kept(r)] - Reduced(r, w)[m]]
  <1>1. CASE ~Single(r)
    BY <1>1 DEF Single, Transferred
  <1>2. CASE Single(r)
    <2> DEFINE T == Index \ {Kept(r)}
               h == Reduced(r, w)
               H == {h[k] : k \in T}
    <2>1. Kept(r) \in Index
      BY <1>2, SingleKeeps
    <2>2. h \in [Index -> Int]
      BY ReducedType
    <2>3. T # {} /\ n - 1 \in Int /\ T \in SUBSET (0 .. n - 1)
      <3>1. 0 \in Index /\ 1 \in Index /\ n - 1 \in Int /\ Index = 0 .. n - 1
        BY DEF CostOK, Index
      <3> QED BY <3>1
    <2>4. PICK m \in T : \A l \in T : h[m] <= h[l]
      <3>1. \A k \in T : h[k] \in Int
        BY <2>2
      <3> HIDE DEF T, h
      <3> QED BY <2>3, <3>1, ImageHasLeast
    <2>5. Min(H) \in H /\ \A e \in H : Min(H) <= e
      <3>1. h[m] \in H /\ \A e \in H : h[m] <= e
        BY <2>4
      <3> HIDE DEF H, h
      <3> QED BY <3>1 DEF Min
    <2>6. PICK m2 \in T : Min(H) = h[m2]
      BY <2>5
    <2>7. \A l \in T : h[m2] <= h[l]
      BY <2>5, <2>6
    <2>8. Transferred(r, w) = [w EXCEPT ![Kept(r)] = w[Kept(r)] - h[m2]]
      BY <1>2, <2>6 DEF Transferred, Single
    <2>9. w[Kept(r)] - h[m2] \in Int
      BY <2>1, <2>2
    <2>10. [w EXCEPT ![Kept(r)] = w[Kept(r)] - h[m2]] \in [Index -> Int]
      BY <2>9
    <2> HIDE DEF h
    <2>11. ASSUME NEW a, a = h[m2] PROVE a = Reduced(r, w)[m2]
      BY <2>11 DEF h
    <2> QED BY <1>2, <2>7, <2>8, <2>10 DEF h
  <1> QED BY <1>1, <1>2

(* Handling one more row keeps Lowered. *)
LEMMA LoweredStep ==
  ASSUME CostOK, TransferInv, NEW t \in Index, NEW w, Lowered(w, t)
  PROVE  Lowered(Transferred(t, w), t + 1)
  <1> DEFINE u == Transferred(t, w)
  <1>0. /\ w \in [Index -> Int] /\ v \in [Index -> Int] /\ y \in [Index -> Index]
        /\ \A k \in Index : k \in Int /\ y[k] \in Int
    <2>1. \A k \in Index : k \in Int
      BY DEF CostOK, Index
    <2> QED BY <2>1 DEF Lowered, TransferInv
  <1>1. CASE ~Single(t)
    <2>1. u = w
      BY <1>0, <1>1, TransferredIs
    <2>2. ASSUME NEW r \in Index, r < t + 1, Single(r) PROVE r < t
      BY <1>0, <1>1, <2>2
    <2>3. \A k \in Index : y[k] < t => y[k] < t + 1
      BY <1>0
    <2> HIDE DEF u
    <2>4. Lowered(u, t + 1)
      BY <2>1, <2>2, <2>3 DEF Lowered
    <2> QED BY <2>4 DEF u
  <1>2. CASE Single(t)
    <2> DEFINE c == Kept(t)
    <2>1. PICK m \in Index \ {c} :
            /\ \A l \in Index \ {c} : Reduced(t, w)[m] <= Reduced(t, w)[l]
            /\ u = [w EXCEPT ![c] = w[c] - Reduced(t, w)[m]]
      BY <1>0, <1>2, TransferredIs
    <2>2. c \in Index /\ y[c] = t
      BY <1>2, SingleKeeps
    <2>3. u \in [Index -> Int]
      BY <1>0, TransferredIs
    <2>4. w[c] = v[c] /\ v[c] = cost[t][c]
      <3>1. ~(y[c] < t)
        BY <1>0, <2>2
      <3> QED BY <2>2, <3>1 DEF Lowered, TransferInv
    <2>5. /\ \A i, k \in Index : /\ Reduced(i, w)[k] = cost[i][k] - w[k] /\ Reduced(i, w)[k] \in Int
                                 /\ Reduced(i, u)[k] = cost[i][k] - u[k] /\ Reduced(i, u)[k] \in Int
                                 /\ cost[i][k] \in Int /\ w[k] \in Int /\ u[k] \in Int /\ v[k] \in Int
      <3>1. \A i, k \in Index : cost[i][k] \in Int
        BY DEF CostOK
      <3>2. \A i \in Index : /\ Reduced(i, w) \in [Index -> Int] /\ Reduced(i, u) \in [Index -> Int]
                              /\ \A k \in Index : /\ Reduced(i, w)[k] = cost[i][k] - w[k]
                                                   /\ Reduced(i, u)[k] = cost[i][k] - u[k]
        BY <1>0, <2>3, ReducedType
      <3> HIDE DEF u
      <3> QED BY <1>0, <2>3, <3>1, <3>2
    <2>6. Reduced(t, w)[m] >= 0
      <3>1. w[m] <= v[m] /\ v[m] <= cost[t][m]
        BY <2>1 DEF Lowered, TransferInv
      <3>2. Reduced(t, w)[m] = cost[t][m] - w[m] /\ cost[t][m] \in Int /\ w[m] \in Int /\ v[m] \in Int
        BY <2>5
      <3> QED BY <3>1, <3>2
    <2>7. u[c] = w[c] - Reduced(t, w)[m] /\ \A k \in Index : k # c => u[k] = w[k]
      BY <1>0, <2>1, <2>2
    <2> HIDE DEF u, c
    <2>8. ASSUME NEW k \in Index PROVE u[k] <= w[k]
      <3>1. CASE k = c
        BY <2>5, <2>6, <2>7, <3>1
      <3>2. CASE k # c
        BY <2>5, <2>7, <3>2
      <3> QED BY <3>1, <3>2
    <2>9. ASSUME NEW k \in Index PROVE u[k] <= v[k]
      <3>1. w[k] <= v[k]
        BY DEF Lowered
      <3> QED BY <2>5, <2>8, <3>1
    <2>10. ASSUME NEW k \in Index, u[k] # v[k]
           PROVE  Single(y[k]) /\ k = Kept(y[k]) /\ y[k] < t + 1
      <3>1. CASE k = c
        BY <1>0, <1>2, <2>2, <3>1 DEF c
      <3>2. CASE k # c
        <4>1. w[k] # v[k]
          BY <2>7, <2>10, <3>2
        <4>2. Single(y[k]) /\ k = Kept(y[k]) /\ y[k] < t
          BY <4>1 DEF Lowered
        <4> QED BY <1>0, <4>2
      <3> QED BY <3>1, <3>2
    <2>11. ASSUME NEW r \in Index, r < t + 1, Single(r), NEW l \in Index
           PROVE  Reduced(r, u)[Kept(r)] <= Reduced(r, u)[l]
      <3>1. CASE r = t
        <4>1. Reduced(t, u)[c] = Reduced(t, w)[m]
          <5>1. Reduced(t, u)[c] = cost[t][c] - u[c] /\ cost[t][c] \in Int /\ Reduced(t, w)[m] \in Int
            BY <2>2, <2>5
          <5> QED BY <2>4, <2>7, <5>1
        <4>2. CASE l = c
          BY <2>2, <2>5, <3>1, <4>2 DEF c
        <4>3. CASE l # c
          <5>1. Reduced(t, u)[l] = Reduced(t, w)[l]
            <6>1. Reduced(t, u)[l] = cost[t][l] - u[l] /\ Reduced(t, w)[l] = cost[t][l] - w[l] /\ u[l] = w[l]
              BY <2>5, <2>7, <4>3
            <6> QED BY <6>1
          <5>2. Reduced(t, w)[m] <= Reduced(t, w)[l]
            BY <2>1, <4>3
          <5> QED BY <3>1, <4>1, <5>1, <5>2 DEF c
        <4> QED BY <4>2, <4>3
      <3>2. CASE r # t
        <4>1. r < t /\ Kept(r) \in Index /\ y[Kept(r)] = r
          BY <1>0, <2>11, <3>2, SingleKeeps
        <4>2. Kept(r) # c
          BY <2>2, <3>2, <4>1
        <4> DEFINE e == Kept(r)
        <4>3. Reduced(r, w)[e] <= Reduced(r, w)[l]
          BY <2>11, <4>1 DEF Lowered
        <4>4. e \in Index /\ u[e] = w[e]
          BY <2>7, <4>1, <4>2
        <4> HIDE DEF e
        <4>5. Reduced(r, u)[e] = Reduced(r, w)[e]
          <5>1. Reduced(r, u)[e] = cost[r][e] - u[e] /\ Reduced(r, w)[e] = cost[r][e] - w[e]
            BY <2>5, <4>4
          <5> QED BY <4>4, <5>1
        <4>6. Reduced(r, w)[l] <= Reduced(r, u)[l]
          <5>1. Reduced(r, u)[l] = cost[r][l] - u[l] /\ Reduced(r, w)[l] = cost[r][l] - w[l] /\ u[l] <= w[l]
                /\ cost[r][l] \in Int /\ w[l] \in Int /\ u[l] \in Int
            BY <2>5, <2>8
          <5> QED BY <5>1
        <4>7. Reduced(r, u)[e] \in Int /\ Reduced(r, w)[l] \in Int /\ Reduced(r, u)[l] \in Int
          BY <2>5, <4>4
        <4>8. Reduced(r, u)[e] <= Reduced(r, u)[l]
          BY <4>3, <4>5, <4>6, <4>7
        <4> QED BY <4>8 DEF e
      <3> QED BY <3>1, <3>2
    <2> QED BY <2>3, <2>9, <2>10, <2>11 DEF Lowered, u
  <1> QED BY <1>1, <1>2

(* The prices that reduction transfer leaves. *)
LEMMA TransferPrices ==
  ASSUME CostOK, TransferInv, ReductionTransfer
  PROVE  Lowered(v', n)
  <1> DEFINE S == [Index -> Int]
             Run(f) == f = [i \in 0 .. n |-> IF i = 0 THEN v ELSE Transferred(i - 1, f[i - 1])]
             prices == CHOOSE f : Run(f)
             g == [p \in (0 + 1 .. n) \X S |-> Transferred(p[1] - 1, p[2])]
  <1>1. n \in Nat /\ 0 <= n /\ \A i \in 0 + 1 .. n : i \in Int /\ i # 0 /\ i - 1 \in Index /\ i - 1 \in 0 .. n /\ (i - 1) + 1 = i
    BY DEF CostOK, Index
  <1>2. v \in S
    BY DEF TransferInv
  <1>3. g \in [(0 + 1 .. n) \X S -> S]
    <2>1. ASSUME NEW p \in (0 + 1 .. n) \X S PROVE Transferred(p[1] - 1, p[2]) \in S
      BY <1>1, TransferredIs
    <2> QED BY <2>1
  <1>4. \E f : Run(f)
    <2>1. PICK f \in [0 .. n -> S] : f = [k \in 0 .. n |-> IF k = 0 THEN v ELSE g[<<k, f[k - 1]>>]]
      <3> HIDE DEF S, g
      <3>1. 0 \in Int /\ n \in Int
        BY <1>1
      <3>2. Loop(0, n, S, v, g)
        BY <1>1, <1>2, <1>3, <3>1 DEF Loop
      <3> QED BY <3>2, RecursionExists
    <2>2. ASSUME NEW k \in 0 .. n
          PROVE  f[k] = IF k = 0 THEN v ELSE Transferred(k - 1, f[k - 1])
      <3>1. CASE k = 0
        BY <2>1, <3>1
      <3>2. CASE k # 0
        <4>1. k \in 0 + 1 .. n /\ k - 1 \in 0 .. n
          BY <1>1, <3>2
        <4>2. f[k - 1] \in S
          BY <4>1
        <4>3. f[k] = g[<<k, f[k - 1]>>]
          <5> HIDE DEF g
          <5> QED BY <2>1, <3>2
        <4>4. g[<<k, f[k - 1]>>] = Transferred(k - 1, f[k - 1])
          <5> HIDE DEF S
          <5> QED BY <4>1, <4>2
        <4> QED BY <3>2, <4>3, <4>4
      <3> QED BY <3>1, <3>2
    <2>3. f = [k \in 0 .. n |-> f[k]]
      BY <2>1
    <2>4. Run(f)
      BY <2>2, <2>3
    <2> QED BY <2>4
  <1>5. Run(prices)
    <2> HIDE DEF Run
    <2> QED BY <1>4
  <1>6. v' = prices[n]
    BY DEF ReductionTransfer
  <1> HIDE DEF prices
  <1>7. prices[0] = v /\ \A i \in 0 + 1 .. n : prices[i] = Transferred(i - 1, prices[i - 1])
    <2>1. \A i \in 0 .. n : prices[i] = IF i = 0 THEN v ELSE Transferred(i - 1, prices[i - 1])
      BY <1>5
    <2>2. 0 \in 0 .. n /\ \A i \in 0 + 1 .. n : i \in 0 .. n
      BY <1>1
    <2> QED BY <1>1, <2>1, <2>2
  <1> DEFINE G == {t \in 0 .. n : Lowered(prices[t], t)}
  <1>8. 0 \in G
    <2>1. \A k \in Index : v[k] <= v[k]
      BY DEF TransferInv
    <2>2. \A r \in Index : ~(r < 0)
      BY DEF CostOK, Index
    <2>3. Lowered(v, 0)
      BY <2>1, <2>2 DEF Lowered, TransferInv
    <2>4. 0 \in 0 .. n
      BY <1>1
    <2> QED BY <1>7, <2>3, <2>4
  <1>9. ASSUME NEW t \in 0 + 1 .. n, t - 1 \in G PROVE t \in G
    <2>1. Lowered(prices[t - 1], t - 1) /\ t - 1 \in Index
      BY <1>1, <1>9
    <2>2. Lowered(Transferred(t - 1, prices[t - 1]), (t - 1) + 1)
      BY <2>1, LoweredStep
    <2> QED BY <1>1, <1>7, <2>2
  <1>10. n \in G
    <2> HIDE DEF G
    <2>1. \A t \in 0 .. n : t \in G
      BY <1>1, <1>8, <1>9, IntervalInduction DEF Inductive
    <2> QED BY <1>1, <2>1
  <1> QED BY <1>6, <1>10

-----------------------------------------------------------------------------
(* The array of free rows. *)

Entries(S) == 0 .. Cardinality(S) - 1

(* The array lists the rows of a set, each once. *)
LEMMA InOrderLists ==
  ASSUME CostOK, NEW S \in SUBSET Index
  PROVE  /\ IsFiniteSet(S) /\ Cardinality(S) \in 0 .. n
         /\ InOrder(S) \in [Index -> Index \union {None}]
         /\ \A k \in Entries(S) : InOrder(S)[k] \in S
         /\ \A k, l \in Entries(S) : InOrder(S)[k] = InOrder(S)[l] => k = l
         /\ \A i \in S : \E k \in Entries(S) : InOrder(S)[k] = i
  <1> DEFINE Below(i) == {l \in S : l < i}
             c == Cardinality(S)
             f == [i \in S |-> Cardinality(Below(i)) + 1]
  <1>0. Index = 0 .. n - 1 /\ n \in Nat /\ n - 1 \in Int /\ \A i \in S : i \in Int
    BY DEF CostOK, Index
  <1>1. IsFiniteSet(S) /\ c \in Nat /\ c <= n
    <2>1. IsFiniteSet(0 .. n - 1) /\ Cardinality(0 .. n - 1) = IF 0 > n - 1 THEN 0 ELSE (n - 1) - 0 + 1
      BY <1>0, FS_Interval
    <2>2. IsFiniteSet(S) /\ Cardinality(S) <= Cardinality(0 .. n - 1)
      BY <1>0, <2>1, FS_Subset
    <2> QED BY <1>0, <2>1, <2>2, FS_CardinalityType
  <1>2. ASSUME NEW i \in S
        PROVE  IsFiniteSet(Below(i)) /\ Cardinality(Below(i)) \in Nat /\ Cardinality(Below(i)) < c
    <2>1. IsFiniteSet(Below(i)) /\ Cardinality(Below(i)) <= c
      BY <1>1, FS_Subset
    <2>2. i \notin Below(i) /\ i \in S
      BY <1>0
    <2>3. c # Cardinality(Below(i))
      <3>1. Below(i) \in SUBSET S /\ Below(i) # S
        BY <2>2
      <3> HIDE DEF Below
      <3> QED BY <1>1, <3>1, FS_Subset
    <2> QED BY <1>1, <2>1, <2>3, FS_CardinalityType
  <1>3. ASSUME NEW i \in S, NEW k \in S, i < k
        PROVE  Cardinality(Below(i)) < Cardinality(Below(k))
    <2>1. Below(i) \subseteq Below(k) /\ i \in Below(k) /\ i \notin Below(i)
      <3>1. i \in Int /\ k \in Int
        BY <1>0
      <3>2. ASSUME NEW l \in S, l < i PROVE l < k
        <4>1. l \in Int
          BY <1>0
        <4> QED BY <1>3, <3>1, <3>2, <4>1
      <3>3. ~(i < i)
        BY <3>1
      <3>4. Below(i) \subseteq Below(k)
        BY <3>2
      <3>5. i \in Below(k)
        BY <1>3
      <3> QED BY <3>3, <3>4, <3>5
    <2>2. Below(i) \in SUBSET Below(k) /\ Below(i) # Below(k)
      BY <2>1
    <2> HIDE DEF Below
    <2>3. Cardinality(Below(i)) <= Cardinality(Below(k)) /\ Cardinality(Below(i)) # Cardinality(Below(k))
      BY <1>2, <2>2, FS_Subset
    <2> QED BY <1>2, <2>3
  <1>4. ASSUME NEW i \in S, NEW k \in S, Cardinality(Below(i)) = Cardinality(Below(k)) PROVE i = k
    <2> HIDE DEF Below
    <2>1. ~(i < k) /\ ~(k < i)
      BY <1>2, <1>3, <1>4
    <2> QED BY <1>0, <2>1
  <1>5. f \in Injection(S, 1 .. c)
    <2>1. f \in [S -> 1 .. c]
      <3>1. ASSUME NEW i \in S PROVE Cardinality(Below(i)) + 1 \in 1 .. c
        <4> HIDE DEF Below, c
        <4> QED BY <1>1, <1>2
      <3> QED BY <3>1
    <2>2. ASSUME NEW i \in S, NEW k \in S, f[i] = f[k] PROVE i = k
      <3>1. Cardinality(Below(i)) = Cardinality(Below(k))
        BY <1>2, <2>2
      <3> HIDE DEF Below
      <3> QED BY <1>4, <3>1
    <2> QED BY <2>1, <2>2 DEF Injection, IsInjective
  <1>6. f \in Surjection(S, 1 .. c)
    <2>1. IsFiniteSet(1 .. c) /\ Cardinality(1 .. c) = c
      BY <1>1, FS_Interval
    <2> HIDE DEF f, c
    <2> QED BY <1>5, <2>1, FS_Injection DEF c
  <1> DEFINE a == InOrder(S)
  <1>7. ASSUME NEW k \in Entries(S)
        PROVE  k \in Index /\ k \in 0 .. c - 1 /\ a[k] \in S /\ Cardinality(Below(a[k])) = k
    <2>0. k \in Int /\ 0 <= k /\ k < c /\ k \in Index
      BY <1>0, <1>1 DEF Entries
    <2>1. k + 1 \in 1 .. c
      BY <1>1, <2>0
    <2>2. PICK i \in S : f[i] = k + 1
      BY <1>6, <2>1 DEF Surjection
    <2>3. Cardinality(Below(i)) = k
      BY <1>2, <2>0, <2>2
    <2>4. a[k] = CHOOSE l \in S : Cardinality(Below(l)) = k
      BY <2>0 DEF InOrder
    <2> HIDE DEF Below, a
    <2> QED BY <1>1, <2>0, <2>3, <2>4
  <1>8. ASSUME NEW i \in S PROVE \E k \in Entries(S) : a[k] = i
    <2>1. Cardinality(Below(i)) \in Entries(S)
      BY <1>1, <1>2 DEF Entries
    <2> HIDE DEF Below, a
    <2> QED BY <1>4, <1>7, <2>1
  <1>9. a \in [Index -> Index \union {None}]
    <2>1. a = [k \in Index |-> a[k]]
      BY DEF InOrder
    <2>2. ASSUME NEW k \in Index PROVE a[k] \in Index \union {None}
      <3>1. CASE k < c
        <4>1. k \in Entries(S)
          BY <1>0, <1>1, <3>1 DEF Entries
        <4> QED BY <1>7, <4>1
      <3>2. CASE ~(k < c)
        BY <3>2 DEF InOrder
      <3> QED BY <3>1, <3>2
    <2> HIDE DEF a
    <2> QED BY <2>1, <2>2
  <1>10. ASSUME NEW k \in Entries(S), NEW l \in Entries(S), a[k] = a[l] PROVE k = l
    <2> HIDE DEF Below, a
    <2> QED BY <1>7, <1>10
  <1> HIDE DEF a, Below
  <1>11. Cardinality(S) \in 0 .. n
    BY <1>0, <1>1
  <1> QED BY <1>1, <1>7, <1>8, <1>9, <1>10, <1>11 DEF a

-----------------------------------------------------------------------------
(* The inductive invariant of the solver. *)

(* Types of the variables once the reductions have started. *)
MatchType ==
    /\ x \in [Index -> Index \union {None}] /\ y \in [Index -> Index \union {None}]
    /\ v \in [Index -> Int] /\ free_rows \in [Index -> Index \union {None}]
    /\ ret \in 0 .. n /\ round \in Nat

(* A column of C that has a row is that row's column. *)
MatchedOn(C) == \A k \in C : y[k] # None => x[y[k]] = k

(* The entries L of free_rows list the rows that own no column of C, each once. *)
ListedOn(L, C) ==
    /\ \A a \in L : free_rows[a] \in Index
    /\ \A a, b \in L : free_rows[a] = free_rows[b] => a = b
    /\ \A i \in Index : (\E a \in L : free_rows[a] = i) <=> (\A k \in C : y[k] # i)

(* Whatever column has a row is one of the row's cheapest. *)
Slack == \A k, l \in Index : y[k] # None => Reduced(y[k], v)[k] <= Reduced(y[k], v)[l]

(* The live entries of free_rows: _carr_dense writes behind where it reads. *)
Live == IF pc = "carr" THEN (0 .. carr.new - 1) \union (carr.current .. ret - 1)
        ELSE next .. ret - 1

(* The matrix does not change during a call. *)
LEMMA SameMatrix ==
  ASSUME input' = input
  PROVE  n' = n /\ Index' = Index /\ cost' = cost /\ (CostOK => CostOK')
  <1>1. n' = n
    BY DEF n
  <1>2. Index' = Index
    BY <1>1 DEF Index
  <1>3. cost' = cost
    BY <1>2 DEF cost
  <1> QED BY <1>1, <1>2, <1>3 DEF CostOK

(* None is not an index. *)
LEMMA NoneOut ==
  ASSUME CostOK
  PROVE  None \notin Index /\ n \in Int /\ \A k \in Index : k \in Int /\ k >= 0 /\ k < n /\ k # None
BY DEF CostOK, Index, None

(* After reduction transfer the first prices and the first matching support *)
(* each other, and the rows nobody asked are the free ones.                 *)
LEMMA TransferStep ==
  ASSUME CostOK, TransferInv, ReductionTransfer, round \in Nat
  PROVE  /\ (MatchType /\ MatchedOn(Index) /\ Slack)' /\ CostOK'
         /\ ListedOn(0 .. ret - 1, Index)'
  <1>0. /\ input' = input /\ n' = n /\ Index' = Index /\ cost' = cost /\ CostOK' /\ round' = round
    BY SameMatrix DEF ReductionTransfer
  <1> DEFINE free == {i \in Index : Askers(i) = {}}
  <1>1. /\ x' = [i \in Index |-> Kept(i)]
        /\ y' = [k \in Index |-> IF x'[y[k]] = k THEN y[k] ELSE None]
        /\ free_rows' = InOrder(free) /\ ret' = Cardinality(free)
    BY DEF ReductionTransfer
  <1>2. Lowered(v', n)
    BY TransferPrices
  <1>3. y \in [Index -> Index]
    BY DEF TransferInv
  <1>4. ASSUME NEW i \in Index
        PROVE  /\ x'[i] = Kept(i) /\ x'[i] \in Index \union {None}
               /\ x'[i] # None <=> Askers(i) # {}
               /\ x'[i] # None => x'[i] \in Index /\ y[x'[i]] = i /\ y'[x'[i]] = i
    <2>1. x'[i] = Kept(i)
      BY <1>1
    <2>2. CASE Askers(i) = {}
      BY <2>1, <2>2 DEF Kept
    <2>3. CASE Askers(i) # {}
      <3>1. Kept(i) \in Index /\ y[Kept(i)] = i /\ Kept(i) # None
        BY <2>3, KeptAsks, NoneOut
      <3>2. y'[Kept(i)] = i
        BY <1>1, <2>1, <3>1
      <3> QED BY <2>1, <2>3, <3>1, <3>2
    <2> QED BY <2>2, <2>3
  <1>5. ASSUME NEW k \in Index
        PROVE  /\ y'[k] \in Index \union {None}
               /\ y'[k] # None => y'[k] \in Index /\ y'[k] = y[k] /\ x'[y[k]] = k
    BY <1>1, <1>3
  <1>6. /\ x' \in [Index -> Index \union {None}] /\ y' \in [Index -> Index \union {None}]
    <2>1. x' = [i \in Index |-> x'[i]] /\ y' = [k \in Index |-> y'[k]]
      BY <1>1
    <2> QED BY <1>4, <1>5, <2>1
  <1>7. /\ free_rows' \in [Index -> Index \union {None}] /\ ret' \in 0 .. n
        /\ \A a \in 0 .. ret' - 1 : free_rows'[a] \in free
        /\ \A a, b \in 0 .. ret' - 1 : free_rows'[a] = free_rows'[b] => a = b
        /\ \A i \in free : \E a \in 0 .. ret' - 1 : free_rows'[a] = i
    <2>1. free \in SUBSET Index
      OBVIOUS
    <2> HIDE DEF free
    <2> QED BY <1>1, <2>1, InOrderLists DEF Entries
  <1>8. MatchType'
    <2>1. v' \in [Index -> Int]
      BY <1>2 DEF Lowered
    <2> HIDE DEF free
    <2> QED BY <1>0, <1>6, <1>7, <2>1 DEF MatchType
  <1>9. MatchedOn(Index)'
    BY <1>0, <1>5 DEF MatchedOn
  <1>10. ListedOn(0 .. ret - 1, Index)'
    <2>1. ASSUME NEW i \in Index PROVE i \in free <=> \A k \in Index : y'[k] # i
      <3>1. CASE Askers(i) = {}
        <4>1. \A k \in Index : y[k] # i
          BY <3>1 DEF Askers
        <4>2. \A k \in Index : y'[k] # i
          BY <1>5, <4>1, NoneOut
        <4> QED BY <3>1, <4>2
      <3>2. CASE Askers(i) # {}
        BY <1>4, <3>2
      <3> QED BY <3>1, <3>2
    <2>2. \A i \in free : i \in Index
      OBVIOUS
    <2> HIDE DEF free
    <2> QED BY <1>0, <1>7, <2>1, <2>2 DEF ListedOn
  <1>11. Slack'
    <2> SUFFICES ASSUME NEW k \in Index, NEW l \in Index, y'[k] # None
                 PROVE  Reduced(y'[k], v')[k] <= Reduced(y'[k], v')[l]
      BY <1>0 DEF Slack, Reduced
    <2> DEFINE r == y[k]
    <2>1. r \in Index /\ y'[k] = r /\ k = Kept(r)
      BY <1>3, <1>4, <1>5
    <2> HIDE DEF r
    <2>2. CASE Single(r)
      <3>1. r < n
        BY <2>1, NoneOut
      <3> QED BY <1>2, <2>1, <2>2, <3>1 DEF Lowered
    <2>3. CASE ~Single(r)
      <3>1. v'[k] = v[k]
        BY <1>2, <2>3 DEF Lowered, r
      <3>2. v'[k] = cost[r][k] /\ v'[l] <= v[l] /\ v[l] <= cost[r][l]
        BY <1>2, <2>1, <3>1 DEF Lowered, TransferInv, r
      <3>3. v' \in [Index -> Int] /\ v \in [Index -> Int] /\ cost[r][l] \in Int
        BY <1>2, <2>1 DEF Lowered, TransferInv, CostOK
      <3>4. Reduced(r, v')[k] = cost[r][k] - v'[k] /\ Reduced(r, v')[l] = cost[r][l] - v'[l]
        BY <2>1, <3>3, ReducedType
      <3> QED BY <2>1, <3>2, <3>3, <3>4
    <2> QED BY <2>2, <2>3
  <1> QED BY <1>0, <1>8, <1>9, <1>10, <1>11

-----------------------------------------------------------------------------
(* Column reduction and augmenting row reduction. *)

(* Column reduction establishes TransferInv. *)
LEMMA ColumnStep ==
  ASSUME CostOK, ColumnReduction
  PROVE  TransferInv' /\ CostOK'
  <1>0. /\ input' = input /\ n' = n /\ Index' = Index /\ cost' = cost /\ CostOK'
    BY SameMatrix DEF ColumnReduction
  <1> DEFINE f(k) == [i \in Index |-> cost[i][k]]
             w == [k \in Index |-> ArgMin(f(k), Index)]
  <1>1. y' = w /\ v' = [k \in Index |-> cost[y'[k]][k]]
    BY DEF ColumnReduction
  <1>2. ASSUME NEW k \in Index
        PROVE  /\ w[k] \in Index /\ cost[w[k]][k] \in Int
               /\ \A i \in Index : cost[w[k]][k] <= cost[i][k]
    <2>1. \A i \in Index : f(k)[i] = cost[i][k] /\ cost[i][k] \in Int
      BY DEF CostOK
    <2>2. Index # {}
      BY <1>2
    <2> DEFINE g == f(k)
    <2>3. \A i \in Index : g[i] = cost[i][k] /\ g[i] \in Int
      BY <2>1
    <2>4. w[k] = ArgMin(g, Index)
      OBVIOUS
    <2> HIDE DEF g, w
    <2>5. Index \in SUBSET Index
      OBVIOUS
    <2>6. w[k] \in Index /\ \A i \in Index : g[w[k]] <= g[i]
      BY <2>2, <2>3, <2>4, <2>5, ArgMinLeast
    <2> QED BY <2>3, <2>6
  <1>3. w \in [Index -> Index]
    <2>1. w = [k \in Index |-> w[k]]
      OBVIOUS
    <2> HIDE DEF w
    <2> QED BY <1>2, <2>1
  <1> HIDE DEF w
  <1>4. \A k \in Index : v'[k] = cost[w[k]][k]
    BY <1>1
  <1>5. v' \in [Index -> Int]
    BY <1>1, <1>2
  <1> QED BY <1>0, <1>1, <1>2, <1>3, <1>4, <1>5 DEF TransferInv

(* The bounds of _carr_dense's array indices. *)
CarrInv == /\ carr \in [current : Nat, new : Nat, rr : Nat]
           /\ carr.new <= carr.current /\ carr.current <= ret

(* What one turn does to prices and matching: row r takes column c, which   *)
(* is one of its cheapest under the new prices, and only c got cheaper.     *)
Takes(r, c) ==
    /\ r = free_rows[carr.current] /\ r \in Index /\ c \in Index
    /\ x' = [x EXCEPT ![r] = c] /\ y' = [y EXCEPT ![c] = r]
    /\ v' \in [Index -> Int] /\ v'[c] <= v[c] /\ \A k \in Index : k # c => v'[k] = v[k]
    /\ \A l \in Index : Reduced(r, v')[c] <= Reduced(r, v')[l]

(* The evicted row i0 is put in entry p, which is not live any more.        *)
Evicts(i0, p) ==
    /\ free_rows' = [free_rows EXCEPT ![p] = i0]
    /\ \/ p = carr.current /\ carr'.new = carr.new /\ carr'.current = carr.current
       \/ p = carr.new /\ carr'.new = carr.new + 1 /\ carr'.current = carr.current + 1
    /\ carr'.new <= carr'.current /\ carr'.current <= ret

(* One turn of the row reduction, taken apart. *)
LEMMA CarrIs ==
  ASSUME CostOK, MatchType, ListedOn(Live, Index), CarrInv, Carr
  PROVE  /\ carr' \in [current : Nat, new : Nat, rr : Nat]
         /\ \E r, c :
                   /\ Takes(r, c)
                   /\ \/ /\ y[c] = None /\ free_rows' = free_rows
                         /\ carr'.new = carr.new /\ carr'.current = carr.current + 1
                      \/ y[c] # None /\ \E p : Evicts(y[c], p)
  <1>0. pc = "carr" /\ carr.current < ret /\ input' = input /\ ret' = ret
    BY DEF Carr
  <1> DEFINE r == free_rows[carr.current]
             current == carr.current + 1
             rr_cnt == carr.rr + 1
             h == Reduced(r, v)
             j1 == ArgMin(h, Index)
             j2 == ArgMin(h, Index \ {j1})
             early == rr_cnt < current * n
             lower == early /\ h[j1] < h[j2]
             c == IF early /\ ~(h[j1] < h[j2]) /\ y[j1] >= 0 THEN j2 ELSE j1
             i0 == y[c]
  <1>1. /\ v' = IF lower THEN [v EXCEPT ![j1] = @ - (h[j2] - h[j1])] ELSE v
        /\ x' = [x EXCEPT ![r] = c]
        /\ y' = [y EXCEPT ![c] = r]
        /\ \/ /\ i0 < 0
              /\ carr' = [carr EXCEPT !.current = current, !.rr = rr_cnt]
              /\ UNCHANGED free_rows
           \/ /\ i0 >= 0 /\ lower
              /\ carr' = [carr EXCEPT !.rr = rr_cnt]
              /\ free_rows' = [free_rows EXCEPT ![current - 1] = i0]
           \/ /\ i0 >= 0 /\ ~lower
              /\ carr' = [current |-> current, new |-> carr.new + 1, rr |-> rr_cnt]
              /\ free_rows' = [free_rows EXCEPT ![carr.new] = i0]
    BY DEF Carr
  <1>2. /\ carr.current \in Nat /\ carr.new \in Nat /\ carr.rr \in Nat /\ current \in Nat /\ rr_cnt \in Nat
        /\ carr.new <= carr.current /\ ret \in Int /\ ret <= n /\ current - 1 = carr.current
        /\ carr = [current |-> carr.current, new |-> carr.new, rr |-> carr.rr]
    BY DEF CarrInv, MatchType, CostOK
  <1>3. r \in Index
    <2>1. carr.current \in Live
      BY <1>0, <1>2 DEF Live
    <2> QED BY <2>1 DEF ListedOn
  <1> HIDE DEF r, early
  <1>4. h \in [Index -> Int] /\ \A k \in Index : h[k] = cost[r][k] - v[k]
    BY <1>3, ReducedType DEF MatchType
  <1>5. j1 \in Index /\ \A l \in Index : h[j1] <= h[l]
    <2>1. Index \in SUBSET Index /\ Index # {} /\ \A k \in Index : h[k] \in Int
      BY <1>3, <1>4
    <2> HIDE DEF h
    <2> QED BY <2>1, ArgMinLeast
  <1>6. j2 \in Index /\ j2 # j1 /\ \A l \in Index : l # j1 => h[j2] <= h[l]
    <2>1. Index \ {j1} \in SUBSET Index /\ Index \ {j1} # {} /\ \A k \in Index \ {j1} : h[k] \in Int
      <3>1. 0 \in Index /\ 1 \in Index /\ 0 # 1
        BY DEF CostOK, Index
      <3> HIDE DEF j1
      <3> QED BY <1>4, <3>1
    <2>2. j2 \in Index \ {j1} /\ \A l \in Index \ {j1} : h[j2] <= h[l]
      <3> HIDE DEF h, j1
      <3> QED BY <2>1, ArgMinLeast
    <2> QED BY <2>2
  <1> HIDE DEF h, j1, j2
  <1>7. c \in Index /\ (c = j1 \/ ~(h[j1] < h[j2])) /\ (lower => c = j1)
    BY <1>5, <1>6
  <1>8. h[j1] \in Int /\ h[j2] \in Int /\ v \in [Index -> Int] /\ (c = j1 \/ c = j2)
    BY <1>4, <1>5, <1>6 DEF MatchType
  <1> HIDE DEF c
  <1>9. /\ v' \in [Index -> Int] /\ v'[c] <= v[c] /\ \A k \in Index : k # c => v'[k] = v[k]
        /\ \A l \in Index : Reduced(r, v')[c] <= Reduced(r, v')[l]
    <2>1. CASE lower
      <3>1. c = j1 /\ h[j1] < h[j2]
        BY <1>7, <2>1
      <3>2. v' = [v EXCEPT ![c] = v[c] - (h[j2] - h[c])]
        BY <1>1, <2>1, <3>1
      <3>3. v[c] \in Int /\ v[c] - (h[j2] - h[c]) \in Int /\ v[c] - (h[j2] - h[c]) <= v[c]
        BY <1>7, <1>8, <3>1
      <3>4. v' \in [Index -> Int] /\ v'[c] = v[c] - (h[j2] - h[c]) /\ \A k \in Index : k # c => v'[k] = v[k]
        BY <1>7, <1>8, <3>2, <3>3
      <3>5. \A l \in Index : Reduced(r, v')[l] = cost[r][l] - v'[l] /\ cost[r][l] \in Int
        BY <1>3, <3>4, ReducedType DEF CostOK
      <3>6. Reduced(r, v')[c] = h[j2]
        <4>1. h[c] = cost[r][c] - v[c] /\ Reduced(r, v')[c] = cost[r][c] - v'[c] /\ cost[r][c] \in Int /\ v[c] \in Int
          BY <1>4, <1>7, <3>3, <3>5
        <4> QED BY <1>8, <3>1, <3>4, <4>1
      <3>7. ASSUME NEW l \in Index PROVE Reduced(r, v')[c] <= Reduced(r, v')[l]
        <4>1. CASE l = c
          BY <1>8, <3>6, <4>1
        <4>2. CASE l # c
          <5>1. Reduced(r, v')[l] = h[l]
            BY <1>4, <3>4, <3>5, <4>2
          <5> QED BY <1>6, <3>1, <3>6, <4>2, <5>1
        <4> QED BY <4>1, <4>2
      <3> QED BY <3>3, <3>4, <3>7
    <2>2. CASE ~lower
      <3>1. v' = v
        BY <1>1, <2>2
      <3>2. v[c] \in Int /\ v[c] <= v[c]
        BY <1>7, <1>8
      <3>3. ASSUME NEW l \in Index PROVE h[c] <= h[l]
        <4>1. h[l] \in Int
          BY <1>4
        <4> QED BY <1>5, <1>7, <1>8, <4>1
      <3> QED BY <1>8, <3>1, <3>2, <3>3 DEF h
    <2> QED BY <2>1, <2>2
  <1>10. Takes(r, c)
    BY <1>1, <1>3, <1>7, <1>9 DEF Takes, r
  <1>11. /\ y[c] \in Index \union {None}
         /\ y[c] < 0 => y[c] = None /\ ~(y[c] >= 0)
         /\ y[c] >= 0 => ~(y[c] < 0)
    <2>1. y[c] \in Index \union {None}
      BY <1>7 DEF MatchType
    <2>2. y[c] = -1 \/ (y[c] \in Int /\ y[c] >= 0)
      BY <2>1, NoneOut DEF None
    <2> QED BY <2>1, <2>2 DEF None
  <1>12. CASE y[c] < 0
    <2>1. y[c] = None
      BY <1>11, <1>12
    <2>2. carr' = [current |-> current, new |-> carr.new, rr |-> rr_cnt] /\ free_rows' = free_rows
      <3>1. carr' = [carr EXCEPT !.current = current, !.rr = rr_cnt] /\ free_rows' = free_rows
        <4>1. ~(y[c] >= 0)
          BY <1>11, <1>12
        <4> QED BY <1>1, <4>1
      <3> QED BY <1>2, <3>1
    <2> QED BY <1>2, <1>10, <2>1, <2>2
  <1>13. CASE y[c] >= 0 /\ lower
    <2>1. y[c] # None
      BY <1>13 DEF None
    <2>2. carr' = [current |-> carr.current, new |-> carr.new, rr |-> rr_cnt]
          /\ free_rows' = [free_rows EXCEPT ![carr.current] = y[c]]
      <3>1. carr' = [carr EXCEPT !.rr = rr_cnt] /\ free_rows' = [free_rows EXCEPT ![current - 1] = y[c]]
        <4>1. ~(y[c] < 0)
          BY <1>11, <1>13
        <4> QED BY <1>1, <1>13, <4>1
      <3> QED BY <1>2, <3>1
    <2>3. carr'.new = carr.new /\ carr'.current = carr.current /\ carr.current <= ret
      BY <1>0, <1>2, <2>2
    <2>4. Evicts(y[c], carr.current)
      BY <1>2, <2>2, <2>3 DEF Evicts
    <2> QED BY <1>2, <1>10, <2>1, <2>2, <2>4
  <1>14. CASE y[c] >= 0 /\ ~lower
    <2>1. y[c] # None
      BY <1>14 DEF None
    <2>2. carr' = [current |-> current, new |-> carr.new + 1, rr |-> rr_cnt]
          /\ free_rows' = [free_rows EXCEPT ![carr.new] = y[c]]
      <3>1. ~(y[c] < 0)
        BY <1>11, <1>14
      <3> QED BY <1>1, <1>14, <3>1
    <2>3. current <= ret
      BY <1>0, <1>2
    <2>4. Evicts(y[c], carr.new)
      BY <1>2, <2>2, <2>3 DEF Evicts
    <2> QED BY <1>2, <1>10, <2>1, <2>2, <2>4
  <1> QED BY <1>1, <1>12, <1>13, <1>14

(* One turn of the row reduction keeps the invariant. *)
LEMMA CarrStep ==
  ASSUME CostOK, MatchType, MatchedOn(Index), ListedOn(Live, Index), Slack, CarrInv, Carr
  PROVE  (CostOK /\ MatchType /\ MatchedOn(Index) /\ ListedOn(Live, Index) /\ Slack /\ CarrInv)'
  <1>0. /\ pc = "carr" /\ pc' = pc /\ carr.current < ret /\ input' = input /\ ret' = ret /\ round' = round
        /\ n' = n /\ Index' = Index /\ cost' = cost /\ CostOK'
    <2>1. pc = "carr" /\ pc' = pc /\ carr.current < ret /\ input' = input /\ ret' = ret /\ round' = round
      BY DEF Carr
    <2> QED BY <2>1, SameMatrix
  <1>1. carr' \in [current : Nat, new : Nat, rr : Nat]
    BY CarrIs
  <1>2. PICK r, c :
          /\ Takes(r, c)
          /\ \/ /\ y[c] = None /\ free_rows' = free_rows
                /\ carr'.new = carr.new /\ carr'.current = carr.current + 1
             \/ y[c] # None /\ \E p : Evicts(y[c], p)
    BY CarrIs
  <1>3. /\ r = free_rows[carr.current] /\ r \in Index /\ c \in Index
        /\ x' = [x EXCEPT ![r] = c] /\ y' = [y EXCEPT ![c] = r] /\ v' \in [Index -> Int]
    BY <1>2 DEF Takes
  <1>4. /\ x \in [Index -> Index \union {None}] /\ y \in [Index -> Index \union {None}]
        /\ free_rows \in [Index -> Index \union {None}] /\ ret \in Int /\ ret <= n /\ round \in Nat
        /\ v \in [Index -> Int]
    BY DEF MatchType, CostOK
  <1>5. /\ carr.current \in Nat /\ carr.new \in Nat /\ carr.new <= carr.current
        /\ carr'.current \in Nat /\ carr'.new \in Nat
    BY <1>1 DEF CarrInv
  <1>6. /\ x' \in [Index -> Index \union {None}] /\ y' \in [Index -> Index \union {None}]
        /\ x'[r] = c /\ \A i \in Index : i # r => x'[i] = x[i]
        /\ y'[c] = r /\ \A k \in Index : k # c => y'[k] = y[k]
    BY <1>3, <1>4
  <1>7. \A k \in Index : y[k] # r /\ (k # c => y[k] # y[c] \/ y[k] = None)
    <2>1. carr.current \in Live
      BY <1>0, <1>4, <1>5 DEF Live
    <2>2. \A k \in Index : y[k] # r
      BY <1>3, <2>1 DEF ListedOn
    <2>3. ASSUME NEW k \in Index, k # c, y[k] = y[c], y[k] # None PROVE FALSE
      BY <1>3, <2>3 DEF MatchedOn
    <2> QED BY <2>2, <2>3
  <1>8. MatchedOn(Index)'
    <2>1. ASSUME NEW k \in Index, y'[k] # None PROVE x'[y'[k]] = k
      <3>1. CASE k = c
        BY <1>3, <1>6, <3>1
      <3>2. CASE k # c
        <4>1. y'[k] = y[k] /\ y[k] # r /\ y[k] \in Index /\ x[y[k]] = k
          BY <1>4, <1>6, <1>7, <2>1, <3>2 DEF MatchedOn
        <4> QED BY <1>6, <4>1
      <3> QED BY <3>1, <3>2
    <2> QED BY <1>0, <2>1 DEF MatchedOn
  <1>9. Slack'
    <2>1. /\ v'[c] <= v[c] /\ \A k \in Index : k # c => v'[k] = v[k]
          /\ \A l \in Index : Reduced(r, v')[c] <= Reduced(r, v')[l]
      BY <1>2 DEF Takes
    <2>2. ASSUME NEW i \in Index
          PROVE  /\ \A k \in Index : Reduced(i, v)[k] = cost[i][k] - v[k] /\ cost[i][k] \in Int
                 /\ \A k \in Index : Reduced(i, v')[k] = cost[i][k] - v'[k]
      BY <1>3, <1>4, ReducedType DEF CostOK
    <2>3. ASSUME NEW k \in Index, NEW l \in Index, y'[k] # None
          PROVE  Reduced(y'[k], v')[k] <= Reduced(y'[k], v')[l]
      <3>1. CASE k = c
        BY <1>6, <2>1, <3>1
      <3>2. CASE k # c
        <4> DEFINE i == y[k]
        <4>1. y'[k] = i /\ i # None /\ i \in Index
          BY <1>4, <1>6, <2>3, <3>2
        <4>2. Reduced(i, v)[k] <= Reduced(i, v)[l]
          BY <4>1 DEF Slack
        <4> HIDE DEF i
        <4>3. Reduced(i, v')[k] = Reduced(i, v)[k]
          BY <2>1, <2>2, <3>2, <4>1
        <4>4. Reduced(i, v)[l] <= Reduced(i, v')[l] /\ Reduced(i, v)[l] \in Int /\ Reduced(i, v')[l] \in Int /\ Reduced(i, v)[k] \in Int
          <5>1. v'[l] <= v[l] /\ v[l] \in Int /\ v'[l] \in Int /\ v[k] \in Int
            BY <1>3, <1>4, <2>1
          <5> QED BY <2>2, <4>1, <5>1
        <4> QED BY <4>1, <4>2, <4>3, <4>4
      <3> QED BY <3>1, <3>2
    <2> QED BY <1>0, <2>3 DEF Slack, Reduced
  <1>10. \A k \in 0 .. n - 1 : k \in Index
    BY DEF Index
  <1>11. CASE y[c] = None /\ free_rows' = free_rows /\ carr'.new = carr.new /\ carr'.current = carr.current + 1
    <2>1. CarrInv'
      BY <1>0, <1>1, <1>4, <1>5, <1>11 DEF CarrInv
    <2>2. Live = Live' \union {carr.current} /\ carr.current \notin Live'
      BY <1>0, <1>4, <1>5, <1>11 DEF Live
    <2>3. \A a \in Live' : free_rows[a] \in Index /\ free_rows[a] # r
      BY <1>3, <2>2 DEF ListedOn
    <2>4. ASSUME NEW i \in Index
          PROVE  (\E a \in Live' : free_rows[a] = i) <=> (\A k \in Index : y'[k] # i)
      <3>1. CASE i = r
        BY <1>3, <1>6, <2>3, <3>1
      <3>2. CASE i # r
        <4>1. (\E a \in Live' : free_rows[a] = i) <=> (\E a \in Live : free_rows[a] = i)
          BY <1>3, <2>2, <3>2
        <4>2. (\A k \in Index : y'[k] # i) <=> (\A k \in Index : y[k] # i)
          BY <1>3, <1>6, <1>11, <3>2, NoneOut
        <4> QED BY <4>1, <4>2 DEF ListedOn
      <3> QED BY <3>1, <3>2
    <2>5. ListedOn(Live, Index)'
      BY <1>0, <1>11, <2>2, <2>3, <2>4 DEF ListedOn
    <2>6. MatchType'
      BY <1>0, <1>3, <1>6, <1>11, <2>1 DEF MatchType
    <2> QED BY <1>0, <1>8, <1>9, <2>1, <2>5, <2>6
  <1>12. ASSUME y[c] # None, NEW p, Evicts(y[c], p)
         PROVE  (CostOK /\ MatchType /\ MatchedOn(Index) /\ ListedOn(Live, Index) /\ Slack /\ CarrInv)'
    <2> DEFINE i0 == y[c]
               Kept0 == Live \ {carr.current}
    <2>1. /\ p \in {carr.current, carr.new} /\ free_rows' = [free_rows EXCEPT ![p] = i0]
          /\ carr'.new <= carr'.current /\ carr'.current <= ret
      BY <1>12 DEF Evicts
    <2>2. CarrInv'
      BY <1>0, <1>1, <2>1 DEF CarrInv
    <2>3. p \in Index
      BY <1>0, <1>4, <1>5, <1>10, <2>1, NoneOut
    <2>4. i0 \in Index /\ i0 # r
      BY <1>3, <1>4, <1>7, <1>12
    <2>5. Live' = Kept0 \union {p} /\ p \notin Kept0
      <3>1. CASE carr'.new = carr.new /\ carr'.current = carr.current /\ p = carr.current
        BY <1>0, <1>4, <1>5, <3>1 DEF Live
      <3>2. CASE p = carr.new /\ carr'.new = carr.new + 1 /\ carr'.current = carr.current + 1
        <4>1. p = carr.new
          BY <3>2
        <4>2. Live = (0 .. carr.new - 1) \union (carr.current .. ret - 1)
          BY <1>0 DEF Live
        <4>3. Live' = (0 .. carr.new) \union (carr.current + 1 .. ret - 1)
          BY <1>0, <1>5, <3>2 DEF Live
        <4> QED BY <1>0, <1>4, <1>5, <4>1, <4>2, <4>3
      <3> QED BY <1>5, <1>12, <3>1, <3>2 DEF Evicts
    <2>6. carr.current \in Live /\ Live \subseteq Index
      BY <1>0, <1>4, <1>5, <1>10, NoneOut DEF Live
    <2> HIDE DEF Kept0, i0
    <2>7. /\ free_rows' \in [Index -> Index \union {None}]
          /\ free_rows'[p] = i0 /\ \A a \in Kept0 : free_rows'[a] = free_rows[a]
      BY <1>4, <2>1, <2>3, <2>4, <2>5, <2>6 DEF Kept0
    <2>8. /\ \A a \in Kept0 : free_rows[a] \in Index /\ free_rows[a] # r /\ free_rows[a] # i0
          /\ \A a, b \in Kept0 : free_rows[a] = free_rows[b] => a = b
          /\ Live = Kept0 \union {carr.current}
      <3>1. \A a \in Live : free_rows[a] # i0
        BY <1>3, <2>4 DEF ListedOn, i0
      <3> QED BY <1>3, <2>6, <3>1 DEF ListedOn, Kept0
    <2>9. ASSUME NEW i \in Index
          PROVE  (\E a \in Live' : free_rows'[a] = i) <=> (\A k \in Index : y'[k] # i)
      <3>1. CASE i = i0
        <4>1. \A k \in Index : y'[k] # i
          BY <1>3, <1>6, <1>7, <1>12, <2>4, <3>1 DEF i0
        <4> QED BY <2>5, <2>7, <3>1, <4>1
      <3>2. CASE i = r
        BY <1>3, <1>6, <2>4, <2>5, <2>7, <2>8, <3>2
      <3>3. CASE i # r /\ i # i0
        <4>1. (\E a \in Live' : free_rows'[a] = i) <=> (\E a \in Live : free_rows[a] = i)
          BY <1>3, <2>5, <2>7, <2>8, <3>3
        <4>2. (\A k \in Index : y'[k] # i) <=> (\A k \in Index : y[k] # i)
          BY <1>3, <1>6, <3>3 DEF i0
        <4> QED BY <4>1, <4>2 DEF ListedOn
      <3> QED BY <3>1, <3>2, <3>3
    <2>10. ListedOn(Live, Index)'
      <3>1. \A a \in Live' : free_rows'[a] \in Index
        BY <2>4, <2>5, <2>7, <2>8
      <3>2. \A a, b \in Live' : free_rows'[a] = free_rows'[b] => a = b
        BY <2>5, <2>7, <2>8
      <3> QED BY <1>0, <2>9, <3>1, <3>2 DEF ListedOn
    <2>11. MatchType'
      BY <1>0, <1>3, <1>4, <1>6, <2>7 DEF MatchType
    <2> QED BY <1>0, <1>8, <1>9, <2>2, <2>10, <2>11
  <1> QED BY <1>2, <1>11, <1>12

-----------------------------------------------------------------------------
(* The search for a shortest path. *)

(* The row the path is for, and what a tree row adds to the paths through   *)
(* it: nothing for the free row, otherwise the reduced cost of the row's    *)
(* own column less the distance of that column.                             *)
FreeRow == free_rows[next]
Base(q, i) == IF i = FreeRow THEN 0 ELSE Reduced(i, v)[x[i]] - q.d[x[i]]

(* The order of the columns is a permutation. *)
Perm(c) == /\ c \in [Index -> Index]
           /\ \A a, b \in Index : c[a] = c[b] => a = b
           /\ \A l \in Index : \E k \in Index : c[k] = l

PathSet == [cols : [Index -> Index], d : [Index -> Int], pred : [Index -> Index],
            lo : Nat, hi : Nat, n_ready : Nat]
PathOK(q) == /\ q \in PathSet /\ Perm(q.cols)
             /\ q.n_ready <= q.lo /\ q.lo <= q.hi /\ q.hi <= n

(* The columns before position top have rows. *)
AllMatched(q, top) == \A k \in 0 .. top - 1 : y[q.cols[k]] # None

(* They are in the order of their distances, with all others behind them. *)
Sorted(q, top) == \A a \in 0 .. top - 1, b \in 0 .. n - 1 :
                     a <= b => q.d[q.cols[a]] <= q.d[q.cols[b]]

(* The last batch of columns has one distance. *)
Batch(q) == \A a \in q.n_ready .. q.hi - 1 : q.d[q.cols[a]] = q.d[q.cols[q.n_ready]]

(* A distance is that of the path through the predecessor. *)
Edges(q) == \A c \in Index : q.d[c] = Reduced(q.pred[c], v)[c] - Base(q, q.pred[c])

(* A predecessor is the free row or owns a scanned column further ahead. *)
Tree(q, top) == \A k \in 0 .. top : \/ q.pred[q.cols[k]] = FreeRow
                                    \/ \E m \in 0 .. q.lo - 1 : m < k /\ y[q.cols[m]] = q.pred[q.cols[k]]

(* No path through the free row or through the first top columns is shorter. *)
Relaxed(q, top) ==
    \A c \in Index : /\ q.d[c] <= Reduced(FreeRow, v)[c]
                     /\ \A m \in 0 .. top - 1 :
                           q.d[c] <= Reduced(y[q.cols[m]], v)[c] - Base(q, y[q.cols[m]])

Search(q) == /\ PathOK(q) /\ AllMatched(q, q.hi) /\ Sorted(q, q.hi) /\ Batch(q)
             /\ Edges(q) /\ Tree(q, n - 1) /\ Relaxed(q, q.lo)

(* What the search leaves: an unassigned column at the least distance. *)
Reached(q, c) ==
    /\ PathOK(q) /\ q.n_ready < n /\ AllMatched(q, q.n_ready)
    /\ \A a \in 0 .. q.lo - 1 : q.d[q.cols[a]] <= q.d[q.cols[q.n_ready]]
    /\ \A a \in q.n_ready .. n - 1 : q.d[q.cols[q.n_ready]] <= q.d[q.cols[a]]
    /\ Edges(q) /\ Tree(q, n - 1) /\ Relaxed(q, q.n_ready)
    /\ c \in Index /\ y[c] = None /\ q.d[c] = q.d[q.cols[q.n_ready]]

(* e is the order c with the positions a and b exchanged. *)
IsSwap(e, c, a, b) == /\ Perm(e) /\ e[a] = c[b] /\ e[b] = c[a]
                      /\ \A k \in Index : k # a /\ k # b => e[k] = c[k]

(* A swap keeps the order a permutation. *)
LEMMA SwappedPerm ==
  ASSUME NEW c, Perm(c), NEW a \in Index, NEW b \in Index
  PROVE  IsSwap(Swapped(c, a, b), c, a, b)
  <1> DEFINE e == Swapped(c, a, b)
  <1>1. c \in [Index -> Index]
    BY DEF Perm
  <1>2. /\ e \in [Index -> Index] /\ e[b] = c[a] /\ e[a] = c[b]
        /\ \A k \in Index : k # a /\ k # b => e[k] = c[k]
    BY <1>1 DEF Swapped
  <1> HIDE DEF e
  <1>3. ASSUME NEW k \in Index, NEW l \in Index, e[k] = e[l] PROVE k = l
    BY <1>2, <1>3 DEF Perm
  <1>4. ASSUME NEW l \in Index PROVE \E k \in Index : e[k] = l
    <2>1. PICK k \in Index : c[k] = l
      BY DEF Perm
    <2>2. CASE k = a
      BY <1>2, <2>1, <2>2
    <2>3. CASE k = b
      BY <1>2, <2>1, <2>3
    <2>4. CASE k # a /\ k # b
      BY <1>2, <2>1, <2>4
    <2> QED BY <2>2, <2>3, <2>4
  <1>5. Perm(e)
    BY <1>2, <1>3, <1>4 DEF Perm
  <1> QED BY <1>2, <1>5 DEF e, IsSwap

(* Two orders with the same first columns... *)
SameHead(c, e, top) == /\ top \in Nat /\ Perm(c) /\ Perm(e)
                       /\ \A m \in 0 .. top - 1 : e[m] = c[m]

(* ... have the same columns behind them. *)
LEMMA SameTail ==
  ASSUME CostOK, NEW c, NEW e, NEW top, SameHead(c, e, top)
  PROVE  \A k \in Index : k >= top => \E l \in Index : l >= top /\ e[k] = c[l]
  <1> USE DEF SameHead
  <1> SUFFICES ASSUME NEW k \in Index, k >= top
               PROVE  \E l \in Index : l >= top /\ e[k] = c[l]
    OBVIOUS
  <1>1. e[k] \in Index
    BY DEF Perm
  <1>2. PICK l \in Index : c[l] = e[k]
    BY <1>1 DEF Perm
  <1>3. k \in Int /\ l \in Int /\ l >= 0
    BY NoneOut
  <1>4. CASE l < top
    <2>1. l \in 0 .. top - 1
      BY <1>3, <1>4
    <2>2. e[l] = e[k] /\ l # k
      BY <1>2, <1>3, <1>4, <2>1
    <2> QED BY <2>2 DEF Perm
  <1> QED BY <1>2, <1>3, <1>4

(* What the loop of _find_dense has done when position k is handled. *)
Found(t, k) ==
    /\ t \in [hi : Nat, mind : Int, cols : [Index -> Index]] /\ Perm(t.cols)
    /\ \A m \in 0 .. path.lo - 1 : t.cols[m] = path.cols[m]
    /\ path.lo < t.hi /\ t.hi <= k + 1
    /\ \A m \in path.lo .. t.hi - 1 : path.d[t.cols[m]] = t.mind
    /\ \A m \in t.hi .. k : t.mind <= path.d[t.cols[m]]

(* One turn of that loop. *)
LEMMA FindTurnStep ==
  ASSUME CostOK, PathOK(path), NEW k \in path.lo + 1 .. n - 1, NEW t, Found(t, k - 1)
  PROVE  Found(FindTurn(t, k), k)
  <1>0. /\ path.lo \in Nat /\ k \in Int /\ path.lo + 1 <= k /\ k < n /\ k \in Index
        /\ path.d \in [Index -> Int] /\ n \in Int /\ (k - 1) + 1 = k
    <2>1. path.lo \in Nat /\ path.d \in [Index -> Int]
      BY DEF PathOK, PathSet
    <2>2. n \in Int /\ Index = 0 .. n - 1
      BY DEF CostOK, Index
    <2>3. k \in Int /\ path.lo + 1 <= k /\ k < n
      BY <2>1, <2>2
    <2> QED BY <2>1, <2>2, <2>3, SMTT(60)
  <1>1. /\ t.hi \in Nat /\ t.mind \in Int /\ t.cols \in [Index -> Index] /\ Perm(t.cols)
        /\ path.lo < t.hi /\ t.hi <= k
        /\ t = [hi |-> t.hi, mind |-> t.mind, cols |-> t.cols]
    BY <1>0 DEF Found
  <1>2. \A m \in 0 .. k : m \in Index
    BY <1>0 DEF Index
  <1>3. /\ \A m \in 0 .. path.lo - 1 : t.cols[m] = path.cols[m]
        /\ \A m \in path.lo .. t.hi - 1 : path.d[t.cols[m]] = t.mind
        /\ \A m \in t.hi .. k - 1 : t.mind <= path.d[t.cols[m]]
    BY DEF Found
  <1> DEFINE dk == path.d[t.cols[k]]
             hi == IF dk < t.mind THEN path.lo ELSE t.hi
             s == [hi |-> hi + 1, mind |-> dk, cols |-> Swapped(t.cols, k, hi)]
  <1>4. FindTurn(t, k) = IF dk > t.mind THEN t ELSE s
    BY DEF FindTurn
  <1>5. dk \in Int
    BY <1>0, <1>1
  <1>6. \A l \in Index : path.d[t.cols[l]] \in Int
    BY <1>0, <1>1
  <1>7. CASE dk > t.mind
    <2>1. \A m \in t.hi .. k : t.mind <= path.d[t.cols[m]]
      <3>1. ASSUME NEW m \in t.hi .. k PROVE t.mind <= path.d[t.cols[m]]
        <4>1. m = k \/ m \in t.hi .. k - 1
          BY <1>0, <1>1
        <4>2. CASE m = k
          BY <1>1, <1>5, <1>7, <4>2
        <4> QED BY <1>3, <4>1, <4>2
      <3> QED BY <3>1
    <2>2. t.hi <= k + 1
      BY <1>0, <1>1
    <2>3. Found(t, k)
      BY <2>1, <2>2 DEF Found
    <2> QED BY <1>4, <1>7, <2>3
  <1>8. CASE ~(dk > t.mind)
    <2>1. hi \in Nat /\ hi <= k /\ path.lo <= hi /\ hi \in Index
      BY <1>0, <1>1, <1>2
    <2>4. (dk = t.mind /\ hi = t.hi) \/ (dk < t.mind /\ hi = path.lo)
      <3> HIDE DEF dk
      <3>1. CASE dk < t.mind
        BY <3>1
      <3>2. CASE ~(dk < t.mind)
        <4>1. t.mind \in Int /\ dk \in Int /\ ~(dk > t.mind)
          BY <1>1, <1>5, <1>8
        <4>2. dk = t.mind
          BY <3>2, <4>1
        <4> QED BY <3>2, <4>2
      <3> QED BY <3>1, <3>2
    <2> HIDE DEF hi, dk
    <2> DEFINE e == Swapped(t.cols, k, hi)
    <2>2. /\ Perm(e) /\ e[k] = t.cols[hi] /\ e[hi] = t.cols[k]
          /\ \A m \in Index : m # k /\ m # hi => e[m] = t.cols[m]
      <3>1. IsSwap(Swapped(t.cols, k, hi), t.cols, k, hi)
        BY <1>0, <1>1, <2>1, SwappedPerm
      <3> HIDE DEF e
      <3>2. IsSwap(e, t.cols, k, hi)
        BY <3>1 DEF e
      <3> QED BY <3>2 DEF IsSwap
    <2>3. s = [hi |-> hi + 1, mind |-> dk, cols |-> e]
      OBVIOUS
    <2> HIDE DEF e, s
    <2>5. s.hi = hi + 1 /\ s.mind = dk /\ s.cols = e
      BY <2>3
    <2>6. path.d[e[hi]] = dk
      BY <2>2 DEF dk
    <2>7. s \in [hi : Nat, mind : Int, cols : [Index -> Index]]
      BY <1>5, <2>1, <2>2, <2>3 DEF Perm
    <2>8. \A m \in 0 .. path.lo - 1 : e[m] = path.cols[m]
      <3>1. ASSUME NEW m \in 0 .. path.lo - 1 PROVE m \in Index /\ m # k /\ m # hi
        BY <1>0, <1>2, <2>1
      <3> QED BY <1>3, <2>2, <3>1
    <2>9. ASSUME NEW m \in path.lo .. hi PROVE path.d[e[m]] = dk
      <3>1. CASE m = hi
        BY <2>6, <3>1
      <3>2. CASE m # hi
        <4>1. m \in path.lo .. t.hi - 1 /\ m \in Index /\ m # k /\ dk = t.mind
          BY <1>0, <1>1, <1>2, <2>1, <2>4, <3>2
        <4> QED BY <1>3, <2>2, <3>2, <4>1
      <3> QED BY <3>1, <3>2
    <2>10. ASSUME NEW m \in hi + 1 .. k PROVE dk <= path.d[e[m]]
      <3> DEFINE l == IF m = k THEN hi ELSE m
      <3>1. m \in Index /\ m # hi /\ l \in Index /\ path.lo <= l /\ l < k /\ l >= hi /\ l \in Int
        BY <1>0, <1>2, <2>1
      <3>2. e[m] = t.cols[l]
        BY <2>2, <3>1
      <3> HIDE DEF l
      <3>3. t.mind <= path.d[t.cols[l]]
        <4>1. CASE l < t.hi
          <5>1. l \in path.lo .. t.hi - 1
            BY <1>0, <1>1, <3>1, <4>1
          <5> QED BY <1>1, <1>3, <5>1
        <4>2. CASE ~(l < t.hi)
          <5>1. l \in t.hi .. k - 1
            BY <1>0, <1>1, <3>1, <4>2
          <5> QED BY <1>3, <5>1
        <4> QED BY <4>1, <4>2
      <3>4. path.d[t.cols[l]] \in Int
        BY <1>6, <3>1
      <3> QED BY <1>1, <1>5, <2>4, <3>2, <3>3, <3>4
    <2>11. (hi + 1) - 1 = hi /\ path.lo < hi + 1 /\ hi + 1 <= k + 1
      BY <1>0, <2>1
    <2>12. Found(s, k)
      BY <2>2, <2>5, <2>7, <2>8, <2>9, <2>10, <2>11 DEF Found
    <2>13. FindTurn(t, k) = s
      BY <1>4, <1>8 DEF dk, s, hi
    <2> QED BY <2>12, <2>13
  <1> QED BY <1>7, <1>8

(* What _find_dense returns. *)
LEMMA FindDenseFound ==
  ASSUME CostOK, PathOK(path), path.lo < n
  PROVE  Found(FindDense, n - 1)
  <1> DEFINE a == path.lo
             b == n - 1
             s0 == [hi |-> path.lo + 1, mind |-> path.d[path.cols[path.lo]], cols |-> path.cols]
             S == [hi : Nat, mind : Int, cols : [Index -> Index]]
             Run(f) == f = [k \in path.lo .. n - 1 |->
                              IF k = path.lo
                              THEN [hi |-> k + 1, mind |-> path.d[path.cols[k]], cols |-> path.cols]
                              ELSE FindTurn(f[k - 1], k)]
             turn == CHOOSE f : Run(f)
             Good(k) == {t \in S : Found(t, k)}
  <1>1. a \in Nat /\ b \in Int /\ a <= b /\ n \in Int
    <2>1. path.lo \in Nat /\ n \in Int
      BY DEF PathOK, PathSet, CostOK
    <2> QED BY <2>1
  <1>2. Found(s0, a) /\ s0 \in S
    <2>1. /\ path.cols \in [Index -> Index] /\ path.d \in [Index -> Int] /\ Perm(path.cols) /\ a \in Index
      <3>1. Index = 0 .. n - 1
        BY DEF Index
      <3>2. a \in Index
        BY <1>1, <3>1
      <3> QED BY <3>2 DEF PathOK, PathSet
    <2>2. path.d[path.cols[path.lo]] \in Int
      BY <2>1
    <2>3. s0 \in S
      BY <1>1, <2>1, <2>2
    <2>4. s0.hi = a + 1 /\ s0.mind = path.d[path.cols[a]] /\ s0.cols = path.cols
      OBVIOUS
    <2> HIDE DEF s0
    <2>5. \A m \in a .. a : m = a
      BY <1>1
    <2>6. a < a + 1 /\ a + 1 <= a + 1 /\ (a + 1) - 1 = a /\ \A m \in a + 1 .. a : FALSE
      BY <1>1
    <2> QED BY <2>1, <2>3, <2>4, <2>5, <2>6 DEF Found
  <1>3. ASSUME NEW k \in a + 1 .. b, NEW t, Found(t, k - 1)
        PROVE  FindTurn(t, k) \in S /\ Found(FindTurn(t, k), k)
    <2>1. Found(FindTurn(t, k), k)
      BY <1>3, FindTurnStep
    <2> QED BY <2>1 DEF Found
  <1> HIDE DEF S, s0
  <1>4. \E f : Run(f)
    <2> DEFINE D == {p \in (a + 1 .. b) \X S : Found(p[2], p[1] - 1)}
               g == [p \in (a + 1 .. b) \X S |-> IF Found(p[2], p[1] - 1) THEN FindTurn(p[2], p[1]) ELSE p[2]]
    <2>1. g \in [(a + 1 .. b) \X S -> S]
      BY <1>3
    <2>2. Loop(a, b, S, s0, g)
      BY <1>1, <1>2, <2>1 DEF Loop
    <2>3. PICK f \in [a .. b -> S] : f = [k \in a .. b |-> IF k = a THEN s0 ELSE g[<<k, f[k - 1]>>]]
      <3> HIDE DEF g, a, b
      <3> QED BY <2>2, RecursionExists
    <2>4. f[a] = s0 /\ \A k \in a + 1 .. b : f[k] = g[<<k, f[k - 1]>>] /\ f[k - 1] \in S /\ k \in a .. b
      <3>1. a \in a .. b /\ \A k \in a + 1 .. b : k \in a .. b /\ k - 1 \in a .. b /\ k # a
        BY <1>1
      <3> HIDE DEF g, a, b
      <3> QED BY <2>3, <3>1
    <2> DEFINE G == {k \in a .. b : Found(f[k], k)}
    <2>5. \A k \in a .. b : k \in G
      <3>1. a \in G
        BY <1>1, <1>2, <2>4
      <3>2. ASSUME NEW k \in a + 1 .. b, k - 1 \in G PROVE k \in G
        <4>1. Found(f[k - 1], k - 1) /\ k \in a .. b /\ <<k, f[k - 1]>> \in (a + 1 .. b) \X S
          BY <2>4, <3>2
        <4>2. f[k] = FindTurn(f[k - 1], k)
          BY <2>4, <4>1
        <4> QED BY <1>3, <4>1, <4>2
      <3>3. Inductive(a, b, G)
        <4> HIDE DEF G
        <4> QED BY <1>1, <3>1, <3>2 DEF Inductive
      <3> HIDE DEF G, a, b
      <3> QED BY <3>3, IntervalInduction
    <2>6. \A k \in a + 1 .. b : f[k] = FindTurn(f[k - 1], k)
      <3>1. ASSUME NEW k \in a + 1 .. b PROVE f[k] = FindTurn(f[k - 1], k)
        <4>1. k - 1 \in a .. b
          BY <1>1
        <4>2. Found(f[k - 1], k - 1)
          BY <2>5, <4>1
        <4> QED BY <2>4, <4>2
      <3> QED BY <3>1
    <2>7. ASSUME NEW k \in path.lo .. n - 1
          PROVE  f[k] = IF k = path.lo
                        THEN [hi |-> k + 1, mind |-> path.d[path.cols[k]], cols |-> path.cols]
                        ELSE FindTurn(f[k - 1], k)
      <3>1. CASE k = path.lo
        BY <2>4, <3>1 DEF s0
      <3>2. CASE k # path.lo
        <4>1. k \in a + 1 .. b
          BY <1>1, <3>2
        <4> QED BY <2>6, <3>2, <4>1
      <3> QED BY <3>1, <3>2
    <2>8. f = [k \in path.lo .. n - 1 |-> f[k]]
      OBVIOUS
    <2>9. Run(f)
      BY <2>7, <2>8
    <2> QED BY <2>9
  <1>5. Run(turn)
    <2> HIDE DEF Run
    <2> QED BY <1>4
  <1>6. FindDense = turn[n - 1]
    BY DEF FindDense
  <1> HIDE DEF turn
  <1>7. turn[a] = s0 /\ \A k \in a + 1 .. b : turn[k] = FindTurn(turn[k - 1], k)
    <2>1. a \in a .. b /\ \A k \in a + 1 .. b : k \in a .. b /\ k # a
      BY <1>1
    <2> QED BY <1>5, <2>1 DEF s0
  <1> DEFINE G == {k \in a .. b : Found(turn[k], k)}
  <1>8. \A k \in a .. b : k \in G
    <2>1. a \in G
      BY <1>1, <1>2, <1>7
    <2>2. ASSUME NEW k \in a + 1 .. b, k - 1 \in G PROVE k \in G
      <3>1. k \in a .. b
        BY <1>1
      <3>2. Found(turn[k - 1], k - 1)
        BY <2>2
      <3> QED BY <1>3, <1>7, <3>1, <3>2
    <2>3. Inductive(a, b, G)
      <3> HIDE DEF G
      <3> QED BY <1>1, <2>1, <2>2 DEF Inductive
    <2> HIDE DEF G, a, b
    <2> QED BY <2>3, IntervalInduction
  <1>9. b \in a .. b
    BY <1>1
  <1> QED BY <1>6, <1>8, <1>9

(* While a path is sought, its row has no column. *)
Seeking == /\ next \in Nat /\ next < ret
           /\ MatchType /\ MatchedOn(Index) /\ ListedOn(next .. ret - 1, Index) /\ Slack

(* The free row is a row, and no column has it. *)
LEMMA FreeRowFree ==
  ASSUME CostOK, Seeking
  PROVE  FreeRow \in Index /\ \A k \in Index : y[k] # FreeRow
  <1>1. next \in next .. ret - 1
    BY DEF Seeking, MatchType, CostOK
  <1>2. FreeRow \in Index
    BY <1>1 DEF Seeking, ListedOn, FreeRow
  <1> QED BY <1>1, <1>2 DEF Seeking, ListedOn, FreeRow

(* Some column has no row, so the search never runs out of columns. *)
LEMMA ColumnsLeft ==
  ASSUME CostOK, Seeking, PathOK(path), AllMatched(path, path.lo)
  PROVE  path.lo < n
  <1>1. path.lo \in Nat /\ path.lo <= n /\ n \in Nat /\ Index = 0 .. n - 1
    BY DEF PathOK, PathSet, CostOK, Index
  <1> SUFFICES ASSUME path.lo = n PROVE FALSE
    BY <1>1
  <1>2. \A k \in Index : y[k] # None
    <2>1. ASSUME NEW k \in Index PROVE y[k] # None
      <3>1. PICK m \in Index : path.cols[m] = k
        BY DEF PathOK, Perm
      <3>2. m \in 0 .. path.lo - 1
        BY <1>1
      <3> QED BY <3>1, <3>2 DEF AllMatched
    <2> QED BY <2>1
  <1>3. /\ y \in [Index -> Index \union {None}]
        /\ \A k \in Index : x[y[k]] = k /\ y[k] # FreeRow
    BY <1>2, FreeRowFree DEF Seeking, MatchType, MatchedOn
  <1>4. y \in Injection(Index, Index \ {FreeRow})
    <2>1. y \in [Index -> Index \ {FreeRow}]
      BY <1>2, <1>3
    <2>2. \A k, l \in Index : y[k] = y[l] => k = l
      BY <1>3
    <2> QED BY <2>1, <2>2 DEF Injection, IsInjective
  <1>5. IsFiniteSet(Index) /\ Cardinality(Index) = n
    <2>1. IsFiniteSet(0 .. n - 1) /\ Cardinality(0 .. n - 1) = IF 0 > n - 1 THEN 0 ELSE (n - 1) - 0 + 1
      BY <1>1, FS_Interval
    <2>2. n >= 2
      BY DEF CostOK
    <2> QED BY <1>1, <2>1, <2>2
  <1>6. IsFiniteSet(Index \ {FreeRow}) /\ Cardinality(Index \ {FreeRow}) = n - 1
    BY <1>5, FreeRowFree, FS_RemoveElement
  <1>7. Cardinality(Index) <= Cardinality(Index \ {FreeRow})
    BY <1>4, <1>6, FS_Injection
  <1> QED BY <1>1, <1>5, <1>6, <1>7

(* The columns found keep their distances, predecessors and tree rows. *)
LEMMA FindKeeps ==
  ASSUME CostOK, Seeking, Search(path), path.lo = path.hi, NEW t, Found(t, n - 1),
         NEW q, q = [path EXCEPT !.n_ready = path.lo, !.hi = t.hi, !.cols = t.cols]
  PROVE  /\ PathOK(q) /\ q.lo < q.hi /\ q.n_ready = q.lo /\ q.lo = path.lo /\ q.hi = t.hi /\ q.cols = t.cols
         /\ Sorted(q, q.hi) /\ Batch(q) /\ Edges(q) /\ Tree(q, n - 1) /\ Relaxed(q, q.lo)
         /\ AllMatched(q, q.lo)
  <1>1. /\ path \in PathSet /\ Perm(path.cols) /\ path.lo \in Nat /\ path.lo <= n /\ n \in Int
        /\ path.d \in [Index -> Int] /\ path.pred \in [Index -> Index] /\ path.cols \in [Index -> Index]
    BY DEF Search, PathOK, PathSet, CostOK
  <1>2. /\ t.hi \in Nat /\ t.mind \in Int /\ t.cols \in [Index -> Index] /\ Perm(t.cols)
        /\ path.lo < t.hi /\ t.hi <= n
        /\ \A m \in 0 .. path.lo - 1 : t.cols[m] = path.cols[m]
        /\ \A m \in path.lo .. t.hi - 1 : path.d[t.cols[m]] = t.mind
        /\ \A m \in t.hi .. n - 1 : t.mind <= path.d[t.cols[m]]
    <2>1. (n - 1) + 1 = n
      BY <1>1
    <2> QED BY <2>1 DEF Found
  <1>3. q = [cols |-> t.cols, d |-> path.d, pred |-> path.pred, lo |-> path.lo, hi |-> t.hi, n_ready |-> path.lo]
    <2>1. path = [cols |-> path.cols, d |-> path.d, pred |-> path.pred, lo |-> path.lo, hi |-> path.hi, n_ready |-> path.n_ready]
      BY <1>1 DEF PathSet
    <2> QED BY <2>1
  <1>4. q.cols = t.cols /\ q.d = path.d /\ q.pred = path.pred /\ q.lo = path.lo /\ q.hi = t.hi /\ q.n_ready = path.lo
    BY <1>3
  <1>5. q \in PathSet
    BY <1>1, <1>2, <1>3 DEF PathSet
  <1>6. PathOK(q) /\ q.lo < q.hi
    <2>1. path.lo <= path.lo /\ path.lo <= t.hi
      BY <1>1, <1>2
    <2> QED BY <1>2, <1>4, <1>5, <2>1 DEF PathOK
  <1>7. /\ \A m \in 0 .. path.lo - 1 : m \in Index /\ m \in Int /\ m >= 0 /\ m < path.lo
        /\ \A k \in 0 .. n - 1 : k \in Index /\ k \in Int
    <2>1. Index = 0 .. n - 1
      BY DEF Index
    <2> QED BY <1>1, <2>1
  <1>8. \A k \in Index : k >= path.lo => \E l \in Index : l >= path.lo /\ t.cols[k] = path.cols[l]
    <2>1. SameHead(path.cols, t.cols, path.lo)
      BY <1>1, <1>2 DEF SameHead
    <2> QED BY <2>1, SameTail
  <1>9. \A l \in Index : path.d[path.cols[l]] \in Int /\ path.d[t.cols[l]] \in Int
    BY <1>1, <1>2
  <1>10. \A a \in Index : a >= path.lo => t.mind <= path.d[t.cols[a]]
    <2>1. ASSUME NEW a \in Index, a >= path.lo PROVE t.mind <= path.d[t.cols[a]]
      <3>1. a \in path.lo .. t.hi - 1 \/ a \in t.hi .. n - 1
        BY <1>1, <1>2, <2>1, NoneOut
      <3>2. CASE a \in path.lo .. t.hi - 1
        BY <1>2, <3>2
      <3> QED BY <1>2, <3>1, <3>2
    <2> QED BY <2>1
  <1>11. Sorted(q, q.hi)
    <2> SUFFICES ASSUME NEW a \in 0 .. t.hi - 1, NEW b \in 0 .. n - 1, a <= b
                 PROVE  path.d[t.cols[a]] <= path.d[t.cols[b]]
      BY <1>4 DEF Sorted
    <2>0. a \in Int /\ b \in Int /\ b \in Index /\ 0 <= a /\ a <= n - 1 /\ a \in Index
      BY <1>1, <1>2, <1>7
    <2>1. CASE a < path.lo
      <3>1. a \in 0 .. path.lo - 1 /\ t.cols[a] = path.cols[a]
        BY <1>1, <1>2, <2>0, <2>1
      <3>2. \E l \in Index : a <= l /\ t.cols[b] = path.cols[l]
        <4>1. CASE b < path.lo
          <5>1. b \in 0 .. path.lo - 1
            BY <1>1, <2>0, <4>1
          <5> QED BY <1>2, <2>0, <5>1
        <4>2. CASE ~(b < path.lo)
          <5>1. PICK l \in Index : l >= path.lo /\ t.cols[b] = path.cols[l]
            BY <1>1, <1>8, <2>0, <4>2
          <5>2. l \in Int
            BY NoneOut
          <5> QED BY <1>1, <2>0, <2>1, <5>1, <5>2
        <4> QED BY <4>1, <4>2
      <3>3. PICK l \in Index : a <= l /\ t.cols[b] = path.cols[l]
        BY <3>2
      <3>4. l \in 0 .. n - 1 /\ a \in 0 .. path.hi - 1
        BY <3>1 DEF Index
      <3>5. path.d[path.cols[a]] <= path.d[path.cols[l]]
        BY <3>3, <3>4 DEF Search, Sorted
      <3> QED BY <3>1, <3>3, <3>5
    <2>2. CASE ~(a < path.lo)
      <3>1. a \in path.lo .. t.hi - 1 /\ b >= path.lo
        BY <1>1, <1>2, <2>0, <2>2
      <3> QED BY <1>2, <1>10, <2>0, <3>1
    <2> QED BY <2>1, <2>2
  <1>12. Batch(q)
    <2>1. path.lo \in path.lo .. t.hi - 1
      BY <1>1, <1>2
    <2> QED BY <1>2, <1>4, <2>1 DEF Batch
  <1>13. \A i : Base(q, i) = Base(path, i)
    BY <1>4 DEF Base
  <1>14. Edges(q)
    BY <1>4, <1>13 DEF Edges, Search
  <1>15. Tree(q, n - 1)
    <2> SUFFICES ASSUME NEW k \in 0 .. n - 1, path.pred[t.cols[k]] # FreeRow
                 PROVE  \E m \in 0 .. path.lo - 1 : m < k /\ y[t.cols[m]] = path.pred[t.cols[k]]
      BY <1>4 DEF Tree
    <2>0. k \in Index /\ k \in Int
      BY <1>7
    <2>1. CASE k < path.lo
      <3>1. k \in 0 .. path.lo - 1 /\ t.cols[k] = path.cols[k]
        BY <1>1, <1>2, <2>0, <2>1
      <3>2. PICK m \in 0 .. path.lo - 1 : m < k /\ y[path.cols[m]] = path.pred[path.cols[k]]
        BY <3>1 DEF Search, Tree
      <3> QED BY <1>2, <3>1, <3>2
    <2>2. CASE ~(k < path.lo)
      <3>1. PICK l \in Index : t.cols[k] = path.cols[l]
        BY <1>1, <1>8, <2>0, <2>2
      <3>2. l \in 0 .. n - 1
        BY DEF Index
      <3>3. PICK m \in 0 .. path.lo - 1 : y[path.cols[m]] = path.pred[path.cols[l]]
        BY <3>1, <3>2 DEF Search, Tree
      <3>4. m < k
        BY <1>1, <2>0, <2>2
      <3> QED BY <1>2, <3>1, <3>3, <3>4
    <2> QED BY <2>1, <2>2
  <1>16. Relaxed(q, q.lo)
    BY <1>2, <1>4, <1>13 DEF Relaxed, Search
  <1>17. AllMatched(q, q.lo)
    BY <1>2, <1>4 DEF AllMatched, Search
  <1> QED BY <1>4, <1>6, <1>11, <1>12, <1>14, <1>15, <1>16, <1>17

(* Find either starts a batch of columns to scan or has reached the end. *)
LEMMA FindStep ==
  ASSUME CostOK, Seeking, Search(path), path.lo = path.hi, Find
  PROVE  \/ /\ pc' = "scan" /\ j' = j /\ Search(path') /\ path'.lo < path'.hi /\ path'.n_ready = path'.lo
         \/ pc' = "prices" /\ Reached(path', j')
  <1> DEFINE t == FindDense
             q == [path EXCEPT !.n_ready = path.lo, !.hi = t.hi, !.cols = t.cols]
             left == Unassigned(t)
  <1>1. /\ path' = q
        /\ \/ left = {} /\ pc' = "scan" /\ j' = j
           \/ left # {} /\ pc' = "prices" /\ j' = t.cols[Max(left)]
    BY DEF Find
  <1>2. PathOK(path) /\ AllMatched(path, path.lo)
    BY DEF Search
  <1>3. Found(t, n - 1)
    BY <1>2, ColumnsLeft, FindDenseFound
  <1> HIDE DEF t
  <1>4. /\ PathOK(q) /\ q.lo < q.hi /\ q.n_ready = q.lo /\ q.lo = path.lo /\ q.hi = t.hi /\ q.cols = t.cols
        /\ Sorted(q, q.hi) /\ Batch(q) /\ Edges(q) /\ Tree(q, n - 1) /\ Relaxed(q, q.lo)
        /\ AllMatched(q, q.lo)
    BY <1>3, FindKeeps
  <1> HIDE DEF q
  <1>5. /\ q.lo \in Nat /\ q.hi \in Nat /\ q.hi <= n /\ n \in Int /\ q.cols \in [Index -> Index] /\ q.d \in [Index -> Int]
        /\ y \in [Index -> Index \union {None}]
    BY <1>4 DEF PathOK, PathSet, CostOK, Seeking, MatchType
  <1>6. \A k \in 0 .. q.hi - 1 : k \in Index /\ k \in Int
    BY <1>5 DEF Index
  <1>7. left = {k \in q.lo .. q.hi - 1 : y[q.cols[k]] < 0}
    BY <1>4 DEF Unassigned
  <1>8. \A k \in q.lo .. q.hi - 1 : k \in 0 .. q.hi - 1 /\ (y[q.cols[k]] < 0 <=> y[q.cols[k]] = None)
    <2>1. ASSUME NEW k \in q.lo .. q.hi - 1
          PROVE  k \in 0 .. q.hi - 1 /\ (y[q.cols[k]] < 0 <=> y[q.cols[k]] = None)
      <3>1. k \in 0 .. q.hi - 1
        BY <1>5
      <3>2. y[q.cols[k]] \in Index \union {None}
        BY <1>5, <1>6, <3>1
      <3>3. y[q.cols[k]] = None \/ (y[q.cols[k]] \in Int /\ y[q.cols[k]] >= 0 /\ y[q.cols[k]] # None)
        BY <3>2, NoneOut
      <3>4. None < 0
        BY DEF None
      <3> QED BY <3>1, <3>3, <3>4
    <2> QED BY <2>1
  <1> HIDE DEF left
  <1>9. CASE left = {}
    <2>1. AllMatched(q, q.hi)
      <3>1. ASSUME NEW k \in 0 .. q.hi - 1 PROVE y[q.cols[k]] # None
        <4>1. k \in 0 .. q.lo - 1 \/ k \in q.lo .. q.hi - 1
          BY <1>5
        <4>2. CASE k \in 0 .. q.lo - 1
          BY <1>4, <4>2 DEF AllMatched
        <4>3. CASE k \in q.lo .. q.hi - 1
          BY <1>7, <1>8, <1>9, <4>3
        <4> QED BY <4>1, <4>2, <4>3
      <3> QED BY <3>1 DEF AllMatched
    <2>2. Search(q)
      BY <1>4, <2>1 DEF Search
    <2> QED BY <1>1, <1>4, <1>9, <2>2
  <1>10. CASE left # {}
    <2>1. Max(left) \in left
      <3> DEFINE f == [k \in Index |-> -k]
      <3>1. left \in SUBSET (0 .. q.hi - 1) /\ q.hi - 1 \in Int
        BY <1>5, <1>7, <1>8
      <3>2. \A k \in left : k \in Int /\ f[k] = -k /\ f[k] \in Int
        BY <1>6, <3>1
      <3>3. PICK k \in left : \A l \in left : f[k] <= f[l]
        <4> HIDE DEF f
        <4> QED BY <1>10, <3>1, <3>2, ImageHasLeast
      <3>4. ASSUME NEW l \in left PROVE k >= l
        <4>1. f[k] = -k /\ f[l] = -l /\ k \in Int /\ l \in Int /\ f[k] <= f[l]
          BY <3>2, <3>3
        <4> QED BY <4>1
      <3> QED BY <3>4 DEF Max
    <2> DEFINE m == Max(left)
               c == q.cols[m]
    <2>2. m \in q.lo .. q.hi - 1 /\ m \in Index /\ c \in Index /\ y[c] = None /\ j' = c
      <3>1. m \in q.lo .. q.hi - 1 /\ y[q.cols[m]] < 0
        BY <1>7, <2>1
      <3> QED BY <1>1, <1>4, <1>5, <1>6, <1>8, <1>10, <3>1
    <2> HIDE DEF m
    <2>3. q.d[c] = q.d[q.cols[q.n_ready]]
      BY <1>4, <2>2 DEF Batch
    <2>4. \A a \in 0 .. q.lo - 1 : q.d[q.cols[a]] <= q.d[q.cols[q.n_ready]]
      <3>1. ASSUME NEW a \in 0 .. q.lo - 1 PROVE q.d[q.cols[a]] <= q.d[q.cols[q.n_ready]]
        <4>1. a \in 0 .. q.hi - 1 /\ q.n_ready \in 0 .. n - 1 /\ a <= q.n_ready
          BY <1>4, <1>5
        <4> QED BY <1>4, <4>1 DEF Sorted
      <3> QED BY <3>1
    <2>5. \A a \in q.n_ready .. n - 1 : q.d[q.cols[q.n_ready]] <= q.d[q.cols[a]]
      <3>1. ASSUME NEW a \in q.n_ready .. n - 1 PROVE q.d[q.cols[q.n_ready]] <= q.d[q.cols[a]]
        <4>1. q.n_ready \in 0 .. q.hi - 1 /\ a \in 0 .. n - 1 /\ q.n_ready <= a
          BY <1>4, <1>5
        <4> QED BY <1>4, <4>1 DEF Sorted
      <3> QED BY <3>1
    <2>6. q.n_ready < n
      BY <1>4, <1>5
    <2>7. Reached(q, c)
      BY <1>4, <2>2, <2>3, <2>4, <2>5, <2>6 DEF Reached
    <2> QED BY <1>1, <1>10, <2>2, <2>7
  <1> QED BY <1>9, <1>10

-----------------------------------------------------------------------------
(* Scanning a column. *)

ScanCol == path.cols[path.lo]
ScanRow == y[ScanCol]
Mind == path.d[ScanCol]
(* The distance of a column through the scanned row. *)
Through(c) == Reduced(ScanRow, v)[c] - (Reduced(ScanRow, v)[ScanCol] - Mind)

(* A search that has columns left to scan. *)
Scanning == Seeking /\ Search(path) /\ path.lo < path.hi

(* The column scanned is its row's cheapest, so nothing gets nearer than it. *)
LEMMA ThroughIs ==
  ASSUME CostOK, Scanning
  PROVE  /\ ScanCol \in Index /\ ScanRow \in Index /\ ScanRow # FreeRow /\ x[ScanRow] = ScanCol /\ Mind \in Int
         /\ \A c \in Index : Through(c) \in Int /\ Mind <= Through(c)
         /\ \A c \in Index : Through(c) = Reduced(ScanRow, v)[c] - Base(path, ScanRow)
  <1>1. /\ path.lo \in 0 .. path.hi - 1 /\ path.lo \in Index /\ path.cols \in [Index -> Index] /\ path.d \in [Index -> Int]
    <2>1. path.lo \in Nat /\ path.hi \in Nat /\ path.hi <= n /\ n \in Int /\ path.lo < path.hi
      BY DEF Scanning, Search, PathOK, PathSet, CostOK
    <2>2. Index = 0 .. n - 1
      BY DEF Index
    <2>3. path.cols \in [Index -> Index] /\ path.d \in [Index -> Int]
      BY DEF Scanning, Search, PathOK, PathSet
    <2> QED BY <2>1, <2>2, <2>3
  <1>2. ScanCol \in Index /\ Mind \in Int
    BY <1>1 DEF ScanCol, Mind
  <1>3. y[ScanCol] # None /\ y[ScanCol] \in Index \union {None}
    BY <1>1, <1>2 DEF Scanning, Search, AllMatched, ScanCol, Seeking, MatchType
  <1>4. ScanRow \in Index /\ ScanRow # FreeRow /\ x[ScanRow] = ScanCol
    BY <1>2, <1>3, FreeRowFree DEF ScanRow, Scanning, Seeking, MatchedOn
  <1> DEFINE h == Reduced(ScanRow, v)
  <1>5. h \in [Index -> Int]
    BY <1>4, ReducedType DEF Scanning, Seeking, MatchType
  <1>6. \A c \in Index : h[ScanCol] <= h[c]
    BY <1>2, <1>3 DEF Scanning, Seeking, Slack, ScanRow
  <1>7. \A c \in Index : Through(c) = h[c] - (h[ScanCol] - Mind)
    BY DEF Through
  <1>8. Base(path, ScanRow) = h[ScanCol] - Mind
    BY <1>4 DEF Base, Mind
  <1> HIDE DEF h
  <1>9. ASSUME NEW c \in Index PROVE Through(c) \in Int /\ Mind <= Through(c)
    <2>1. h[c] \in Int /\ h[ScanCol] \in Int /\ h[ScanCol] <= h[c]
      BY <1>2, <1>5, <1>6
    <2> QED BY <1>2, <1>7, <2>1
  <1> QED BY <1>2, <1>4, <1>7, <1>8, <1>9 DEF h

(* What the loop of _scan_dense has done when position k is handled. *)
Scanned(t, k) ==
    /\ t.p \in PathSet /\ t.final \in Index \union {None} /\ t = [p |-> t.p, final |-> t.final]
    /\ t.p.lo = path.lo + 1 /\ t.p.n_ready = path.n_ready
    /\ path.hi <= t.p.hi /\ t.p.hi <= k + 1
    /\ SameHead(path.cols, t.p.cols, path.hi)
    /\ \A m \in 0 .. path.hi - 1 : LET c == path.cols[m]
                                   IN  t.p.d[c] = path.d[c] /\ t.p.pred[c] = path.pred[c]
    /\ \A c \in Index : /\ t.p.d[c] <= path.d[c]
                        /\ \/ t.p.d[c] = path.d[c] /\ t.p.pred[c] = path.pred[c]
                           \/ t.p.d[c] = Through(c) /\ t.p.pred[c] = ScanRow
    /\ \A m \in path.hi .. n - 1 : Mind <= t.p.d[t.p.cols[m]]
    /\ \A m \in path.hi .. t.p.hi - 1 : t.p.d[t.p.cols[m]] = Mind /\ y[t.p.cols[m]] # None
    /\ IF t.final = None THEN \A m \in path.hi .. k : t.p.d[t.p.cols[m]] <= Through(t.p.cols[m])
                         ELSE y[t.final] = None /\ t.p.d[t.final] = Mind

Rerouted(p, c) == [p EXCEPT !.d[c] = Through(c), !.pred[c] = ScanRow]

(* A shorter path through the scanned row to a column behind the batch. *)
LEMMA ShorterPath ==
  ASSUME CostOK, Scanning, NEW k \in path.hi .. n - 1, NEW t, Scanned(t, k - 1),
         NEW c, c = t.p.cols[k], Through(c) < t.p.d[c],
         NEW q, q = Rerouted(t.p, c)
  PROVE  /\ q \in PathSet /\ q.cols = t.p.cols /\ q.lo = t.p.lo /\ q.hi = t.p.hi /\ q.n_ready = t.p.n_ready
         /\ q.d[c] = Through(c) /\ q.pred[c] = ScanRow
         /\ \A e \in Index : e # c => q.d[e] = t.p.d[e] /\ q.pred[e] = t.p.pred[e]
  <1>1. c \in Index
    <2>1. k \in Index
      <3>1. path.hi \in Nat /\ n \in Int
        BY DEF Scanning, Search, PathOK, PathSet, CostOK
      <3>2. Index = 0 .. n - 1
        BY DEF Index
      <3> QED BY <3>1, <3>2
    <2>2. t.p.cols \in [Index -> Index]
      BY DEF Scanned, PathSet
    <2> QED BY <2>1, <2>2
  <1> DEFINE p == t.p
  <1>2. p \in PathSet /\ p.d \in [Index -> Int] /\ p.pred \in [Index -> Index]
    BY DEF Scanned, PathSet
  <1>3. q = Rerouted(p, c)
    OBVIOUS
  <1> HIDE DEF p
  <1>4. p = [cols |-> p.cols, d |-> p.d, pred |-> p.pred, lo |-> p.lo, hi |-> p.hi, n_ready |-> p.n_ready]
    BY <1>2 DEF PathSet
  <1> DEFINE d2 == [p.d EXCEPT ![c] = Through(c)]
             pred2 == [p.pred EXCEPT ![c] = ScanRow]
  <1>5. q = [cols |-> p.cols, d |-> d2, pred |-> pred2, lo |-> p.lo, hi |-> p.hi, n_ready |-> p.n_ready]
    BY <1>3, <1>4 DEF Rerouted
  <1>6. /\ d2 \in [Index -> Int] /\ pred2 \in [Index -> Index]
        /\ d2[c] = Through(c) /\ pred2[c] = ScanRow
        /\ \A e \in Index : e # c => d2[e] = p.d[e] /\ pred2[e] = p.pred[e]
    <2>1. Through(c) \in Int /\ ScanRow \in Index
      BY <1>1, ThroughIs
    <2> QED BY <1>1, <1>2, <2>1
  <1> HIDE DEF d2, pred2
  <1>7. q.cols = p.cols /\ q.d = d2 /\ q.pred = pred2 /\ q.lo = p.lo /\ q.hi = p.hi /\ q.n_ready = p.n_ready
    BY <1>5
  <1>8. q \in PathSet
    BY <1>2, <1>5, <1>6 DEF PathSet
  <1> QED BY <1>6, <1>7, <1>8 DEF p

Promoted(q, k) == [q EXCEPT !.cols = Swapped(q.cols, k, q.hi), !.hi = @ + 1]

(* The turn, by what it does to column c. *)
LEMMA ScanTurnIs ==
  ASSUME NEW t, NEW k, t = [p |-> t.p, final |-> t.final]
  PROVE  LET c == t.p.cols[k] IN
         ScanTurn(t, k) =
           IF t.final # None \/ Through(c) >= t.p.d[c] THEN t
           ELSE IF Through(c) # Mind THEN [p |-> Rerouted(t.p, c), final |-> t.final]
           ELSE IF y[c] < 0 THEN [p |-> Rerouted(t.p, c), final |-> c]
           ELSE [p |-> Promoted(Rerouted(t.p, c), k), final |-> t.final]
  <1> DEFINE c == t.p.cols[k]
             q == Rerouted(t.p, c)
             f == t.final
  <1>1. \A z : [t EXCEPT !.p = z] = [p |-> z, final |-> f]
    <2>1. \A z, a, b : [[p |-> a, final |-> b] EXCEPT !.p = z] = [p |-> z, final |-> b]
      OBVIOUS
    <2> QED BY <2>1
  <1>2. ScanTurn(t, k) = IF t.final # None \/ Through(c) >= t.p.d[c] THEN t
                         ELSE IF Through(c) # Mind THEN [t EXCEPT !.p = q]
                         ELSE IF y[c] < 0 THEN [p |-> q, final |-> c]
                         ELSE [t EXCEPT !.p = Promoted(q, k)]
    BY DEF ScanTurn, Through, ScanRow, ScanCol, Mind, Rerouted, Promoted
  <1>3. [t EXCEPT !.p = q] = [p |-> q, final |-> f] /\ [t EXCEPT !.p = Promoted(q, k)] = [p |-> Promoted(q, k), final |-> f]
    BY <1>1
  <1> HIDE DEF q, c, f
  <1>4. ScanTurn(t, k) = IF t.final # None \/ Through(c) >= t.p.d[c] THEN t
                         ELSE IF Through(c) # Mind THEN [p |-> q, final |-> f]
                         ELSE IF y[c] < 0 THEN [p |-> q, final |-> c]
                         ELSE [p |-> Promoted(q, k), final |-> f]
    BY <1>2, <1>3, Zenon
  <1> QED BY <1>4, Zenon DEF q, c, f

(* Positions of a scan. *)
LEMMA ScanPositions ==
  ASSUME CostOK, Scanning, NEW k \in path.hi .. n - 1, NEW t, Scanned(t, k - 1)
  PROVE  /\ path.hi \in Nat /\ k \in Int /\ k \in Index /\ path.hi <= k /\ k < n /\ n \in Int /\ (k - 1) + 1 = k
         /\ t.p.hi \in Nat /\ path.hi <= t.p.hi /\ t.p.hi <= k
         /\ t.p.cols \in [Index -> Index] /\ t.p.d \in [Index -> Int]
         /\ Perm(t.p.cols) /\ path.cols \in [Index -> Index] /\ path.d \in [Index -> Int]
         /\ \A m \in 0 .. n - 1 : m \in Index /\ m \in Int
         /\ \A m \in 0 .. path.hi - 1 : m \in Index /\ m # k /\ m < path.hi /\ t.p.cols[m] = path.cols[m]
  <1>1. path.hi \in Nat /\ path.hi <= n /\ n \in Int /\ Index = 0 .. n - 1 /\ path.cols \in [Index -> Index] /\ path.d \in [Index -> Int]
    <2>1. path.hi \in Nat /\ path.hi <= n /\ path.cols \in [Index -> Index] /\ path.d \in [Index -> Int]
      BY DEF Scanning, Search, PathOK, PathSet
    <2> QED BY <2>1 DEF CostOK, Index
  <1>2. /\ t.p \in PathSet /\ SameHead(path.cols, t.p.cols, path.hi)
        /\ path.hi <= t.p.hi /\ t.p.hi <= (k - 1) + 1
    BY DEF Scanned
  <1>3. t.p.hi \in Nat /\ t.p.cols \in [Index -> Index] /\ t.p.d \in [Index -> Int]
    BY <1>2 DEF PathSet
  <1>4. /\ Perm(t.p.cols) /\ \A m \in 0 .. path.hi - 1 : t.p.cols[m] = path.cols[m]
    BY <1>2 DEF SameHead
  <1>5. k \in Int /\ k \in Index /\ path.hi <= k /\ k < n /\ (k - 1) + 1 = k
    <2>1. k \in Int /\ path.hi <= k /\ k <= n - 1
      BY <1>1
    <2>2. k \in 0 .. n - 1 /\ k < n /\ (k - 1) + 1 = k
      BY <1>1, <2>1
    <2> QED BY <1>1, <2>1, <2>2
  <1>6. \A m \in 0 .. n - 1 : m \in Index /\ m \in Int
    BY <1>1
  <1>7. \A m \in 0 .. path.hi - 1 : m \in Index /\ m # k /\ m < path.hi
    BY <1>1, <1>5
  <1> QED BY <1>1, <1>2, <1>3, <1>4, <1>5, <1>6, <1>7

(* The shorter path keeps what the loop has done. *)
LEMMA RerouteStep ==
  ASSUME CostOK, Scanning, NEW k \in path.hi .. n - 1, NEW t, Scanned(t, k - 1), t.final = None,
         NEW c, c = t.p.cols[k], Through(c) < t.p.d[c],
         NEW q, q = Rerouted(t.p, c)
  PROVE  Scanned([p |-> q, final |-> None], k) /\ c \in Index /\ q.cols[k] = c /\ q.d[c] = Through(c) /\ q.hi <= k
  <1>1. /\ q \in PathSet /\ q.cols = t.p.cols /\ q.lo = t.p.lo /\ q.hi = t.p.hi /\ q.n_ready = t.p.n_ready
        /\ q.d[c] = Through(c) /\ q.pred[c] = ScanRow
        /\ \A e \in Index : e # c => q.d[e] = t.p.d[e] /\ q.pred[e] = t.p.pred[e]
    BY ShorterPath
  <1>2. /\ path.hi \in Nat /\ k \in Int /\ k \in Index /\ path.hi <= k /\ k < n /\ n \in Int /\ (k - 1) + 1 = k
        /\ t.p.hi \in Nat /\ path.hi <= t.p.hi /\ t.p.hi <= k
        /\ t.p.cols \in [Index -> Index] /\ t.p.d \in [Index -> Int]
        /\ Perm(t.p.cols) /\ path.cols \in [Index -> Index] /\ path.d \in [Index -> Int]
        /\ \A m \in 0 .. n - 1 : m \in Index /\ m \in Int
        /\ \A m \in 0 .. path.hi - 1 : m \in Index /\ m # k /\ m < path.hi /\ t.p.cols[m] = path.cols[m]
    BY ScanPositions
  <1>3. c \in Index /\ \A m \in Index : m # k => t.p.cols[m] # c
    BY <1>2 DEF Perm
  <1>4. Through(c) \in Int /\ Mind \in Int /\ Mind <= Through(c)
    BY <1>3, ThroughIs
  <1>5. /\ t.p.lo = path.lo + 1 /\ t.p.n_ready = path.n_ready
        /\ SameHead(path.cols, t.p.cols, path.hi)
        /\ \A m \in 0 .. path.hi - 1 : t.p.d[path.cols[m]] = path.d[path.cols[m]] /\ t.p.pred[path.cols[m]] = path.pred[path.cols[m]]
        /\ \A e \in Index : t.p.d[e] <= path.d[e]
        /\ \A e \in Index : \/ t.p.d[e] = path.d[e] /\ t.p.pred[e] = path.pred[e]
                            \/ t.p.d[e] = Through(e) /\ t.p.pred[e] = ScanRow
        /\ \A m \in path.hi .. n - 1 : Mind <= t.p.d[t.p.cols[m]]
        /\ \A m \in path.hi .. t.p.hi - 1 : t.p.d[t.p.cols[m]] = Mind /\ y[t.p.cols[m]] # None
        /\ \A m \in path.hi .. k - 1 : t.p.d[t.p.cols[m]] <= Through(t.p.cols[m])
    BY DEF Scanned
  <1>14. ASSUME NEW m \in Index, m # k
         PROVE  /\ q.cols[m] = t.p.cols[m] /\ q.cols[m] \in Index /\ q.cols[m] # c
                /\ q.d[q.cols[m]] = t.p.d[t.p.cols[m]] /\ q.pred[q.cols[m]] = t.p.pred[t.p.cols[m]]
    <2>1. q.cols[m] = t.p.cols[m]
      BY <1>1
    <2>2. t.p.cols[m] \in Index
      BY <1>2
    <2>3. t.p.cols[m] # c
      BY <1>3, <1>14
    <2> QED BY <1>1, <2>1, <2>2, <2>3
  <1>6. ASSUME NEW m \in 0 .. path.hi - 1
        PROVE  q.d[path.cols[m]] = path.d[path.cols[m]] /\ q.pred[path.cols[m]] = path.pred[path.cols[m]]
    <2>1. m \in Index /\ m # k /\ t.p.cols[m] = path.cols[m]
      BY <1>2
    <2>2. q.d[q.cols[m]] = t.p.d[t.p.cols[m]] /\ q.pred[q.cols[m]] = t.p.pred[t.p.cols[m]] /\ q.cols[m] = t.p.cols[m]
      BY <1>14, <2>1
    <2> QED BY <1>5, <2>1, <2>2
  <1>7. ASSUME NEW e \in Index
        PROVE  /\ q.d[e] <= path.d[e]
               /\ \/ q.d[e] = path.d[e] /\ q.pred[e] = path.pred[e]
                  \/ q.d[e] = Through(e) /\ q.pred[e] = ScanRow
    <2>1. CASE e = c
      <3>1. t.p.d[c] \in Int /\ path.d[c] \in Int /\ t.p.d[c] <= path.d[c]
        BY <1>2, <1>3, <1>5
      <3>2. q.d[c] = Through(c) /\ q.pred[c] = ScanRow
        BY <1>1
      <3> QED BY <1>4, <2>1, <3>1, <3>2
    <2>2. CASE e # c
      <3>1. q.d[e] = t.p.d[e] /\ q.pred[e] = t.p.pred[e]
        BY <1>1, <2>2
      <3>2. /\ t.p.d[e] <= path.d[e]
            /\ \/ t.p.d[e] = path.d[e] /\ t.p.pred[e] = path.pred[e]
               \/ t.p.d[e] = Through(e) /\ t.p.pred[e] = ScanRow
        BY <1>5
      <3> QED BY <3>1, <3>2
    <2> QED BY <2>1, <2>2
  <1>8. ASSUME NEW m \in path.hi .. n - 1 PROVE Mind <= q.d[q.cols[m]]
    <2>1. m \in Index
      BY <1>2
    <2>2. CASE m = k
      BY <1>1, <1>4, <2>2
    <2>3. CASE m # k
      <3>1. q.cols[m] \in Index /\ q.cols[m] # c /\ q.d[q.cols[m]] = t.p.d[t.p.cols[m]]
        BY <1>14, <2>1, <2>3
      <3> QED BY <1>5, <3>1
    <2> QED BY <2>2, <2>3
  <1>9. ASSUME NEW m \in path.hi .. q.hi - 1 PROVE q.d[q.cols[m]] = Mind /\ y[q.cols[m]] # None
    <2>1. m \in Index /\ m # k /\ m \in path.hi .. t.p.hi - 1
      BY <1>1, <1>2
    <2>2. q.cols[m] \in Index /\ q.cols[m] # c /\ q.d[q.cols[m]] = t.p.d[t.p.cols[m]]
      BY <1>14, <2>1
    <2> QED BY <1>1, <1>5, <2>1, <2>2
  <1>10. ASSUME NEW m \in path.hi .. k PROVE q.d[q.cols[m]] <= Through(q.cols[m])
    <2>1. CASE m = k
      BY <1>1, <1>4, <2>1
    <2>2. CASE m # k
      <3>1. m \in Index /\ m \in path.hi .. k - 1
        BY <1>2, <2>2
      <3>2. q.cols[m] \in Index /\ q.cols[m] # c /\ q.d[q.cols[m]] = t.p.d[t.p.cols[m]] /\ q.cols[m] = t.p.cols[m]
        BY <1>14, <2>2, <3>1
      <3> QED BY <1>5, <3>1, <3>2
    <2> QED BY <2>1, <2>2
  <1>11. path.hi <= q.hi /\ q.hi <= k + 1 /\ q.hi <= k
    <2>1. q.hi = t.p.hi
      BY <1>1
    <2> QED BY <1>2, <2>1
  <1> DEFINE s == [p |-> q, final |-> None]
  <1>12. s.p = q /\ s.final = None /\ s = [p |-> s.p, final |-> s.final]
    OBVIOUS
  <1> HIDE DEF s
  <1>13. Scanned(s, k)
    BY <1>1, <1>5, <1>6, <1>7, <1>8, <1>9, <1>10, <1>11, <1>12, ZenonT(60) DEF Scanned
  <1> QED BY <1>1, <1>3, <1>11, <1>13 DEF s

(* One more position. *)
LEMMA OneMore ==
  ASSUME NEW a \in Nat, NEW b \in Nat, NEW d \in Int, a <= b, b <= d
  PROVE  a <= b + 1 /\ b + 1 <= d + 1 /\ (b + 1) - 1 = b
OBVIOUS

(* A column at the distance of the scanned one joins the batch. *)
LEMMA PromoteStep ==
  ASSUME CostOK, Scanning, NEW k \in path.hi .. n - 1,
         NEW q, Scanned([p |-> q, final |-> None], k), q.hi <= k,
         NEW c, c = q.cols[k], q.d[c] = Mind, y[c] # None,
         NEW r, r = Promoted(q, k)
  PROVE  Scanned([p |-> r, final |-> None], k)
  <1> DEFINE s == [p |-> q, final |-> None]
  <1>0. s.p = q /\ s.final = None
    OBVIOUS
  <1>1. /\ q \in PathSet /\ q.lo = path.lo + 1 /\ q.n_ready = path.n_ready
        /\ path.hi <= q.hi /\ SameHead(path.cols, q.cols, path.hi)
        /\ \A m \in 0 .. path.hi - 1 : q.d[path.cols[m]] = path.d[path.cols[m]] /\ q.pred[path.cols[m]] = path.pred[path.cols[m]]
        /\ \A e \in Index : /\ q.d[e] <= path.d[e]
                            /\ \/ q.d[e] = path.d[e] /\ q.pred[e] = path.pred[e]
                               \/ q.d[e] = Through(e) /\ q.pred[e] = ScanRow
        /\ \A m \in path.hi .. n - 1 : Mind <= q.d[q.cols[m]]
        /\ \A m \in path.hi .. q.hi - 1 : q.d[q.cols[m]] = Mind /\ y[q.cols[m]] # None
        /\ \A m \in path.hi .. k : q.d[q.cols[m]] <= Through(q.cols[m])
    <2>1. Scanned(s, k)
      OBVIOUS
    <2> HIDE DEF s
    <2> QED BY <1>0, <2>1 DEF Scanned
  <1>2. /\ path.hi \in Nat /\ q.hi \in Nat /\ q.cols \in [Index -> Index] /\ n \in Int
        /\ k \in Int /\ path.hi <= k /\ k < n /\ Index = 0 .. n - 1
    <2>1. path.hi \in Nat /\ n \in Int
      BY DEF Scanning, Search, PathOK, PathSet, CostOK
    <2>2. Index = 0 .. n - 1
      BY DEF Index
    <2>3. q.hi \in Nat /\ q.cols \in [Index -> Index]
      BY <1>1 DEF PathSet
    <2>4. k \in Int /\ path.hi <= k /\ k < n
      BY <2>1
    <2> QED BY <2>1, <2>2, <2>3, <2>4
  <1>3. k \in Index /\ q.hi \in Index /\ Perm(q.cols)
    BY <1>1, <1>2 DEF SameHead
  <1> DEFINE e == Swapped(q.cols, k, q.hi)
  <1>4. /\ Perm(e) /\ e[k] = q.cols[q.hi] /\ e[q.hi] = c
        /\ \A m \in Index : m # k /\ m # q.hi => e[m] = q.cols[m]
    <2>1. IsSwap(Swapped(q.cols, k, q.hi), q.cols, k, q.hi)
      BY <1>3, SwappedPerm
    <2> HIDE DEF e
    <2>2. IsSwap(e, q.cols, k, q.hi)
      BY <2>1 DEF e
    <2>3. c = q.cols[k]
      OBVIOUS
    <2> QED BY <2>2, <2>3 DEF IsSwap
  <1>5. r = [cols |-> e, d |-> q.d, pred |-> q.pred, lo |-> q.lo, hi |-> q.hi + 1, n_ready |-> q.n_ready]
    <2>1. q = [cols |-> q.cols, d |-> q.d, pred |-> q.pred, lo |-> q.lo, hi |-> q.hi, n_ready |-> q.n_ready]
      BY <1>1 DEF PathSet
    <2> HIDE DEF e
    <2>2. r = [q EXCEPT !.cols = e, !.hi = q.hi + 1]
      BY DEF Promoted, e
    <2> QED BY <2>1, <2>2
  <1> HIDE DEF e
  <1>6. /\ r.cols = e /\ r.d = q.d /\ r.pred = q.pred /\ r.lo = q.lo /\ r.hi = q.hi + 1 /\ r.n_ready = q.n_ready
    BY <1>5
  <1>7. r \in PathSet
    <2>1. /\ e \in [Index -> Index] /\ q.d \in [Index -> Int] /\ q.pred \in [Index -> Index]
          /\ q.lo \in Nat /\ q.n_ready \in Nat
      BY <1>1, <1>4 DEF PathSet, Perm
    <2>2. q.hi + 1 \in Nat
      BY <1>2
    <2> QED BY <1>5, <2>1, <2>2 DEF PathSet
  <1>17. path.hi <= q.hi
    BY <1>1
  <1>18. r.hi = q.hi + 1
    BY <1>6
  <1>8. path.hi <= r.hi /\ r.hi <= k + 1 /\ r.hi - 1 = q.hi
    <2>1. path.hi <= q.hi + 1 /\ q.hi + 1 <= k + 1 /\ (q.hi + 1) - 1 = q.hi
      BY <1>2, <1>17, OneMore, Zenon
    <2> QED BY <1>18, <2>1, Zenon
  <1>9. SameHead(path.cols, r.cols, path.hi)
    <2>1. /\ path.hi \in Nat /\ path.hi <= q.hi /\ q.hi \in Nat /\ k \in Int /\ path.hi <= k /\ k < n
          /\ n \in Int /\ Index = 0 .. n - 1
      BY <1>2, <1>17
    <2>2. ASSUME NEW m \in 0 .. path.hi - 1 PROVE m \in Index /\ m # k /\ m # q.hi
      BY <2>1
    <2> QED BY <1>1, <1>4, <1>6, <2>2 DEF SameHead
  <1>10. ASSUME NEW m \in path.hi .. n - 1 PROVE Mind <= r.d[r.cols[m]]
    <2>1. m \in Index /\ q.hi \in path.hi .. n - 1
      BY <1>1, <1>2
    <2>2. CASE m = k
      BY <1>1, <1>4, <1>6, <2>1, <2>2
    <2>3. CASE m = q.hi
      BY <1>1, <1>4, <1>6, <2>3
    <2>4. CASE m # k /\ m # q.hi
      BY <1>1, <1>4, <1>6, <2>1, <2>4
    <2> QED BY <2>2, <2>3, <2>4
  <1>11. ASSUME NEW m \in path.hi .. r.hi - 1 PROVE r.d[r.cols[m]] = Mind /\ y[r.cols[m]] # None
    <2>1. CASE m = q.hi
      BY <1>4, <1>6, <2>1
    <2>2. CASE m # q.hi
      <3>1. m \in path.hi .. q.hi - 1 /\ m \in Index /\ m # k
        <4>1. /\ path.hi \in Nat /\ q.hi \in Nat /\ n \in Int /\ k \in Int /\ path.hi <= k /\ k < n
              /\ Index = 0 .. n - 1 /\ r.hi - 1 = q.hi /\ q.hi <= k
          BY <1>2, <1>8
        <4>2. m \in path.hi .. q.hi
          BY <4>1
        <4> QED BY <2>2, <4>1, <4>2
      <3> QED BY <1>1, <1>4, <1>6, <2>2, <3>1
    <2> QED BY <2>1, <2>2
  <1>12. ASSUME NEW m \in path.hi .. k PROVE r.d[r.cols[m]] <= Through(r.cols[m])
    <2>1. m \in Index /\ q.hi \in path.hi .. k /\ k \in path.hi .. k
      BY <1>1, <1>2
    <2>2. CASE m = k
      BY <1>1, <1>4, <1>6, <2>1, <2>2
    <2>3. CASE m = q.hi
      BY <1>1, <1>4, <1>6, <2>1, <2>3
    <2>4. CASE m # k /\ m # q.hi
      BY <1>1, <1>4, <1>6, <2>1, <2>4
    <2> QED BY <2>2, <2>3, <2>4
  <1> DEFINE u == [p |-> r, final |-> None]
  <1>13. u.p = r /\ u.final = None /\ u = [p |-> u.p, final |-> u.final]
    OBVIOUS
  <1> HIDE DEF u
  <1>14. Scanned(u, k)
    BY <1>1, <1>6, <1>7, <1>8, <1>9, <1>10, <1>11, <1>12, <1>13 DEF Scanned
  <1> QED BY <1>14 DEF u

(* An unassigned column at the distance of the scanned one is the end. *)
LEMMA EndStep ==
  ASSUME NEW k, NEW q, Scanned([p |-> q, final |-> None], k),
         NEW c \in Index, y[c] = None, q.d[c] = Mind
  PROVE  Scanned([p |-> q, final |-> c], k)
  <1> DEFINE s == [p |-> q, final |-> None]
             u == [p |-> q, final |-> c]
  <1>1. s.p = q /\ u.p = q /\ u.final = c /\ u = [p |-> u.p, final |-> u.final]
    OBVIOUS
  <1>2. Scanned(s, k)
    OBVIOUS
  <1> HIDE DEF s, u
  <1>3. CASE u.final = None
    <2>1. u.final \in Index \union {None}
      BY <1>3
    <2>2. s.final = None /\ s = u
      BY <1>1, <1>3 DEF s, u
    <2> QED BY <1>2, <2>2 DEF u
  <1>4. CASE u.final # None
    <2>1. Scanned(u, k)
      BY <1>1, <1>2, <1>4 DEF Scanned
    <2> QED BY <2>1 DEF u
  <1> QED BY <1>3, <1>4

(* One turn of the loop of _scan_dense. *)
LEMMA ScanTurnStep ==
  ASSUME CostOK, Scanning, NEW k \in path.hi .. n - 1, NEW t, Scanned(t, k - 1)
  PROVE  Scanned(ScanTurn(t, k), k)
  <1> DEFINE c == t.p.cols[k]
             q == Rerouted(t.p, c)
  <1>1. /\ path.hi \in Nat /\ k \in Int /\ k \in Index /\ path.hi <= k /\ (k - 1) + 1 = k /\ t.p.hi \in Nat /\ t.p.hi <= k
        /\ t.p.cols \in [Index -> Index] /\ t.p.d \in [Index -> Int]
    BY ScanPositions
  <1>2. c \in Index /\ t.p.d[c] \in Int /\ Through(c) \in Int
    <2>1. c \in Index
      BY <1>1
    <2> HIDE DEF c
    <2> QED BY <1>1, <2>1, ThroughIs
  <1>3. t = [p |-> t.p, final |-> t.final]
    BY DEF Scanned
  <1>4. ScanTurn(t, k) =
           IF t.final # None \/ Through(c) >= t.p.d[c] THEN t
           ELSE IF Through(c) # Mind THEN [p |-> q, final |-> t.final]
           ELSE IF y[c] < 0 THEN [p |-> q, final |-> c]
           ELSE [p |-> Promoted(q, k), final |-> t.final]
    BY <1>3, ScanTurnIs
  <1>5. CASE t.final # None \/ Through(c) >= t.p.d[c]
    <2>1. t.p.hi <= k + 1
      BY <1>1
    <2>2. t.final = None => \A m \in path.hi .. k : t.p.d[t.p.cols[m]] <= Through(t.p.cols[m])
      <3> SUFFICES ASSUME t.final = None, NEW m \in path.hi .. k
                   PROVE  t.p.d[t.p.cols[m]] <= Through(t.p.cols[m])
        OBVIOUS
      <3>1. m = k \/ m \in path.hi .. k - 1
        BY <1>1
      <3>2. CASE m = k
        BY <1>2, <1>5, <3>2
      <3>3. CASE m \in path.hi .. k - 1
        BY <3>3 DEF Scanned
      <3> QED BY <3>1, <3>2, <3>3
    <2>3. Scanned(t, k)
      BY <2>1, <2>2 DEF Scanned
    <2> QED BY <1>4, <1>5, <2>3
  <1>6. CASE ~(t.final # None \/ Through(c) >= t.p.d[c])
    <2>1. t.final = None /\ Through(c) < t.p.d[c]
      <3> HIDE DEF c
      <3> QED BY <1>2, <1>6
    <2>2. Scanned([p |-> q, final |-> None], k) /\ q.cols[k] = c /\ q.d[c] = Through(c) /\ q.hi <= k
      <3> HIDE DEF q
      <3>1. ASSUME NEW e, e = t.p.cols[k], NEW f, f = Rerouted(t.p, e), Through(e) < t.p.d[e]
            PROVE  Scanned([p |-> f, final |-> None], k) /\ f.cols[k] = e /\ f.d[e] = Through(e) /\ f.hi <= k
        BY <2>1, <3>1, RerouteStep
      <3> HIDE DEF c
      <3>2. c = t.p.cols[k] /\ q = Rerouted(t.p, c)
        BY DEF c, q
      <3> QED BY <2>1, <3>1, <3>2
    <2> HIDE DEF q, c
    <2>3. CASE Through(c) # Mind
      BY <1>4, <1>6, <2>1, <2>2, <2>3
    <2>4. CASE Through(c) = Mind /\ y[c] < 0
      <3>1. y[c] = None
        <4>1. y[c] \in Index \union {None}
          BY <1>2 DEF Scanning, Seeking, MatchType
        <4> QED BY <2>4, <4>1, NoneOut
      <3>2. Scanned([p |-> q, final |-> c], k)
        BY <1>2, <2>2, <2>4, <3>1, EndStep
      <3> QED BY <1>4, <1>6, <2>4, <3>2
    <2>5. CASE Through(c) = Mind /\ ~(y[c] < 0)
      <3>1. y[c] # None
        BY <2>5 DEF None
      <3>2. Scanned([p |-> Promoted(q, k), final |-> None], k)
        <4>1. q.d[c] = Mind /\ c = q.cols[k]
          BY <2>2, <2>5
        <4> QED BY <2>2, <3>1, <4>1, PromoteStep
      <3> QED BY <1>4, <1>6, <2>1, <2>5, <3>2
    <2> QED BY <2>3, <2>4, <2>5
  <1> QED BY <1>5, <1>6

(* The loop starts with the scanned column taken off the batch. *)
LEMMA ScanStart ==
  ASSUME CostOK, Scanning, NEW q, q = [path EXCEPT !.lo = @ + 1]
  PROVE  /\ Scanned([p |-> q, final |-> None], path.hi - 1)
         /\ path.hi \in Nat /\ path.hi <= n
  <1>1. path \in PathSet /\ Perm(path.cols) /\ path.hi <= n /\ path.lo \in Nat /\ path.hi \in Nat /\ n \in Int /\ path.lo < path.hi
        /\ path.d \in [Index -> Int] /\ path.cols \in [Index -> Index]
    BY DEF Scanning, Search, PathOK, PathSet, CostOK
  <1>2. q = [cols |-> path.cols, d |-> path.d, pred |-> path.pred, lo |-> path.lo + 1, hi |-> path.hi, n_ready |-> path.n_ready]
    <2>1. path = [cols |-> path.cols, d |-> path.d, pred |-> path.pred, lo |-> path.lo, hi |-> path.hi, n_ready |-> path.n_ready]
      BY <1>1 DEF PathSet
    <2> QED BY <2>1
  <1>3. q.cols = path.cols /\ q.d = path.d /\ q.pred = path.pred /\ q.lo = path.lo + 1 /\ q.hi = path.hi /\ q.n_ready = path.n_ready
    BY <1>2
  <1>4. q \in PathSet
    <2>1. path.lo + 1 \in Nat
      BY <1>1
    <2> QED BY <1>1, <1>2, <2>1 DEF PathSet
  <1>5. SameHead(path.cols, q.cols, path.hi)
    BY <1>1, <1>3 DEF SameHead
  <1>6. \A m \in path.hi .. n - 1 : Mind <= q.d[q.cols[m]]
    <2>1. ASSUME NEW m \in path.hi .. n - 1 PROVE Mind <= q.d[q.cols[m]]
      <3>1. path.lo \in 0 .. path.hi - 1 /\ m \in 0 .. n - 1 /\ path.lo <= m
        BY <1>1
      <3> QED BY <1>3, <3>1 DEF Scanning, Search, Sorted, Mind, ScanCol
    <2> QED BY <2>1
  <1>7. \A m \in path.hi .. path.hi - 1 : FALSE
    BY <1>1
  <1>8. path.hi <= path.hi /\ path.hi <= (path.hi - 1) + 1 /\ \A c \in Index : path.d[c] <= path.d[c]
    BY <1>1
  <1> DEFINE u == [p |-> q, final |-> None]
  <1>9. u.p = q /\ u.final = None /\ u = [p |-> u.p, final |-> u.final]
    OBVIOUS
  <1> HIDE DEF u
  <1>10. Scanned(u, path.hi - 1)
    BY <1>3, <1>4, <1>5, <1>6, <1>7, <1>8, <1>9 DEF Scanned
  <1> QED BY <1>1, <1>10 DEF u

(* What _scan_dense returns. *)
LEMMA ScanDenseScanned ==
  ASSUME CostOK, Scanning
  PROVE  Scanned(ScanDense, n - 1)
  <1> DEFINE a == path.hi - 1
             b == n - 1
             s0 == [p |-> [path EXCEPT !.lo = @ + 1], final |-> None]
             S == [p : PathSet, final : Index \union {None}]
             Run(f) == f = [k \in path.hi - 1 .. n - 1 |->
                              IF k = path.hi - 1
                              THEN [p |-> [path EXCEPT !.lo = @ + 1], final |-> None]
                              ELSE ScanTurn(f[k - 1], k)]
             turn == CHOOSE f : Run(f)
  <1>0. Scanned(s0, a) /\ path.hi \in Nat /\ path.hi <= n
    BY ScanStart
  <1>1. a \in Int /\ b \in Int /\ a <= b /\ n \in Int /\ a + 1 = path.hi
    <2>1. n \in Int
      BY DEF CostOK
    <2> QED BY <1>0, <2>1
  <1>2. \A t, k : Scanned(t, k) => t \in S
    BY DEF Scanned
  <1>3. ASSUME NEW k \in a + 1 .. b, NEW t, Scanned(t, k - 1)
        PROVE  ScanTurn(t, k) \in S /\ Scanned(ScanTurn(t, k), k)
    <2>1. k \in path.hi .. n - 1
      BY <1>1
    <2>2. Scanned(ScanTurn(t, k), k)
      BY <1>3, <2>1, ScanTurnStep
    <2> HIDE DEF S
    <2> QED BY <1>2, <2>2
  <1>30. s0 \in S
    <2> HIDE DEF S, s0
    <2> QED BY <1>0, <1>2
  <1> HIDE DEF S, s0
  <1>4. \E f : Run(f)
    <2> DEFINE g == [p \in (a + 1 .. b) \X S |-> IF Scanned(p[2], p[1] - 1) THEN ScanTurn(p[2], p[1]) ELSE p[2]]
    <2>1. g \in [(a + 1 .. b) \X S -> S]
      <3>1. ASSUME NEW p \in (a + 1 .. b) \X S
            PROVE  (IF Scanned(p[2], p[1] - 1) THEN ScanTurn(p[2], p[1]) ELSE p[2]) \in S
        <4>1. p[1] \in a + 1 .. b /\ p[2] \in S
          OBVIOUS
        <4> HIDE DEF a, b
        <4> QED BY <1>3, <4>1
      <3> QED BY <3>1
    <2>2. Loop(a, b, S, s0, g)
      BY <1>1, <1>30, <2>1 DEF Loop
    <2>3. PICK f \in [a .. b -> S] : f = [k \in a .. b |-> IF k = a THEN s0 ELSE g[<<k, f[k - 1]>>]]
      <3> HIDE DEF g, a, b
      <3> QED BY <2>2, RecursionExists
    <2>4. f[a] = s0 /\ \A k \in a + 1 .. b : f[k] = g[<<k, f[k - 1]>>] /\ f[k - 1] \in S /\ k \in a .. b
      <3>1. a \in a .. b /\ \A k \in a + 1 .. b : k \in a .. b /\ k - 1 \in a .. b /\ k # a
        BY <1>1
      <3> HIDE DEF g, a, b
      <3> QED BY <2>3, <3>1
    <2> DEFINE G == {k \in a .. b : Scanned(f[k], k)}
    <2>41. ASSUME NEW k \in a + 1 .. b, Scanned(f[k - 1], k - 1) PROVE f[k] = ScanTurn(f[k - 1], k)
      <3>1. <<k, f[k - 1]>> \in (a + 1 .. b) \X S
        BY <2>4
      <3> DEFINE e == <<k, f[k - 1]>>
      <3>2. e[1] = k /\ e[2] = f[k - 1] /\ e \in (a + 1 .. b) \X S
        BY <3>1
      <3> HIDE DEF e, a, b
      <3>3. g[e] = IF Scanned(e[2], e[1] - 1) THEN ScanTurn(e[2], e[1]) ELSE e[2]
        BY <3>2
      <3>4. g[e] = ScanTurn(f[k - 1], k)
        BY <2>41, <3>2, <3>3
      <3> HIDE DEF g
      <3> QED BY <2>4, <3>4 DEF e
    <2> HIDE DEF g
    <2>5. \A k \in a .. b : k \in G
      <3>1. a \in G
        BY <1>0, <1>1, <2>4
      <3>2. ASSUME NEW k \in a + 1 .. b, k - 1 \in G PROVE k \in G
        <4>1. Scanned(f[k - 1], k - 1) /\ k \in a .. b
          BY <2>4, <3>2
        <4>2. f[k] = ScanTurn(f[k - 1], k)
          BY <2>41, <4>1
        <4> QED BY <1>3, <4>1, <4>2
      <3>3. Inductive(a, b, G)
        <4> HIDE DEF G
        <4> QED BY <1>1, <3>1, <3>2 DEF Inductive
      <3> HIDE DEF G, a, b
      <3> QED BY <3>3, IntervalInduction
    <2>6. \A k \in a + 1 .. b : f[k] = ScanTurn(f[k - 1], k)
      <3>1. ASSUME NEW k \in a + 1 .. b PROVE f[k] = ScanTurn(f[k - 1], k)
        <4>1. k - 1 \in a .. b
          BY <1>1
        <4>2. Scanned(f[k - 1], k - 1)
          BY <2>5, <4>1
        <4> QED BY <2>41, <4>2
      <3> QED BY <3>1
    <2>7. ASSUME NEW k \in path.hi - 1 .. n - 1
          PROVE  f[k] = IF k = path.hi - 1
                        THEN [p |-> [path EXCEPT !.lo = @ + 1], final |-> None]
                        ELSE ScanTurn(f[k - 1], k)
      <3>1. CASE k = path.hi - 1
        <4>1. f[k] = s0
          BY <2>4, <3>1
        <4>2. f[k] = [p |-> [path EXCEPT !.lo = @ + 1], final |-> None]
          BY <4>1, Zenon DEF s0
        <4> QED BY <3>1, <4>2, Zenon
      <3>2. CASE k # path.hi - 1
        <4>1. k \in a + 1 .. b
          BY <1>1, <3>2
        <4>2. f[k] = ScanTurn(f[k - 1], k)
          BY <2>6, <4>1
        <4> QED BY <3>2, <4>2, Zenon
      <3> QED BY <3>1, <3>2, Zenon
    <2>8. f = [k \in path.hi - 1 .. n - 1 |-> f[k]]
      OBVIOUS
    <2>9. Run(f)
      BY <2>7, <2>8, Zenon
    <2> HIDE DEF Run
    <2> QED BY <2>9
  <1>5. Run(turn)
    <2> HIDE DEF Run
    <2> QED BY <1>4
  <1>6. ScanDense = turn[n - 1]
    BY DEF ScanDense
  <1> HIDE DEF turn
  <1>7. turn[a] = s0 /\ \A k \in a + 1 .. b : turn[k] = ScanTurn(turn[k - 1], k)
    <2>1. a \in a .. b /\ \A k \in a + 1 .. b : k \in a .. b /\ k # a
      BY <1>1
    <2>2. \A k \in a .. b : turn[k] = IF k = a THEN [p |-> [path EXCEPT !.lo = @ + 1], final |-> None]
                                      ELSE ScanTurn(turn[k - 1], k)
      BY <1>5, Zenon
    <2> HIDE DEF a, b
    <2>3. turn[a] = s0
      BY <2>1, <2>2, Zenon DEF s0
    <2>4. \A k \in a + 1 .. b : turn[k] = ScanTurn(turn[k - 1], k)
      BY <2>1, <2>2, Zenon
    <2> QED BY <2>3, <2>4
  <1> DEFINE G == {k \in a .. b : Scanned(turn[k], k)}
  <1>8. \A k \in a .. b : k \in G
    <2>1. a \in G
      BY <1>0, <1>1, <1>7
    <2>2. ASSUME NEW k \in a + 1 .. b, k - 1 \in G PROVE k \in G
      <3>1. k \in a .. b
        BY <1>1
      <3>2. Scanned(turn[k - 1], k - 1)
        BY <2>2
      <3> QED BY <1>3, <1>7, <3>1, <3>2
    <2>3. Inductive(a, b, G)
      <3> HIDE DEF G
      <3> QED BY <1>1, <2>1, <2>2 DEF Inductive
    <2> HIDE DEF G, a, b
    <2> QED BY <2>3, IntervalInduction
  <1>9. b \in a .. b
    BY <1>1
  <1> QED BY <1>6, <1>8, <1>9

(* The positions of a search. *)
LEMMA PathNumbers ==
  ASSUME CostOK, NEW q, PathOK(q)
  PROVE  /\ q.lo \in Nat /\ q.hi \in Nat /\ q.n_ready \in Nat /\ n \in Int /\ q.n_ready <= q.lo /\ q.lo <= q.hi /\ q.hi <= n
         /\ q.cols \in [Index -> Index] /\ q.d \in [Index -> Int] /\ q.pred \in [Index -> Index] /\ Perm(q.cols)
         /\ Index = 0 .. n - 1
  <1>1. Index = 0 .. n - 1
    BY DEF Index
  <1>2. q \in PathSet /\ Perm(q.cols) /\ n \in Int /\ q.n_ready <= q.lo /\ q.lo <= q.hi /\ q.hi <= n
    BY DEF PathOK, CostOK
  <1>3. /\ q.lo \in Nat /\ q.hi \in Nat /\ q.n_ready \in Nat
        /\ q.cols \in [Index -> Index] /\ q.d \in [Index -> Int] /\ q.pred \in [Index -> Index]
    BY <1>2 DEF PathSet
  <1> QED BY <1>1, <1>2, <1>3

(* The loop has not touched the columns found before it. *)
LEMMA ScanHead ==
  ASSUME CostOK, Scanning, path.n_ready < path.hi, NEW t, Scanned(t, n - 1), NEW q, q = t.p
  PROVE  /\ PathOK(q) /\ q.lo = path.lo + 1 /\ q.n_ready = path.n_ready /\ path.hi <= q.hi /\ q.lo <= path.hi
         /\ \A m \in 0 .. path.hi - 1 : /\ m \in Index /\ q.cols[m] = path.cols[m]
                                        /\ q.d[q.cols[m]] = path.d[path.cols[m]]
                                        /\ q.pred[q.cols[m]] = path.pred[path.cols[m]]
                                        /\ path.d[path.cols[m]] <= Mind
                                        /\ y[path.cols[m]] # None
                                        /\ Base(q, y[path.cols[m]]) = Base(path, y[path.cols[m]])
         /\ \A m \in path.n_ready .. path.hi - 1 : path.d[path.cols[m]] = Mind
         /\ Base(q, FreeRow) = Base(path, FreeRow)
  <1>0. /\ path.lo \in Nat /\ path.hi \in Nat /\ path.n_ready \in Nat /\ n \in Int
        /\ path.n_ready <= path.lo /\ path.lo < path.hi /\ path.hi <= n
    <2>1. PathOK(path) /\ path.lo < path.hi
      BY DEF Scanning, Search
    <2> QED BY <2>1, PathNumbers
  <1>1. /\ path.cols \in [Index -> Index] /\ path.d \in [Index -> Int] /\ Index = 0 .. n - 1
    BY PathNumbers DEF Scanning, Search
  <1>2. /\ q \in PathSet /\ q.lo = path.lo + 1 /\ q.n_ready = path.n_ready /\ path.hi <= q.hi /\ q.hi <= (n - 1) + 1
        /\ Perm(q.cols)
        /\ \A m \in 0 .. path.hi - 1 : q.cols[m] = path.cols[m]
        /\ \A m \in 0 .. path.hi - 1 : q.d[path.cols[m]] = path.d[path.cols[m]] /\ q.pred[path.cols[m]] = path.pred[path.cols[m]]
    BY DEF Scanned, SameHead
  <1>3. PathOK(q) /\ q.lo <= path.hi
    <2>1. q.hi \in Nat /\ (n - 1) + 1 = n
      BY <1>0, <1>1, <1>2 DEF PathSet
    <2>2. q.hi <= n
      BY <1>2, <2>1
    <2>3. q.n_ready <= q.lo /\ q.lo <= path.hi
      BY <1>0, <1>1, <1>2
    <2>4. q.lo <= q.hi
      BY <1>0, <1>1, <1>2, <2>1, <2>3
    <2> QED BY <1>2, <2>2, <2>3, <2>4 DEF PathOK
  <1>4. ASSUME NEW m \in path.n_ready .. path.hi - 1 PROVE path.d[path.cols[m]] = Mind
    <2>1. path.lo \in path.n_ready .. path.hi - 1
      BY <1>0
    <2> QED BY <2>1 DEF Scanning, Search, Batch, Mind, ScanCol
  <1>5. ASSUME NEW m \in 0 .. path.hi - 1 PROVE m \in Index /\ path.d[path.cols[m]] <= Mind
    <2>0. m \in Index /\ m \in Int
      BY <1>0, <1>1
    <2>1. CASE m <= path.lo
      <3>1. m \in 0 .. path.hi - 1 /\ path.lo \in 0 .. n - 1
        BY <1>0, <1>1
      <3> QED BY <2>0, <2>1, <3>1 DEF Scanning, Search, Sorted, Mind, ScanCol
    <2>2. CASE ~(m <= path.lo)
      <3>1. m \in path.n_ready .. path.hi - 1
        BY <1>0, <2>0, <2>2
      <3>2. path.d[path.cols[m]] \in Int
        BY <1>0, <1>1, <2>0
      <3> QED BY <1>4, <2>0, <3>1, <3>2
    <2> QED BY <2>1, <2>2
  <1>6. ASSUME NEW m \in 0 .. path.hi - 1
        PROVE  y[path.cols[m]] # None /\ Base(q, y[path.cols[m]]) = Base(path, y[path.cols[m]])
    <2>1. path.cols[m] \in Index
      BY <1>0, <1>1, <1>5
    <2>2. y[path.cols[m]] # None
      BY DEF Scanning, Search, AllMatched
    <2>3. x[y[path.cols[m]]] = path.cols[m]
      BY <2>1, <2>2 DEF Scanning, Seeking, MatchedOn
    <2>4. q.d[x[y[path.cols[m]]]] = path.d[x[y[path.cols[m]]]]
      BY <1>2, <2>3
    <2> QED BY <2>2, <2>4 DEF Base
  <1>7. Base(q, FreeRow) = Base(path, FreeRow)
    BY DEF Base
  <1> QED BY <1>2, <1>3, <1>4, <1>5, <1>6, <1>7

(* Distances, predecessors and batch after the loop. *)
LEMMA ScanKeeps ==
  ASSUME CostOK, Scanning, path.n_ready < path.hi, NEW t, Scanned(t, n - 1), NEW q, q = t.p
  PROVE  /\ AllMatched(q, q.hi) /\ Sorted(q, q.hi) /\ Batch(q) /\ Edges(q) /\ Tree(q, n - 1)
         /\ Relaxed(q, q.n_ready) /\ (t.final = None => Relaxed(q, q.lo))
  <1>0. /\ path.lo \in Nat /\ path.hi \in Nat /\ path.n_ready \in Nat /\ n \in Int
        /\ path.n_ready <= path.lo /\ path.lo < path.hi /\ path.hi <= n
    <2>1. PathOK(path) /\ path.lo < path.hi
      BY DEF Scanning, Search
    <2> QED BY <2>1, PathNumbers
  <1>1. /\ path.cols \in [Index -> Index] /\ path.d \in [Index -> Int] /\ Perm(path.cols) /\ Index = 0 .. n - 1
    BY PathNumbers DEF Scanning, Search
  <1>2. /\ PathOK(q) /\ q.lo = path.lo + 1 /\ q.n_ready = path.n_ready /\ path.hi <= q.hi /\ q.lo <= path.hi
        /\ \A m \in 0 .. path.hi - 1 : /\ m \in Index /\ q.cols[m] = path.cols[m]
                                       /\ q.d[q.cols[m]] = path.d[path.cols[m]]
                                       /\ q.pred[q.cols[m]] = path.pred[path.cols[m]]
                                       /\ path.d[path.cols[m]] <= Mind
                                       /\ y[path.cols[m]] # None
                                       /\ Base(q, y[path.cols[m]]) = Base(path, y[path.cols[m]])
        /\ \A m \in path.n_ready .. path.hi - 1 : path.d[path.cols[m]] = Mind
        /\ Base(q, FreeRow) = Base(path, FreeRow)
    BY ScanHead
  <1>3. /\ q.hi \in Nat /\ q.hi <= n /\ q.cols \in [Index -> Index] /\ q.d \in [Index -> Int] /\ Perm(q.cols)
    BY <1>2 DEF PathOK, PathSet
  <1>33. q.lo = path.lo + 1 /\ q.n_ready = path.n_ready /\ path.hi <= q.hi /\ q.lo <= path.hi /\ q.hi \in Nat /\ q.hi <= n
    BY <1>2, <1>3
  <1>4. /\ \A e \in Index : q.d[e] <= path.d[e]
        /\ \A e \in Index : \/ q.d[e] = path.d[e] /\ q.pred[e] = path.pred[e]
                            \/ q.d[e] = Through(e) /\ q.pred[e] = ScanRow
        /\ \A m \in path.hi .. n - 1 : Mind <= q.d[q.cols[m]]
        /\ \A m \in path.hi .. q.hi - 1 : q.d[q.cols[m]] = Mind /\ y[q.cols[m]] # None
        /\ t.final = None => \A m \in path.hi .. n - 1 : q.d[q.cols[m]] <= Through(q.cols[m])
    BY DEF Scanned
  <1>5. /\ ScanRow \in Index /\ Mind \in Int /\ \A e \in Index : Through(e) \in Int /\ Mind <= Through(e)
        /\ \A e \in Index : Through(e) = Reduced(ScanRow, v)[e] - Base(path, ScanRow)
    BY ThroughIs
  <1>6. path.lo \in 0 .. path.hi - 1 /\ ScanRow = y[path.cols[path.lo]]
    BY <1>0, <1>1 DEF ScanRow, ScanCol
  <1>7. AllMatched(q, q.hi)
    <2>1. ASSUME NEW m \in 0 .. q.hi - 1 PROVE y[q.cols[m]] # None
      <3>1. m \in 0 .. path.hi - 1 \/ m \in path.hi .. q.hi - 1
        BY <1>0, <1>33
      <3> QED BY <1>2, <1>4, <3>1
    <2> QED BY <2>1 DEF AllMatched
  <1>8. Sorted(q, q.hi)
    <2> SUFFICES ASSUME NEW a \in 0 .. q.hi - 1, NEW b \in 0 .. n - 1, a <= b
                 PROVE  q.d[q.cols[a]] <= q.d[q.cols[b]]
      BY DEF Sorted
    <2>0. a \in Int /\ b \in Int /\ a \in Index /\ b \in Index
      BY <1>0, <1>1, <1>3
    <2>1. CASE b < path.hi
      <3>1. a \in 0 .. path.hi - 1 /\ b \in 0 .. path.hi - 1
        BY <1>0, <2>0, <2>1
      <3>2. path.d[path.cols[a]] <= path.d[path.cols[b]]
        BY <3>1 DEF Scanning, Search, Sorted
      <3> QED BY <1>2, <3>1, <3>2
    <2>2. CASE ~(b < path.hi)
      <3>1. b \in path.hi .. n - 1
        BY <1>0, <1>1, <2>0, <2>2
      <3>2. q.d[q.cols[a]] <= Mind
        <4>1. CASE a \in 0 .. path.hi - 1
          BY <1>2, <4>1
        <4>2. CASE a \in path.hi .. q.hi - 1
          BY <1>4, <1>5, <4>2
        <4>3. a \in 0 .. path.hi - 1 \/ a \in path.hi .. q.hi - 1
          BY <1>0, <1>33, <2>0
        <4> QED BY <4>1, <4>2, <4>3
      <3>3. Mind <= q.d[q.cols[b]] /\ q.d[q.cols[a]] \in Int /\ q.d[q.cols[b]] \in Int
        BY <1>3, <1>4, <2>0, <3>1
      <3> QED BY <1>5, <3>2, <3>3
    <2> QED BY <2>1, <2>2
  <1>9. Batch(q)
    <2>1. ASSUME NEW a \in q.n_ready .. q.hi - 1 PROVE q.d[q.cols[a]] = Mind
      <3>1. CASE a \in path.n_ready .. path.hi - 1
        <4>1. a \in 0 .. path.hi - 1
          BY <1>0, <1>1, <3>1
        <4> QED BY <1>2, <3>1, <4>1
      <3>2. CASE a \in path.hi .. q.hi - 1
        BY <1>4, <3>2
      <3> QED BY <1>0, <1>1, <1>2, <1>3, <3>1, <3>2
    <2>2. q.n_ready \in q.n_ready .. q.hi - 1
      BY <1>0, <1>33
    <2> QED BY <2>1, <2>2 DEF Batch
  <1>10. ASSUME NEW k \in Index
         PROVE  \/ path.pred[path.cols[k]] = FreeRow
                \/ \E m \in 0 .. path.lo - 1 : m < k /\ y[path.cols[m]] = path.pred[path.cols[k]]
    BY <1>0, <1>1 DEF Scanning, Search, Tree
  <1>11. \A m \in 0 .. path.lo - 1 : m \in 0 .. path.hi - 1 /\ m \in 0 .. q.lo - 1 /\ m \in Int /\ m < path.hi
    BY <1>0, <1>33
  <1>12. Edges(q)
    <2> SUFFICES ASSUME NEW e \in Index PROVE q.d[e] = Reduced(q.pred[e], v)[e] - Base(q, q.pred[e])
      BY DEF Edges
    <2>1. CASE q.d[e] = path.d[e] /\ q.pred[e] = path.pred[e]
      <3>1. PICK k \in Index : path.cols[k] = e
        BY <1>0, <1>1 DEF Perm
      <3>2. Base(q, path.pred[e]) = Base(path, path.pred[e])
        BY <1>2, <1>10, <1>11, <3>1
      <3>3. path.d[e] = Reduced(path.pred[e], v)[e] - Base(path, path.pred[e])
        BY DEF Scanning, Search, Edges
      <3> QED BY <2>1, <3>2, <3>3
    <2>2. CASE q.d[e] = Through(e) /\ q.pred[e] = ScanRow
      <3>1. Base(q, ScanRow) = Base(path, ScanRow)
        BY <1>2, <1>6
      <3>2. Through(e) = Reduced(ScanRow, v)[e] - Base(path, ScanRow)
        BY <1>5
      <3> QED BY <2>2, <3>1, <3>2
    <2> QED BY <1>4, <2>1, <2>2
  <1>13. Tree(q, n - 1)
    <2> SUFFICES ASSUME NEW k \in 0 .. n - 1, q.pred[q.cols[k]] # FreeRow
                 PROVE  \E m \in 0 .. q.lo - 1 : m < k /\ y[q.cols[m]] = q.pred[q.cols[k]]
      BY DEF Tree
    <2>0. k \in Index /\ k \in Int /\ q.cols[k] \in Index
      <3>1. k \in Index /\ k \in Int
        BY <1>0, <1>1
      <3> QED BY <1>3, <3>1
    <2>1. CASE k \in 0 .. path.hi - 1
      <3>1. PICK m \in 0 .. path.lo - 1 : m < k /\ y[path.cols[m]] = path.pred[path.cols[k]]
        BY <1>2, <1>10, <2>0, <2>1
      <3> QED BY <1>2, <1>11, <2>1, <3>1
    <2>2. CASE k \notin 0 .. path.hi - 1
      <3>1. path.hi <= k
        BY <1>0, <1>1, <2>0, <2>2
      <3>2. CASE q.pred[q.cols[k]] = path.pred[q.cols[k]]
        <4>1. PICK l \in Index : path.cols[l] = q.cols[k]
          BY <1>0, <1>1, <2>0 DEF Perm
        <4>2. PICK m \in 0 .. path.lo - 1 : y[path.cols[m]] = path.pred[path.cols[l]]
          BY <1>10, <3>2, <4>1
        <4>3. m < k
          BY <1>0, <2>0, <3>1
        <4> QED BY <1>2, <1>11, <3>2, <4>1, <4>2, <4>3
      <3>3. CASE q.pred[q.cols[k]] = ScanRow
        <4>1. path.lo \in 0 .. q.lo - 1 /\ path.lo < k
          BY <1>0, <1>33, <2>0, <3>1
        <4> QED BY <1>2, <1>6, <3>3, <4>1
      <3> QED BY <1>4, <2>0, <3>2, <3>3
    <2> QED BY <2>1, <2>2
  <1>14. ASSUME NEW e \in Index
         PROVE  /\ q.d[e] <= Reduced(FreeRow, v)[e]
                /\ \A m \in 0 .. path.lo - 1 : q.d[e] <= Reduced(y[q.cols[m]], v)[e] - Base(q, y[q.cols[m]])
    <2>1. /\ path.d[e] <= Reduced(FreeRow, v)[e]
          /\ \A m \in 0 .. path.lo - 1 : path.d[e] <= Reduced(y[path.cols[m]], v)[e] - Base(path, y[path.cols[m]])
      BY DEF Scanning, Search, Relaxed
    <2>2. /\ q.d[e] \in Int /\ path.d[e] \in Int /\ q.d[e] <= path.d[e] /\ v \in [Index -> Int]
          /\ FreeRow \in Index /\ y \in [Index -> Index \union {None}] /\ x \in [Index -> Index \union {None}]
      BY <1>0, <1>1, <1>3, <1>4, FreeRowFree DEF Scanning, Seeking, MatchType
    <2>3. \A i \in Index : Reduced(i, v) \in [Index -> Int]
      BY <2>2, ReducedType
    <2>4. Reduced(FreeRow, v)[e] \in Int
      BY <2>2, <2>3
    <2>5. q.d[e] <= Reduced(FreeRow, v)[e]
      BY <2>1, <2>2, <2>4
    <2>6. ASSUME NEW m \in 0 .. path.lo - 1
          PROVE  q.d[e] <= Reduced(y[q.cols[m]], v)[e] - Base(q, y[q.cols[m]])
      <3>1. m \in 0 .. path.hi - 1 /\ path.cols[m] \in Index
        BY <1>0, <1>1, <1>2, <1>11
      <3>2. y[path.cols[m]] # None
        BY <1>2, <3>1
      <3>3. y[path.cols[m]] \in Index /\ x[y[path.cols[m]]] = path.cols[m]
        BY <2>2, <3>1, <3>2 DEF Scanning, Seeking, MatchedOn
      <3> DEFINE i == y[path.cols[m]]
      <3>4. Reduced(i, v)[e] \in Int /\ Base(path, i) \in Int
        <4>1. Reduced(i, v)[x[i]] \in Int /\ path.d[x[i]] \in Int /\ Reduced(i, v)[e] \in Int
          BY <1>0, <1>1, <2>3, <3>1, <3>3
        <4> HIDE DEF i
        <4> QED BY <4>1 DEF Base
      <3>5. path.d[e] <= Reduced(i, v)[e] - Base(path, i)
        BY <2>1
      <3>6. y[q.cols[m]] = i /\ Base(q, i) = Base(path, i)
        BY <1>2, <3>1
      <3> HIDE DEF i
      <3> QED BY <2>2, <3>4, <3>5, <3>6
    <2> QED BY <2>5, <2>6
  <1>15. Relaxed(q, q.n_ready)
    <2>1. \A m \in 0 .. q.n_ready - 1 : m \in 0 .. path.lo - 1
      BY <1>0, <1>1, <1>2
    <2> QED BY <1>14, <2>1 DEF Relaxed
  <1>16. ASSUME t.final = None PROVE Relaxed(q, q.lo)
    <2>1. ASSUME NEW e \in Index PROVE q.d[e] <= Reduced(y[q.cols[path.lo]], v)[e] - Base(q, y[q.cols[path.lo]])
      <3>1. PICK k \in Index : q.cols[k] = e
        BY <1>3 DEF Perm
      <3>2. q.d[e] <= Through(e)
        <4>1. CASE k \in path.hi .. n - 1
          BY <1>4, <1>16, <3>1, <4>1
        <4>2. CASE k \in 0 .. path.hi - 1
          <5>1. q.d[e] <= Mind
            BY <1>2, <3>1, <4>2
          <5>2. q.d[e] \in Int
            BY <1>3
          <5> QED BY <1>5, <5>1, <5>2
        <4> QED BY <1>0, <1>1, <4>1, <4>2
      <3>3. y[q.cols[path.lo]] = ScanRow /\ Base(q, ScanRow) = Base(path, ScanRow)
        BY <1>2, <1>6
      <3> QED BY <1>5, <3>2, <3>3
    <2>2. \A m \in 0 .. q.lo - 1 : m \in 0 .. path.lo - 1 \/ m = path.lo
      BY <1>0, <1>1, <1>2
    <2> QED BY <1>14, <2>1, <2>2 DEF Relaxed
  <1> QED BY <1>7, <1>8, <1>9, <1>12, <1>13, <1>15, <1>16

(* Scan either goes on with the search or has reached the end of the path. *)
LEMMA ScanStep ==
  ASSUME CostOK, Scanning, path.n_ready < path.hi, Scan
  PROVE  \/ pc' = "path" /\ Search(path') /\ path'.lo = path'.hi /\ j' = j
         \/ pc' = "scan" /\ Search(path') /\ path'.lo < path'.hi /\ path'.n_ready < path'.hi /\ j' = j
         \/ pc' = "prices" /\ Reached(path', j')
  <1> DEFINE t == ScanDense
             q == t.p
  <1>1. /\ path' = q
        /\ \/ t.final # None /\ pc' = "prices" /\ j' = t.final
           \/ t.final = None /\ j' = j /\ pc' = IF q.lo = q.hi THEN "path" ELSE "scan"
    BY DEF Scan
  <1>2. Scanned(t, n - 1)
    BY ScanDenseScanned
  <1> HIDE DEF t
  <1>3. /\ PathOK(q) /\ q.lo = path.lo + 1 /\ q.n_ready = path.n_ready /\ path.hi <= q.hi /\ q.lo <= path.hi
        /\ \A m \in 0 .. path.hi - 1 : /\ m \in Index /\ q.cols[m] = path.cols[m]
                                       /\ q.d[q.cols[m]] = path.d[path.cols[m]]
                                       /\ path.d[path.cols[m]] <= Mind
        /\ \A m \in path.n_ready .. path.hi - 1 : path.d[path.cols[m]] = Mind
    <2> HIDE DEF q
    <2>1. q = t.p
      BY DEF q
    <2> QED BY <1>2, <2>1, ScanHead
  <1>4. /\ AllMatched(q, q.hi) /\ Sorted(q, q.hi) /\ Batch(q) /\ Edges(q) /\ Tree(q, n - 1)
        /\ Relaxed(q, q.n_ready) /\ (t.final = None => Relaxed(q, q.lo))
    <2> HIDE DEF q
    <2>1. q = t.p
      BY DEF q
    <2> QED BY <1>2, <2>1, ScanKeeps
  <1>5. /\ q.lo \in Nat /\ q.hi \in Nat /\ q.n_ready \in Nat /\ q.n_ready < path.hi /\ path.hi \in Nat /\ path.hi <= n /\ n \in Int
        /\ q.lo <= q.hi /\ q.hi <= n /\ q.n_ready <= q.lo
        /\ q.d \in [Index -> Int] /\ q.cols \in [Index -> Index]
    BY <1>3 DEF PathOK, PathSet, CostOK, Scanning, Search
  <1>6. CASE t.final = None
    <2>1. Search(q)
      BY <1>3, <1>4, <1>6 DEF Search
    <2>2. CASE q.lo = q.hi
      BY <1>1, <1>6, <2>1, <2>2
    <2>3. CASE q.lo # q.hi
      <3>1. q.lo < q.hi /\ q.n_ready < q.hi
        BY <1>5, <2>3
      <3> QED BY <1>1, <1>6, <2>1, <2>3, <3>1
    <2> QED BY <2>2, <2>3
  <1>7. CASE t.final # None
    <2>0. t.final \in Index /\ y[t.final] = None /\ q.d[t.final] = Mind /\ \A m \in path.hi .. n - 1 : Mind <= q.d[q.cols[m]]
      BY <1>2, <1>7 DEF Scanned
    <2>1. q.n_ready \in path.n_ready .. path.hi - 1 /\ q.n_ready \in 0 .. path.hi - 1
      BY <1>3, <1>5
    <2>2. q.d[q.cols[q.n_ready]] = Mind
      BY <1>3, <2>1
    <2>3. AllMatched(q, q.n_ready)
      <3>1. \A m \in 0 .. q.n_ready - 1 : m \in 0 .. q.hi - 1
        BY <1>5
      <3> QED BY <1>4, <3>1 DEF AllMatched
    <2>4. \A a \in 0 .. q.lo - 1 : q.d[q.cols[a]] <= q.d[q.cols[q.n_ready]]
      <3>1. \A a \in 0 .. q.lo - 1 : a \in 0 .. path.hi - 1
        BY <1>3, <1>5
      <3> QED BY <1>3, <2>2, <3>1
    <2>5. \A a \in q.n_ready .. n - 1 : q.d[q.cols[q.n_ready]] <= q.d[q.cols[a]]
      <3>1. ASSUME NEW a \in q.n_ready .. n - 1 PROVE Mind <= q.d[q.cols[a]]
        <4>1. CASE a \in path.hi .. n - 1
          BY <2>0, <4>1
        <4>2. CASE a \notin path.hi .. n - 1
          <5>1. a \in path.n_ready .. path.hi - 1 /\ a \in 0 .. path.hi - 1
            BY <1>3, <1>5, <4>2
          <5>2. q.d[q.cols[a]] = Mind
            BY <1>3, <5>1
          <5>3. Mind \in Int
            BY ThroughIs
          <5> QED BY <5>2, <5>3
        <4> QED BY <4>1, <4>2
      <3> QED BY <2>2, <3>1
    <2>6. q.n_ready < n
      BY <1>5
    <2>7. Reached(q, t.final)
      BY <1>3, <1>4, <2>0, <2>2, <2>3, <2>4, <2>5, <2>6 DEF Reached
    <2> QED BY <1>1, <1>7, <2>7
  <1> QED BY <1>6, <1>7

(* The record of a path that starts. *)
LEMMA ThreeFields ==
  \A a, b, e : [NoPath EXCEPT !.cols = a, !.pred = b, !.d = e]
                 = [cols |-> a, d |-> e, pred |-> b, lo |-> 0, hi |-> 0, n_ready |-> 0]
  <1> SUFFICES ASSUME NEW a, NEW b, NEW e
               PROVE  [NoPath EXCEPT !.cols = a, !.pred = b, !.d = e]
                        = [cols |-> a, d |-> e, pred |-> b, lo |-> 0, hi |-> 0, n_ready |-> 0]
    OBVIOUS
  <1>1. ASSUME NEW p, p = [cols |-> p.cols, d |-> p.d, pred |-> p.pred, lo |-> p.lo, hi |-> p.hi, n_ready |-> p.n_ready],
               NEW s, s = [p EXCEPT !.cols = a, !.pred = b, !.d = e]
        PROVE  s = [cols |-> a, d |-> e, pred |-> b, lo |-> p.lo, hi |-> p.hi, n_ready |-> p.n_ready]
    BY <1>1
  <1>2. NoPath = [cols |-> NoPath.cols, d |-> NoPath.d, pred |-> NoPath.pred,
                  lo |-> NoPath.lo, hi |-> NoPath.hi, n_ready |-> NoPath.n_ready]
    BY DEF NoPath
  <1>3. NoPath.lo = 0 /\ NoPath.hi = 0 /\ NoPath.n_ready = 0
    BY DEF NoPath
  <1>4. [cols |-> a, d |-> e, pred |-> b, lo |-> NoPath.lo, hi |-> NoPath.hi, n_ready |-> NoPath.n_ready]
          = [cols |-> a, d |-> e, pred |-> b, lo |-> 0, hi |-> 0, n_ready |-> 0]
    BY <1>3
  <1>5. [NoPath EXCEPT !.cols = a, !.pred = b, !.d = e]
          = [cols |-> a, d |-> e, pred |-> b, lo |-> NoPath.lo, hi |-> NoPath.hi, n_ready |-> NoPath.n_ready]
    BY <1>1, <1>2, Zenon
  <1> QED BY <1>4, <1>5, Zenon

(* A search starts with the distances from the free row. *)
LEMMA StartStep ==
  ASSUME CostOK, Seeking, StartPath
  PROVE  pc' = "path" /\ Search(path') /\ path'.lo = path'.hi /\ j' = j
  <1> DEFINE q == [cols |-> [k \in Index |-> k], d |-> Reduced(FreeRow, v), pred |-> [k \in Index |-> FreeRow],
                   lo |-> 0, hi |-> 0, n_ready |-> 0]
  <1>1. path' = q /\ pc' = "path" /\ j' = j
    <2> DEFINE a == [k \in Index |-> k]
               b == [k \in Index |-> FreeRow]
               e == Reduced(FreeRow, v)
    <2>1. path' = [NoPath EXCEPT !.cols = a, !.pred = b, !.d = e] /\ pc' = "path" /\ j' = j
      BY DEF StartPath, FreeRow
    <2> HIDE DEF a, b, e
    <2>2. [NoPath EXCEPT !.cols = a, !.pred = b, !.d = e]
            = [cols |-> a, d |-> e, pred |-> b, lo |-> 0, hi |-> 0, n_ready |-> 0]
      BY ThreeFields
    <2> QED BY <2>1, <2>2 DEF a, b, e
  <1>2. /\ FreeRow \in Index /\ Reduced(FreeRow, v) \in [Index -> Int] /\ n \in Int /\ 0 <= n
    <2>1. FreeRow \in Index /\ v \in [Index -> Int]
      BY FreeRowFree DEF Seeking, MatchType
    <2>2. n \in Int /\ 0 <= n
      BY DEF CostOK
    <2> QED BY <2>1, <2>2, ReducedType
  <1>3. q \in PathSet
    <2>1. [k \in Index |-> k] \in [Index -> Index] /\ [k \in Index |-> FreeRow] \in [Index -> Index] /\ 0 \in Nat
      BY <1>2
    <2> QED BY <1>2, <2>1 DEF PathSet
  <1>4. /\ q.cols = [k \in Index |-> k] /\ q.d = Reduced(FreeRow, v) /\ q.lo = 0 /\ q.hi = 0 /\ q.n_ready = 0
        /\ \A c \in Index : q.cols[c] = c /\ q.pred[c] = FreeRow
    OBVIOUS
  <1> HIDE DEF q
  <1>5. Perm(q.cols)
    BY <1>4 DEF Perm
  <1>6. PathOK(q)
    BY <1>2, <1>3, <1>4, <1>5 DEF PathOK
  <1>7. \A m \in 0 .. 0 - 1 : FALSE
    OBVIOUS
  <1>8. AllMatched(q, q.hi) /\ Sorted(q, q.hi) /\ Batch(q)
    BY <1>4, <1>7 DEF AllMatched, Sorted, Batch
  <1>9. Edges(q)
    <2> SUFFICES ASSUME NEW c \in Index PROVE q.d[c] = Reduced(q.pred[c], v)[c] - Base(q, q.pred[c])
      BY DEF Edges
    <2>1. Base(q, FreeRow) = 0
      BY DEF Base
    <2>2. Reduced(FreeRow, v)[c] \in Int
      BY <1>2
    <2> QED BY <1>4, <2>1, <2>2
  <1>10. Tree(q, n - 1)
    <2>1. \A k \in 0 .. n - 1 : k \in Index
      BY DEF Index
    <2> QED BY <1>4, <2>1 DEF Tree
  <1>11. Relaxed(q, q.lo)
    <2>1. \A c \in Index : Reduced(FreeRow, v)[c] <= Reduced(FreeRow, v)[c]
      BY <1>2
    <2> QED BY <1>4, <1>7, <2>1 DEF Relaxed
  <1>12. Search(q)
    BY <1>6, <1>8, <1>9, <1>10, <1>11 DEF Search
  <1> QED BY <1>1, <1>4, <1>12

(* A step that leaves matrix, matching, prices and free row alone. *)
Framed == /\ input' = input /\ x' = x /\ y' = y /\ v' = v /\ free_rows' = free_rows
          /\ next' = next /\ ret' = ret /\ round' = round

(* What has been shown of the new path holds in the new state. *)
LEMMA FramedPath ==
  ASSUME Framed
  PROVE  /\ Search(path') => (Search(path))'
         /\ Reached(path', j') => (Reached(path, j))'
  <1>1. n' = n /\ Index' = Index /\ cost' = cost
    BY SameMatrix DEF Framed
  <1>2. x' = x /\ y' = y /\ v' = v /\ free_rows' = free_rows /\ next' = next
    BY DEF Framed
  <1>3. FreeRow' = FreeRow /\ \A i : (Reduced(i, v))' = Reduced(i, v)
    BY <1>1, <1>2 DEF FreeRow, Reduced
  <1>4. \A i : (Base(path, i))' = Base(path', i)
    BY <1>2, <1>3 DEF Base
  <1>5. PathOK(path') <=> (PathOK(path))'
    BY <1>1 DEF PathOK, PathSet, Perm
  <1>6. /\ Sorted(path', path'.hi) <=> (Sorted(path, path.hi))'
        /\ Batch(path') <=> (Batch(path))'
    BY <1>1 DEF Sorted, Batch
  <1>7. /\ AllMatched(path', path'.hi) <=> (AllMatched(path, path.hi))'
        /\ AllMatched(path', path'.n_ready) <=> (AllMatched(path, path.n_ready))'
    BY <1>2 DEF AllMatched
  <1>8. Edges(path') <=> (Edges(path))'
    <2>1. (Edges(path))' <=> \A c \in Index : path'.d[c] = Reduced(path'.pred[c], v)[c] - Base(path', path'.pred[c])
      <3>1. (Edges(path))' <=> \A c \in Index' : path'.d[c] = (Reduced(path.pred[c], v))'[c] - (Base(path, path.pred[c]))'
        BY DEF Edges
      <3>2. \A c : (Reduced(path.pred[c], v))' = Reduced(path'.pred[c], v)
        BY <1>1, <1>2 DEF Reduced
      <3>3. \A c : (Base(path, path.pred[c]))' = Base(path', path'.pred[c])
        BY <1>1, <1>2, <1>3 DEF Base, Reduced
      <3> QED BY <1>1, <3>1, <3>2, <3>3
    <2> QED BY <2>1 DEF Edges
  <1>9. Tree(path', n - 1) <=> (Tree(path, n - 1))'
    BY <1>1, <1>2, <1>3 DEF Tree
  <1>10. /\ Relaxed(path', path'.lo) <=> (Relaxed(path, path.lo))'
         /\ Relaxed(path', path'.n_ready) <=> (Relaxed(path, path.n_ready))'
    <2>1. \A m : (Reduced(y[path.cols[m]], v))' = Reduced(y[path'.cols[m]], v)
      BY <1>1, <1>2 DEF Reduced
    <2>2. \A m : (Base(path, y[path.cols[m]]))' = Base(path', y[path'.cols[m]])
      BY <1>1, <1>2, <1>3 DEF Base, Reduced
    <2>3. (Reduced(FreeRow, v))' = Reduced(FreeRow, v)
      BY <1>1, <1>2, <1>3 DEF Reduced
    <2> QED BY <1>1, <2>1, <2>2, <2>3 DEF Relaxed
  <1>11. Search(path') => (Search(path))'
    BY <1>5, <1>6, <1>7, <1>8, <1>9, <1>10 DEF Search
  <1>12. Reached(path', j') => (Reached(path, j))'
    BY <1>1, <1>2, <1>5, <1>7, <1>8, <1>9, <1>10 DEF Reached
  <1> QED BY <1>11, <1>12

-----------------------------------------------------------------------------
(* New prices. *)

(* The distance of the path's end, and how far the price of a column falls. *)
Level == path.d[path.cols[path.n_ready]]
Ready == {path.cols[a] : a \in 0 .. path.n_ready - 1}
Drop(k) == IF k \in Ready THEN Level - path.d[k] ELSE 0
TreeRow(r) == r \in Index /\ (r = FreeRow \/ \E m \in 0 .. path.lo - 1 : r = y[path.cols[m]])

(* Prices fall by what the distance lacks to the end of the path. *)
LEMMA DropIs ==
  ASSUME CostOK, Seeking, Reached(path, j)
  PROVE  /\ Level \in Int
         /\ \A k \in Index : /\ Drop(k) \in Int /\ path.d[k] \in Int /\ Drop(k) >= 0
                             /\ Drop(k) >= Level - path.d[k]
         /\ \A a \in 0 .. path.lo - 1 : /\ a \in Index /\ path.cols[a] \in Index
                                        /\ Drop(path.cols[a]) = Level - path.d[path.cols[a]]
         /\ \A k \in Index : (\A a \in 0 .. path.lo - 1 : path.cols[a] # k) => Drop(k) = 0
         /\ Drop(j) = Level - path.d[j]
  <1>1. /\ path.lo \in Nat /\ path.n_ready \in Nat /\ n \in Int /\ path.n_ready <= path.lo /\ path.lo <= n /\ path.n_ready < n
    <2>1. PathOK(path) /\ path.n_ready < n
      BY DEF Reached
    <2>2. path.lo \in Nat /\ path.hi \in Nat /\ path.n_ready \in Nat /\ n \in Int /\ path.n_ready <= path.lo /\ path.lo <= path.hi /\ path.hi <= n
      BY <2>1, PathNumbers
    <2> QED BY <2>1, <2>2
  <1>2. path.cols \in [Index -> Index] /\ path.d \in [Index -> Int] /\ Perm(path.cols) /\ Index = 0 .. n - 1
    BY PathNumbers DEF Reached
  <1>3. Level \in Int
    <2>1. path.n_ready \in Index
      BY <1>1, <1>2
    <2> QED BY <1>2, <2>1 DEF Level
  <1>4. \A a \in 0 .. path.lo - 1 : a \in Index /\ path.cols[a] \in Index
    <2>1. \A a \in 0 .. path.lo - 1 : a \in 0 .. n - 1
      BY <1>1
    <2> QED BY <1>2, <2>1
  <1>5. /\ \A a \in 0 .. path.lo - 1 : path.d[path.cols[a]] <= Level
        /\ \A a \in path.n_ready .. n - 1 : Level <= path.d[path.cols[a]]
        /\ path.d[j] = Level /\ j \in Index
    BY DEF Reached, Level
  <1>6. ASSUME NEW k \in Index
        PROVE  \/ k \in Ready /\ path.d[k] <= Level /\ Drop(k) = Level - path.d[k]
               \/ k \notin Ready /\ path.d[k] >= Level /\ Drop(k) = 0
    <2>1. PICK a \in Index : path.cols[a] = k
      BY <1>2 DEF Perm
    <2>0. a \in Int /\ a >= 0 /\ a < n
      BY NoneOut
    <2>2. CASE a < path.n_ready
      <3>1. a \in 0 .. path.n_ready - 1 /\ a \in 0 .. path.lo - 1
        BY <1>1, <2>0, <2>2
      <3> QED BY <1>5, <2>1, <3>1 DEF Ready, Drop
    <2>3. CASE ~(a < path.n_ready)
      <3>1. a \in path.n_ready .. n - 1
        BY <1>1, <1>2, <2>3
      <3>2. k \notin Ready
        <4>1. ASSUME NEW b \in 0 .. path.n_ready - 1 PROVE path.cols[b] # k
          <5>1. b \in 0 .. path.lo - 1 /\ b # a
            BY <1>1, <2>3
          <5> QED BY <1>2, <1>4, <2>1, <5>1 DEF Perm
        <4> QED BY <4>1 DEF Ready
      <3>3. Level <= path.d[k] /\ Drop(k) = 0
        BY <1>5, <2>1, <3>1, <3>2 DEF Drop
      <3>4. path.d[k] \in Int
        BY <1>2
      <3> QED BY <1>3, <3>2, <3>3, <3>4
    <2> QED BY <2>2, <2>3
  <1>7. ASSUME NEW k \in Index
        PROVE  Drop(k) \in Int /\ path.d[k] \in Int /\ Drop(k) >= 0 /\ Drop(k) >= Level - path.d[k]
    <2>1. path.d[k] \in Int
      BY <1>2
    <2> QED BY <1>3, <1>6, <2>1
  <1>8. ASSUME NEW a \in 0 .. path.lo - 1 PROVE Drop(path.cols[a]) = Level - path.d[path.cols[a]]
    <2> DEFINE k == path.cols[a]
    <2>1. k \in Index /\ path.d[k] <= Level
      BY <1>4, <1>5
    <2>2. path.d[k] \in Int
      BY <1>2, <2>1
    <2> HIDE DEF k
    <2>3. Drop(k) = Level - path.d[k]
      BY <1>3, <1>6, <2>1, <2>2
    <2> QED BY <2>3 DEF k
  <1>9. ASSUME NEW k \in Index, \A a \in 0 .. path.lo - 1 : path.cols[a] # k PROVE Drop(k) = 0
    <2>1. \A a \in 0 .. path.n_ready - 1 : a \in 0 .. path.lo - 1
      BY <1>1
    <2> QED BY <1>9, <2>1 DEF Ready, Drop
  <1>10. Drop(j) = Level - path.d[j]
    BY <1>3, <1>5, <1>6
  <1> QED BY <1>3, <1>4, <1>7, <1>8, <1>9, <1>10

(* Under the new prices no column of a tree row is cheaper than its base    *)
(* and the level.                                                           *)
LEMMA TreeBound ==
  ASSUME CostOK, Seeking, Reached(path, j), NEW r, TreeRow(r), NEW l \in Index
  PROVE  /\ r \in Index /\ Base(path, r) \in Int /\ Reduced(r, v)[l] \in Int
         /\ Base(path, r) + Level <= Reduced(r, v)[l] + Drop(l)
  <1>1. /\ Level \in Int /\ Drop(l) \in Int /\ path.d[l] \in Int /\ Drop(l) >= 0 /\ Drop(l) >= Level - path.d[l]
        /\ \A a \in 0 .. path.lo - 1 : a \in Index /\ path.cols[a] \in Index /\ path.d[path.cols[a]] \in Int
    BY DropIs
  <1>2. /\ y \in [Index -> Index \union {None}] /\ v \in [Index -> Int] /\ FreeRow \in Index
        /\ \A k \in Index : y[k] # None => x[y[k]] = k /\ y[k] # FreeRow
    BY FreeRowFree DEF Seeking, MatchType, MatchedOn
  <1>3. \A i \in Index : Reduced(i, v) \in [Index -> Int]
    BY <1>2, ReducedType
  <1>4. ASSUME r \in Index, Base(path, r) \in Int, path.d[l] <= Reduced(r, v)[l] - Base(path, r)
        PROVE  Base(path, r) + Level <= Reduced(r, v)[l] + Drop(l)
    <2>1. Reduced(r, v)[l] \in Int
      BY <1>3, <1>4
    <2> QED BY <1>1, <1>4, <2>1
  <1>5. CASE r = FreeRow
    <2>1. Base(path, r) = 0
      BY <1>5 DEF Base
    <2>2. path.d[l] <= Reduced(r, v)[l]
      BY <1>5 DEF Reached, Relaxed
    <2>3. Reduced(r, v)[l] \in Int
      BY <1>2, <1>3, <1>5
    <2>4. path.d[l] <= Reduced(r, v)[l] - Base(path, r)
      BY <2>1, <2>2, <2>3
    <2> QED BY <1>2, <1>4, <1>5, <2>1, <2>3, <2>4
  <1>6. CASE r # FreeRow
    <2>1. PICK m \in 0 .. path.lo - 1 : r = y[path.cols[m]]
      BY <1>6 DEF TreeRow
    <2> DEFINE c == path.cols[m]
    <2>2. c \in Index /\ r = y[c] /\ path.d[c] \in Int
      BY <1>1, <2>1
    <2>3. r \in Index /\ r # None
      BY NoneOut DEF TreeRow
    <2>4. x[r] = c
      BY <1>2, <2>2, <2>3
    <2>5. Base(path, r) = Reduced(r, v)[c] - path.d[c]
      BY <1>6, <2>4 DEF Base
    <2>6. Reduced(r, v)[c] \in Int /\ Reduced(r, v)[l] \in Int
      BY <1>3, <2>2, <2>3
    <2>7. Base(path, r) \in Int
      <3> HIDE DEF c
      <3> QED BY <2>2, <2>5, <2>6
    <2>8. path.n_ready \in Nat /\ path.lo \in Nat /\ path.lo <= n /\ n \in Int /\ m \in Int /\ m < path.lo /\ 0 <= m
      <3>1. path.n_ready \in Nat /\ path.lo \in Nat /\ path.hi \in Nat /\ path.lo <= path.hi /\ path.hi <= n /\ n \in Int
        BY PathNumbers DEF Reached
      <3> QED BY <3>1
    <2>9. CASE m < path.n_ready
      <3>1. m \in 0 .. path.n_ready - 1
        BY <2>8, <2>9
      <3>2. path.d[l] <= Reduced(r, v)[l] - Base(path, r)
        BY <2>1, <3>1 DEF Reached, Relaxed
      <3> QED BY <1>4, <2>3, <2>6, <2>7, <3>2
    <2>10. CASE ~(m < path.n_ready)
      <3>1. m \in path.n_ready .. n - 1
        BY <2>8, <2>10
      <3>2. path.d[c] <= Level /\ Level <= path.d[c]
        BY <3>1 DEF Reached, Level
      <3>3. Reduced(r, v)[c] <= Reduced(r, v)[l]
        BY <2>2, <2>3 DEF Seeking, Slack
      <3> HIDE DEF c
      <3>4. Base(path, r) + Level <= Reduced(r, v)[l] + Drop(l)
        BY <1>1, <2>2, <2>5, <2>6, <3>2, <3>3
      <3> QED BY <2>3, <2>6, <2>7, <3>4
    <2> QED BY <2>9, <2>10
  <1> QED BY <1>5, <1>6

(* A column whose predecessor is a tree row, and whose price has fallen by  *)
(* all that its distance lacks, is the cheapest of that row.                *)
LEMMA TreeTight ==
  ASSUME CostOK, Seeking, Reached(path, j), NEW r, TreeRow(r), NEW c \in Index, NEW l \in Index,
         Drop(c) = Level - path.d[c], path.d[c] = Reduced(r, v)[c] - Base(path, r)
  PROVE  Reduced(r, v)[c] + Drop(c) <= Reduced(r, v)[l] + Drop(l)
  <1>1. Level \in Int /\ Drop(c) \in Int /\ Drop(l) \in Int /\ path.d[c] \in Int
    BY DropIs
  <1>2. /\ Base(path, r) \in Int /\ Reduced(r, v)[l] \in Int /\ Reduced(r, v)[c] \in Int
        /\ Base(path, r) + Level <= Reduced(r, v)[l] + Drop(l)
    BY TreeBound
  <1> QED BY <1>1, <1>2

(* Whatever column has a predecessor in the tree and lies before the end of *)
(* the path is tight, and so is every pair of the matching.                 *)
LEMMA DropKeeps ==
  ASSUME CostOK, Seeking, Reached(path, j)
  PROVE  /\ \A l \in Index : Reduced(path.pred[j], v)[j] + Drop(j) <= Reduced(path.pred[j], v)[l] + Drop(l)
         /\ \A a \in 0 .. path.lo - 1, l \in Index :
               LET c == path.cols[a] IN Reduced(path.pred[c], v)[c] + Drop(c) <= Reduced(path.pred[c], v)[l] + Drop(l)
         /\ \A k, l \in Index : y[k] # None => Reduced(y[k], v)[k] + Drop(k) <= Reduced(y[k], v)[l] + Drop(l)
  <1>1. /\ \A k \in Index : Drop(k) \in Int /\ path.d[k] \in Int /\ Drop(k) >= 0
        /\ \A a \in 0 .. path.lo - 1 : /\ a \in Index /\ path.cols[a] \in Index
                                       /\ Drop(path.cols[a]) = Level - path.d[path.cols[a]]
        /\ \A k \in Index : (\A a \in 0 .. path.lo - 1 : path.cols[a] # k) => Drop(k) = 0
        /\ Drop(j) = Level - path.d[j]
    BY DropIs
  <1>2. /\ y \in [Index -> Index \union {None}] /\ v \in [Index -> Int] /\ FreeRow \in Index
        /\ \A k \in Index : y[k] # None => x[y[k]] = k /\ y[k] # FreeRow
    BY FreeRowFree DEF Seeking, MatchType, MatchedOn
  <1>3. path.pred \in [Index -> Index] /\ Perm(path.cols) /\ j \in Index /\ Index = 0 .. n - 1
    BY PathNumbers DEF Reached
  <1>4. ASSUME NEW c \in Index
        PROVE  TreeRow(path.pred[c]) /\ path.d[c] = Reduced(path.pred[c], v)[c] - Base(path, path.pred[c])
    <2>1. PICK k \in Index : path.cols[k] = c
      BY <1>3 DEF Perm
    <2>2. \/ path.pred[path.cols[k]] = FreeRow
          \/ \E m \in 0 .. path.lo - 1 : y[path.cols[m]] = path.pred[path.cols[k]]
      BY <1>3 DEF Reached, Tree
    <2>3. TreeRow(path.pred[c])
      BY <1>3, <2>1, <2>2 DEF TreeRow
    <2>4. path.d[c] = Reduced(path.pred[c], v)[c] - Base(path, path.pred[c])
      BY DEF Reached, Edges
    <2> QED BY <2>3, <2>4
  <1>5. ASSUME NEW c \in Index, Drop(c) = Level - path.d[c], NEW l \in Index
        PROVE  Reduced(path.pred[c], v)[c] + Drop(c) <= Reduced(path.pred[c], v)[l] + Drop(l)
    BY <1>4, <1>5, TreeTight
  <1>6. ASSUME NEW k \in Index, NEW l \in Index, y[k] # None
        PROVE  Reduced(y[k], v)[k] + Drop(k) <= Reduced(y[k], v)[l] + Drop(l)
    <2> DEFINE r == y[k]
    <2>1. r \in Index /\ x[r] = k /\ r # FreeRow
      BY <1>2, <1>6
    <2>2. Reduced(r, v)[k] \in Int /\ Reduced(r, v)[l] \in Int
      <3>1. Reduced(r, v) \in [Index -> Int]
        BY <1>2, <2>1, ReducedType
      <3> QED BY <3>1
    <2>3. Reduced(r, v)[k] <= Reduced(r, v)[l]
      BY <1>6 DEF Seeking, Slack
    <2>4. Base(path, r) = Reduced(r, v)[k] - path.d[k]
      BY <2>1 DEF Base
    <2>5. CASE \E a \in 0 .. path.lo - 1 : path.cols[a] = k
      <3>1. TreeRow(r) /\ Drop(k) = Level - path.d[k]
        BY <1>1, <2>1, <2>5 DEF TreeRow
      <3> HIDE DEF r
      <3>2. path.d[k] \in Int
        BY <1>1
      <3>3. path.d[k] = Reduced(r, v)[k] - Base(path, r)
        BY <2>2, <2>4, <3>2
      <3>4. Reduced(r, v)[k] + Drop(k) <= Reduced(r, v)[l] + Drop(l)
        BY <3>1, <3>3, TreeTight
      <3> QED BY <3>4 DEF r
    <2>6. CASE ~(\E a \in 0 .. path.lo - 1 : path.cols[a] = k)
      <3>1. Drop(k) = 0
        BY <1>1, <2>6
      <3>2. Drop(l) \in Int /\ Drop(l) >= 0
        BY <1>1
      <3> HIDE DEF r
      <3>3. Reduced(r, v)[k] + Drop(k) <= Reduced(r, v)[l] + Drop(l)
        BY <2>2, <2>3, <3>1, <3>2
      <3> QED BY <3>3 DEF r
    <2> QED BY <2>5, <2>6
  <1> QED BY <1>1, <1>3, <1>5, <1>6

-----------------------------------------------------------------------------
(* Turning the path around. *)

(* Column c is one of the cheapest of its predecessor. *)
Tight(q, c) == \A l \in Index : Reduced(q.pred[c], v)[c] <= Reduced(q.pred[c], v)[l]

(* The rest of the path leads from c through tight columns to the free row. *)
Turning(q, c) == /\ PathOK(q)
                 /\ \E p \in Index : q.cols[p] = c /\ Tree(q, p)
                 /\ Tight(q, c) /\ \A a \in 0 .. q.lo - 1 : Tight(q, q.cols[a])

(* The new prices support the matching, and the path is tight under them. *)
LEMMA PricesStep ==
  ASSUME CostOK, Seeking, Reached(path, j), Prices
  PROVE  /\ pc' = "augment" /\ v' \in [Index -> Int]
         /\ Slack' /\ (Turning(path, j))'
  <1>0. /\ pc' = "augment" /\ input' = input /\ x' = x /\ y' = y /\ free_rows' = free_rows /\ next' = next
        /\ path' = path /\ j' = j
    BY DEF Prices
  <1>1. n' = n /\ Index' = Index /\ cost' = cost
    BY <1>0, SameMatrix
  <1>2. v' = [k \in Index |-> IF k \in Ready THEN v[k] + path.d[k] - Level ELSE v[k]]
    BY DEF Prices, Ready, Level
  <1>3. Level \in Int /\ \A k \in Index : Drop(k) \in Int /\ path.d[k] \in Int
    BY DropIs
  <1>4. v \in [Index -> Int]
    BY DEF Seeking, MatchType
  <1>5. ASSUME NEW k \in Index PROVE v'[k] = v[k] - Drop(k) /\ v'[k] \in Int
    <2>1. v[k] \in Int /\ path.d[k] \in Int
      BY <1>3, <1>4
    <2>2. CASE k \in Ready
      <3>1. v'[k] = v[k] + path.d[k] - Level /\ Drop(k) = Level - path.d[k]
        BY <1>2, <2>2 DEF Drop
      <3> QED BY <1>3, <2>1, <3>1
    <2>3. CASE k \notin Ready
      <3>1. v'[k] = v[k] /\ Drop(k) = 0
        BY <1>2, <2>3 DEF Drop
      <3> QED BY <2>1, <3>1
    <2> QED BY <2>2, <2>3
  <1>6. v' \in [Index -> Int]
    BY <1>2, <1>5
  <1>7. ASSUME NEW i \in Index, NEW k \in Index
        PROVE  Reduced(i, v')[k] = Reduced(i, v)[k] + Drop(k)
    <2>1. Reduced(i, v')[k] = cost[i][k] - v'[k] /\ Reduced(i, v)[k] = cost[i][k] - v[k]
      BY <1>4, <1>6, ReducedType
    <2>2. cost[i][k] \in Int
      BY DEF CostOK
    <2>3. v[k] \in Int /\ Drop(k) \in Int /\ v'[k] = v[k] - Drop(k)
      BY <1>3, <1>4, <1>5
    <2> QED BY <2>1, <2>2, <2>3
  <1>8. /\ \A l \in Index : Reduced(path.pred[j], v)[j] + Drop(j) <= Reduced(path.pred[j], v)[l] + Drop(l)
        /\ \A a \in 0 .. path.lo - 1, l \in Index :
               LET c == path.cols[a] IN Reduced(path.pred[c], v)[c] + Drop(c) <= Reduced(path.pred[c], v)[l] + Drop(l)
        /\ \A k, l \in Index : y[k] # None => Reduced(y[k], v)[k] + Drop(k) <= Reduced(y[k], v)[l] + Drop(l)
    BY DropKeeps
  <1>9. /\ PathOK(path) /\ path.pred \in [Index -> Index] /\ Perm(path.cols) /\ j \in Index /\ Index = 0 .. n - 1
        /\ path.cols \in [Index -> Index]
    BY PathNumbers DEF Reached
  <1>10. \A a \in 0 .. path.lo - 1 : path.cols[a] \in Index
    BY DropIs
  <1>11. y \in [Index -> Index \union {None}]
    BY DEF Seeking, MatchType
  <1>12. \A i : (Reduced(i, v))' = Reduced(i, v')
    BY <1>1 DEF Reduced
  <1>13. Slack'
    <2>1. ASSUME NEW k \in Index, NEW l \in Index, y[k] # None
          PROVE  Reduced(y[k], v')[k] <= Reduced(y[k], v')[l]
      <3>1. y[k] \in Index
        BY <1>11, <2>1
      <3> QED BY <1>7, <1>8, <2>1, <3>1
    <2>2. \A k : (Reduced(y[k], v))' = Reduced(y[k], v')
      BY <1>0, <1>1 DEF Reduced
    <2> QED BY <1>0, <1>1, <2>1, <2>2 DEF Slack
  <1>14. ASSUME NEW c \in Index,
                \A l \in Index : Reduced(path.pred[c], v)[c] + Drop(c) <= Reduced(path.pred[c], v)[l] + Drop(l)
         PROVE  \A l \in Index : Reduced(path.pred[c], v')[c] <= Reduced(path.pred[c], v')[l]
    <2>1. path.pred[c] \in Index
      BY <1>9
    <2> QED BY <1>7, <1>14, <2>1
  <1>15. (Tight(path, j))' /\ \A a \in 0 .. path.lo - 1 : (Tight(path, path.cols[a]))'
    <2>1. ASSUME NEW a \in 0 .. path.lo - 1 PROVE (Tight(path, path.cols[a]))'
      <3>1. \A l \in Index : Reduced(path.pred[path.cols[a]], v')[path.cols[a]] <= Reduced(path.pred[path.cols[a]], v')[l]
        BY <1>8, <1>10, <1>14
      <3> QED BY <1>0, <1>1, <3>1 DEF Tight, Reduced
    <2>2. (Tight(path, j))'
      <3>1. \A l \in Index : Reduced(path.pred[j], v')[j] <= Reduced(path.pred[j], v')[l]
        BY <1>8, <1>9, <1>14
      <3> QED BY <1>0, <1>1, <3>1 DEF Tight, Reduced
    <2> QED BY <2>1, <2>2
  <1>16. (PathOK(path))'
    BY <1>0, <1>1, <1>9 DEF PathOK, PathSet, Perm
  <1>17. (\E p \in Index : path.cols[p] = j /\ Tree(path, p))'
    <2>1. PICK p \in Index : path.cols[p] = j
      BY <1>9 DEF Perm
    <2>2. Tree(path, n - 1)
      BY DEF Reached
    <2>3. Tree(path, p)
      <3>1. \A k \in 0 .. p : k \in 0 .. n - 1
        <4>1. p \in Int /\ p < n /\ n \in Int
          BY NoneOut
        <4> QED BY <4>1
      <3> QED BY <2>2, <3>1 DEF Tree
    <2>4. (Tree(path, p))'
      BY <1>0, <1>1, <2>3 DEF Tree, FreeRow
    <2> QED BY <1>0, <1>1, <2>1, <2>4
  <1>18. (Turning(path, j))'
    <2>1. (\A a \in 0 .. path.lo - 1 : Tight(path, path.cols[a]))'
      BY <1>0, <1>15
    <2> QED BY <1>15, <1>16, <1>17, <2>1 DEF Turning
  <1> QED BY <1>0, <1>6, <1>13, <1>18

(* While the path is turned around, column j is left out of the matching.   *)
Augmenting == /\ next \in Nat /\ next < ret
              /\ MatchType /\ MatchedOn(Index \ {j}) /\ ListedOn(next .. ret - 1, Index \ {j}) /\ Slack
              /\ Turning(path, j)

(* The column at hand goes to its predecessor: what that does to both maps. *)
LEMMA AugmentMoves ==
  ASSUME CostOK, Augmenting, Augment
  PROVE  /\ input' = input /\ v' = v /\ free_rows' = free_rows /\ round' = round
         /\ j \in Index /\ path.pred[j] \in Index
         /\ x' \in [Index -> Index \union {None}] /\ y' \in [Index -> Index \union {None}]
         /\ x'[path.pred[j]] = j /\ \A i \in Index : i # path.pred[j] => x'[i] = x[i]
         /\ y'[j] = path.pred[j] /\ \A k \in Index : k # j => y'[k] = y[k]
         /\ Slack'
  <1>1. input' = input /\ v' = v /\ free_rows' = free_rows /\ round' = round
    BY DEF Augment
  <1>2. n' = n /\ Index' = Index /\ cost' = cost
    BY <1>1, SameMatrix
  <1>3. PathOK(path) /\ \E p \in Index : path.cols[p] = j
    BY DEF Augmenting, Turning
  <1>4. j \in Index /\ path.pred[j] \in Index
    <2>1. path.cols \in [Index -> Index] /\ path.pred \in [Index -> Index]
      BY <1>3, PathNumbers
    <2> QED BY <1>3, <2>1
  <1> DEFINE i == path.pred[j]
  <1>5. y' = [y EXCEPT ![j] = i] /\ x' = [x EXCEPT ![i] = j]
    BY DEF Augment
  <1>6. x \in [Index -> Index \union {None}] /\ y \in [Index -> Index \union {None}]
    BY DEF Augmenting, MatchType
  <1>7. i \in Index
    BY <1>4
  <1>8. /\ x' \in [Index -> Index \union {None}] /\ y' \in [Index -> Index \union {None}]
        /\ x'[i] = j /\ \A r \in Index : r # i => x'[r] = x[r]
        /\ y'[j] = i /\ \A k \in Index : k # j => y'[k] = y[k]
    <2> HIDE DEF i
    <2> QED BY <1>4, <1>5, <1>6, <1>7
  <1>9. Slack'
    <2>1. ASSUME NEW k \in Index, NEW l \in Index, y'[k] # None
          PROVE  Reduced(y'[k], v)[k] <= Reduced(y'[k], v)[l]
      <3>1. CASE k = j
        BY <1>8, <3>1 DEF Augmenting, Turning, Tight
      <3>2. CASE k # j
        BY <1>8, <2>1, <3>2 DEF Augmenting, Slack
      <3> QED BY <3>1, <3>2
    <2>2. \A k : (Reduced(y[k], v))' = Reduced(y'[k], v)
      BY <1>1, <1>2 DEF Reduced
    <2> QED BY <1>1, <1>2, <2>1, <2>2 DEF Slack
  <1> QED BY <1>1, <1>4, <1>8, <1>9

(* A turn that has not reached the free row goes on at the row's old column. *)
LEMMA AugmentGoesOn ==
  ASSUME CostOK, Augmenting, Augment, path.pred[j] # FreeRow
  PROVE  /\ pc' = "augment" /\ Augmenting'
  <1> DEFINE i == path.pred[j]
  <1>1. /\ pc' = "augment" /\ j' = x[i] /\ next' = next /\ path' = path /\ ret' = ret
    <2>1. pc = "augment"
      BY DEF Augment
    <2> QED BY <2>1 DEF Augment, FreeRow
  <1>2. /\ input' = input /\ v' = v /\ free_rows' = free_rows /\ round' = round
        /\ j \in Index /\ path.pred[j] \in Index
        /\ x' \in [Index -> Index \union {None}] /\ y' \in [Index -> Index \union {None}]
        /\ x'[path.pred[j]] = j /\ \A r \in Index : r # path.pred[j] => x'[r] = x[r]
        /\ y'[j] = path.pred[j] /\ \A k \in Index : k # j => y'[k] = y[k]
        /\ Slack'
    BY AugmentMoves
  <1>3. n' = n /\ Index' = Index /\ cost' = cost
    BY <1>2, SameMatrix
  <1>4. /\ path.lo \in Nat /\ path.lo <= n /\ n \in Int /\ path.cols \in [Index -> Index] /\ Perm(path.cols) /\ PathOK(path)
    <2>1. PathOK(path)
      BY DEF Augmenting, Turning
    <2>2. path.lo \in Nat /\ path.hi \in Nat /\ path.lo <= path.hi /\ path.hi <= n /\ n \in Int
      BY <2>1, PathNumbers
    <2>3. path.cols \in [Index -> Index] /\ Perm(path.cols)
      BY <2>1, PathNumbers
    <2> QED BY <2>1, <2>2, <2>3
  <1>5. PICK p \in Index : path.cols[p] = j /\ Tree(path, p)
    BY DEF Augmenting, Turning
  <1>6. p \in Int /\ 0 <= p /\ p < n /\ n \in Int
    BY NoneOut
  <1>7. PICK m \in 0 .. path.lo - 1 : m < p /\ y[path.cols[m]] = i
    <2>1. p \in 0 .. p
      BY <1>6
    <2> QED BY <1>5, <2>1 DEF Tree
  <1> DEFINE c == path.cols[m]
  <1>8. m \in Int /\ 0 <= m /\ m < path.lo /\ m \in Index
    <2>1. m \in Int /\ 0 <= m /\ m < path.lo /\ m <= n - 1
      BY <1>4
    <2>2. Index = 0 .. n - 1
      BY DEF Index
    <2> QED BY <1>4, <2>1, <2>2
  <1>9. c \in Index /\ c # j /\ y[c] = i
    <2>1. m # p
      BY <1>6, <1>7, <1>8
    <2> QED BY <1>4, <1>5, <1>7, <1>8, <2>1 DEF Perm
  <1>10. x[i] = c /\ \A k \in Index \ {j} : y[k] # None => x[y[k]] = k
    <2>1. i # None
      BY <1>2, NoneOut
    <2> QED BY <1>9, <2>1 DEF Augmenting, MatchedOn
  <1>11. j' = c
    BY <1>1, <1>10
  <1> HIDE DEF i
  <1>12. i \in Index /\ x'[i] = j /\ (\A r \in Index : r # i => x'[r] = x[r]) /\ y'[j] = i
    BY <1>2 DEF i
  <1> HIDE DEF c
  <1>13. (MatchedOn(Index \ {j}))'
    <2>1. ASSUME NEW k \in Index \ {c}, y'[k] # None PROVE x'[y'[k]] = k
      <3>1. CASE k = j
        BY <1>12, <3>1
      <3>2. CASE k # j
        <4>1. y'[k] = y[k] /\ x[y[k]] = k /\ y[k] # i
          BY <1>2, <1>10, <2>1, <3>2
        <4>2. y[k] \in Index
          BY <1>2, <2>1, <4>1
        <4> QED BY <1>12, <4>1, <4>2
      <3> QED BY <3>1, <3>2
    <2> QED BY <1>3, <1>11, <2>1 DEF MatchedOn
  <1>14. (ListedOn(next .. ret - 1, Index \ {j}))'
    <2>1. ASSUME NEW r \in Index
          PROVE  (\A k \in Index \ {c} : y'[k] # r) <=> (\A k \in Index \ {j} : y[k] # r)
      <3>1. CASE r = i
        BY <1>2, <1>9, <1>12, <3>1
      <3>2. CASE r # i
        BY <1>2, <1>9, <1>12, <3>2
      <3> QED BY <3>1, <3>2
    <2>2. next' = next /\ ret' = ret
      BY <1>1
    <2> QED BY <1>2, <1>3, <1>11, <2>1, <2>2 DEF Augmenting, ListedOn
  <1>15. MatchType'
    <2>1. ret' = ret
      BY <1>1
    <2> QED BY <1>2, <1>3, <2>1 DEF Augmenting, MatchType
  <1>16. (Turning(path, j))'
    <2>1. path' = path /\ next' = next
      BY <1>1
    <2>2. (PathOK(path))'
      BY <1>3, <1>4, <2>1 DEF PathOK, PathSet, Perm
    <2>3. \A a \in 0 .. path.lo - 1 : Tight(path, path.cols[a])
      BY DEF Augmenting, Turning
    <2>4. \A e : Tight(path, e) => (\A l \in Index : Reduced(path.pred[e], v)[e] <= Reduced(path.pred[e], v)[l])
      BY DEF Tight
    <2>5. (\A a \in 0 .. path.lo - 1 : Tight(path, path.cols[a]))'
      <3>1. ASSUME NEW a \in 0 .. path.lo - 1 PROVE (Tight(path, path.cols[a]))'
        BY <1>2, <1>3, <2>1, <2>3, SMTT(60) DEF Tight, Reduced
      <3> QED BY <2>1, <3>1
    <2>6. (Tight(path, j))'
      <3>1. Tight(path, c)
        BY <2>3 DEF c
      <3> QED BY <1>2, <1>3, <1>11, <2>1, <3>1 DEF Tight, Reduced
    <2>7. Tree(path, m)
      <3>1. \A k \in 0 .. m : k \in 0 .. p
        BY <1>6, <1>7, <1>8
      <3> QED BY <1>5, <3>1 DEF Tree
    <2>8. (Tree(path, m))'
      <3>1. ASSUME NEW k \in 0 .. m
            PROVE  \/ path.pred[path.cols[k]] = FreeRow
                   \/ \E e \in 0 .. path.lo - 1 : e < k /\ y'[path.cols[e]] = path.pred[path.cols[k]]
        <4>1. CASE path.pred[path.cols[k]] = FreeRow
          BY <4>1
        <4>2. CASE path.pred[path.cols[k]] # FreeRow
          <5>1. PICK e \in 0 .. path.lo - 1 : e < k /\ y[path.cols[e]] = path.pred[path.cols[k]]
            BY <2>7, <4>2 DEF Tree
          <5>2. e \in Int /\ e < p /\ e \in Index /\ e # p
            <6>1. e \in Int /\ k \in Int /\ k <= m /\ 0 <= e /\ e < k
              BY <1>8, <5>1
            <6>2. e < p /\ e <= n - 1
              BY <1>6, <1>7, <1>8, <6>1
            <6>3. Index = 0 .. n - 1
              BY DEF Index
            <6> QED BY <1>4, <1>6, <6>1, <6>2, <6>3
          <5>3. path.cols[e] \in Index /\ path.cols[e] # j
            BY <1>4, <1>5, <5>2 DEF Perm
          <5> QED BY <1>2, <5>1, <5>3
        <4> QED BY <4>1, <4>2
      <3> QED BY <1>2, <2>1, <3>1 DEF Tree, FreeRow
    <2>9. (\E e \in Index : path.cols[e] = j /\ Tree(path, e))'
      BY <1>3, <1>8, <1>11, <2>1, <2>8 DEF c
    <2> QED BY <2>2, <2>5, <2>6, <2>9 DEF Turning
  <1>17. next' \in Nat /\ next' < ret'
    BY <1>1 DEF Augmenting
  <1>18. Augmenting'
    BY <1>2, <1>13, <1>14, <1>15, <1>16, <1>17 DEF Augmenting
  <1> QED BY <1>1, <1>18

(* The turn that reaches the free row gives it a column: it is free no more. *)
LEMMA AugmentEnds ==
  ASSUME CostOK, Augmenting, Augment, path.pred[j] = FreeRow
  PROVE  /\ pc' = (IF ret' = 0 THEN "done" ELSE "path") /\ path' = NoPath
         /\ next' \in Nat /\ (ret' = 0 => next' = 0) /\ (ret' # 0 => next' < ret')
         /\ (MatchType /\ MatchedOn(Index) /\ ListedOn(next .. ret - 1, Index) /\ Slack)'
  <1>1. /\ path' = NoPath
        /\ next' = IF next + 1 < ret THEN next + 1 ELSE 0
        /\ ret' = IF next + 1 < ret THEN ret ELSE 0
        /\ pc' = IF next + 1 < ret THEN "path" ELSE "done"
    BY DEF Augment, FreeRow
  <1>2. /\ input' = input /\ v' = v /\ free_rows' = free_rows /\ round' = round
        /\ j \in Index /\ path.pred[j] \in Index
        /\ x' \in [Index -> Index \union {None}] /\ y' \in [Index -> Index \union {None}]
        /\ x'[path.pred[j]] = j /\ \A r \in Index : r # path.pred[j] => x'[r] = x[r]
        /\ y'[j] = path.pred[j] /\ \A k \in Index : k # j => y'[k] = y[k]
        /\ Slack'
    BY AugmentMoves
  <1>3. n' = n /\ Index' = Index /\ cost' = cost
    BY <1>2, SameMatrix
  <1>4. next \in Nat /\ ret \in Int /\ next < ret /\ 0 <= ret /\ ret <= n /\ n \in Nat
    BY DEF Augmenting, MatchType, CostOK
  <1> DEFINE i == FreeRow
  <1>5. i \in Index /\ y'[j] = i /\ x'[i] = j /\ (\A r \in Index : r # i => x'[r] = x[r]) /\ i = free_rows[next]
    BY <1>2 DEF FreeRow
  <1> HIDE DEF i
  <1>6. \A k \in Index \ {j} : y[k] # i
    <2>1. next \in next .. ret - 1
      BY <1>4
    <2> QED BY <1>5, <2>1 DEF Augmenting, ListedOn
  <1>7. (MatchedOn(Index))'
    <2>1. ASSUME NEW k \in Index, y'[k] # None PROVE x'[y'[k]] = k
      <3>1. CASE k = j
        BY <1>5, <3>1
      <3>2. CASE k # j
        <4>1. y'[k] = y[k] /\ x[y[k]] = k /\ y[k] # i /\ y[k] \in Index
          BY <1>2, <1>6, <2>1, <3>2 DEF Augmenting, MatchedOn
        <4> QED BY <1>5, <4>1
      <3> QED BY <3>1, <3>2
    <2> QED BY <1>3, <2>1 DEF MatchedOn
  <1>8. /\ next' \in Nat /\ ret' \in 0 .. n /\ (ret' = 0 => next' = 0) /\ (ret' # 0 => next' < ret')
        /\ pc' = (IF ret' = 0 THEN "done" ELSE "path")
    <2>1. CASE next + 1 < ret
      BY <1>1, <1>4, <2>1
    <2>2. CASE ~(next + 1 < ret)
      BY <1>1, <1>4, <2>2
    <2> QED BY <2>1, <2>2
  <1>9. next' .. ret' - 1 = next + 1 .. ret - 1
    <2>1. CASE next + 1 < ret
      BY <1>1, <2>1
    <2>2. CASE ~(next + 1 < ret)
      <3>1. next' = 0 /\ ret' = 0
        BY <1>1, <2>2
      <3>2. \A a : ~(a \in next + 1 .. ret - 1)
        BY <1>4, <2>2
      <3>3. \A a : ~(a \in 0 .. 0 - 1)
        OBVIOUS
      <3> QED BY <3>1, <3>2, <3>3
    <2> QED BY <2>1, <2>2
  <1>10. /\ \A a \in next + 1 .. ret - 1 : a \in next .. ret - 1 /\ a # next
         /\ \A a \in next .. ret - 1 : a # next => a \in next + 1 .. ret - 1
         /\ next \in next .. ret - 1
    BY <1>4
  <1>11. /\ \A a \in next .. ret - 1 : free_rows[a] \in Index
         /\ \A a, b \in next .. ret - 1 : free_rows[a] = free_rows[b] => a = b
         /\ \A r \in Index : (\E a \in next .. ret - 1 : free_rows[a] = r) <=> (\A k \in Index \ {j} : y[k] # r)
    BY DEF Augmenting, ListedOn
  <1>12. ASSUME NEW r \in Index
         PROVE  (\E a \in next + 1 .. ret - 1 : free_rows[a] = r) <=> (\A k \in Index : y'[k] # r)
    <2>1. CASE r = i
      <3>1. ~(\A k \in Index : y'[k] # r)
        BY <1>2, <1>5, <2>1
      <3>2. ~(\E a \in next + 1 .. ret - 1 : free_rows[a] = r)
        BY <1>5, <1>10, <1>11, <2>1
      <3> QED BY <3>1, <3>2
    <2>2. CASE r # i
      <3>1. (\A k \in Index : y'[k] # r) <=> (\A k \in Index \ {j} : y[k] # r)
        BY <1>2, <1>5, <2>2
      <3>2. (\E a \in next + 1 .. ret - 1 : free_rows[a] = r) <=> (\E a \in next .. ret - 1 : free_rows[a] = r)
        BY <1>5, <1>10, <2>2
      <3> QED BY <1>11, <3>1, <3>2
    <2> QED BY <2>1, <2>2
  <1>13. (ListedOn(next .. ret - 1, Index))'
    <2>1. (\A a \in next + 1 .. ret - 1 : free_rows[a] \in Index)
          /\ (\A a, b \in next + 1 .. ret - 1 : free_rows[a] = free_rows[b] => a = b)
      BY <1>10, <1>11
    <2> QED BY <1>2, <1>3, <1>9, <1>12, <2>1 DEF ListedOn
  <1>14. MatchType'
    BY <1>2, <1>3, <1>8 DEF Augmenting, MatchType
  <1> QED BY <1>1, <1>2, <1>7, <1>8, <1>13, <1>14

-----------------------------------------------------------------------------
(* The inductive invariant, phase by phase. *)

(* Between two changes of the matching the entries L list the rows without one. *)
Between(L) == MatchType /\ MatchedOn(Index) /\ ListedOn(L, Index) /\ Slack

AtColumn == pc = "ccrrt" /\ carr = NoCarr /\ path = NoPath /\ next = 0
AtTransfer == pc = "transfer" /\ carr = NoCarr /\ path = NoPath /\ next = 0 /\ TransferInv
AtCarr == pc = "carr" /\ path = NoPath /\ next = 0 /\ Between(Live) /\ CarrInv
AtPath == pc = "path" /\ Seeking /\ (path # NoPath => Search(path) /\ path.lo = path.hi)
AtScan == pc = "scan" /\ Scanning /\ path.n_ready < path.hi
AtPrices == pc = "prices" /\ Seeking /\ Reached(path, j)
AtAugment == pc = "augment" /\ Augmenting
AtDone == pc = "done" /\ Between(next .. ret - 1) /\ ret = 0 /\ next = 0

LapjvIInv == /\ CostOK /\ round \in Nat
             /\ AtColumn \/ AtTransfer \/ AtCarr \/ AtPath \/ AtScan \/ AtPrices \/ AtAugment \/ AtDone

(* Every phase hands its free rows over in the entries below ret. *)
LEMMA PhaseStep ==
  ASSUME CostOK', NEW r, pc' = Phase(ret', r), carr' = NoCarr, path' = NoPath, next' = 0,
         (Between(0 .. ret - 1))'
  PROVE  (AtCarr \/ AtPath \/ AtDone)'
  <1>1. ret' \in Nat
    BY DEF Between, MatchType, CostOK
  <1>2. CASE ret' = 0
    <2>1. pc' = "done"
      BY <1>2 DEF Phase
    <2> QED BY <1>2, <2>1 DEF AtDone
  <1>3. CASE ret' # 0 /\ pc' = "carr"
    <2>1. carr' = [current |-> 0, new |-> 0, rr |-> 0]
      BY DEF NoCarr
    <2>2. carr'.current = 0 /\ carr'.new = 0 /\ carr' \in [current : Nat, new : Nat, rr : Nat]
      BY <2>1
    <2>3. Live' = (0 .. 0 - 1) \union (0 .. ret' - 1)
      BY <1>3, <2>2 DEF Live
    <2>4. Live' = 0 .. ret' - 1
      BY <1>1, <2>3
    <2>5. CarrInv'
      BY <1>1, <2>2 DEF CarrInv
    <2> QED BY <1>3, <2>4, <2>5 DEF AtCarr, Between
  <1>4. CASE ret' # 0 /\ pc' # "carr"
    <2>1. pc' = "path"
      BY <1>4 DEF Phase
    <2>2. 0 < ret' /\ 0 \in Nat
      BY <1>1, <1>4
    <2> QED BY <2>1, <2>2 DEF AtPath, Seeking, Between
  <1> QED BY <1>2, <1>3, <1>4

(* _carr_dense returns what it has written as the next free rows. *)
LEMMA CarrReturnStep ==
  ASSUME CostOK, AtCarr, CarrReturn
  PROVE  CostOK' /\ (AtCarr \/ AtPath \/ AtDone)'
  <1>1. /\ pc = "carr" /\ carr.current = ret /\ ret' = carr.new /\ round' = round + 1 /\ carr' = NoCarr
        /\ pc' = Phase(ret', round') /\ input' = input /\ x' = x /\ y' = y /\ v' = v
        /\ free_rows' = free_rows /\ next' = next /\ path' = path
    BY DEF CarrReturn
  <1>2. n' = n /\ Index' = Index /\ cost' = cost /\ CostOK'
    BY <1>1, SameMatrix
  <1>3. MatchType /\ MatchedOn(Index) /\ ListedOn(Live, Index) /\ Slack /\ CarrInv /\ next = 0 /\ path = NoPath
    BY DEF AtCarr, Between
  <1>4. carr.new \in Nat /\ carr.current \in Nat /\ carr.new <= carr.current /\ ret <= n /\ n \in Nat /\ round \in Nat
    BY <1>3 DEF CarrInv, MatchType, CostOK
  <1>5. ret' \in 0 .. n /\ round' \in Nat
    BY <1>1, <1>4
  <1>6. Live = 0 .. ret' - 1
    <2>1. Live = (0 .. ret' - 1) \union (ret .. ret - 1)
      BY <1>1 DEF Live
    <2>2. \A a : ~(a \in ret .. ret - 1)
      BY <1>1, <1>4
    <2> QED BY <2>1, <2>2
  <1>7. MatchType' /\ (MatchedOn(Index))' /\ (ListedOn(0 .. ret - 1, Index))' /\ Slack'
    <2>1. MatchType'
      BY <1>1, <1>2, <1>3, <1>5 DEF MatchType
    <2>2. (MatchedOn(Index))' /\ (ListedOn(0 .. ret - 1, Index))'
      BY <1>1, <1>2, <1>3, <1>6 DEF MatchedOn, ListedOn
    <2>3. Slack'
      BY <1>1, <1>2, <1>3 DEF Slack, Reduced
    <2> QED BY <2>1, <2>2, <2>3
  <1>8. (Between(0 .. ret - 1))'
    BY <1>7 DEF Between
  <1> QED BY <1>1, <1>2, <1>3, <1>8, PhaseStep

(* What is shown of the matching survives a step that only moves the search. *)
LEMMA FramedSeeking ==
  ASSUME CostOK, Framed
  PROVE  /\ CostOK' /\ round' = round
         /\ Seeking => Seeking'
         /\ Between(next .. ret - 1) => (Between(next .. ret - 1))'
  <1>1. n' = n /\ Index' = Index /\ cost' = cost /\ CostOK'
    BY SameMatrix DEF Framed
  <1>2. x' = x /\ y' = y /\ v' = v /\ free_rows' = free_rows /\ next' = next /\ ret' = ret /\ round' = round
    BY DEF Framed
  <1>3. MatchType => MatchType'
    BY <1>1, <1>2 DEF MatchType
  <1>4. MatchedOn(Index) => (MatchedOn(Index))'
    BY <1>1, <1>2 DEF MatchedOn
  <1>5. ListedOn(next .. ret - 1, Index) => (ListedOn(next .. ret - 1, Index))'
    BY <1>1, <1>2 DEF ListedOn
  <1>6. Slack => Slack'
    BY <1>1, <1>2 DEF Slack, Reduced
  <1> QED BY <1>1, <1>2, <1>3, <1>4, <1>5, <1>6 DEF Seeking, Between

(* The prices give way to the augmentation. *)
LEMMA PricesEnd ==
  ASSUME CostOK, AtPrices, Prices
  PROVE  CostOK' /\ AtAugment'
  <1>1. Seeking /\ Reached(path, j)
    BY DEF AtPrices
  <1>2. pc' = "augment" /\ v' \in [Index -> Int] /\ Slack' /\ (Turning(path, j))'
    BY <1>1, PricesStep
  <1>3. /\ input' = input /\ x' = x /\ y' = y /\ free_rows' = free_rows /\ ret' = ret /\ round' = round
        /\ next' = next /\ path' = path /\ j' = j
    BY DEF Prices
  <1>4. n' = n /\ Index' = Index /\ cost' = cost /\ CostOK'
    BY <1>3, SameMatrix
  <1>5. /\ next \in Nat /\ next < ret /\ MatchType /\ MatchedOn(Index) /\ ListedOn(next .. ret - 1, Index)
    BY <1>1 DEF Seeking
  <1>6. y[j] = None
    BY <1>1 DEF Reached
  <1>7. MatchType'
    BY <1>2, <1>3, <1>4, <1>5 DEF MatchType
  <1>8. (MatchedOn(Index \ {j}))'
    BY <1>3, <1>4, <1>5 DEF MatchedOn
  <1>9. (ListedOn(next .. ret - 1, Index \ {j}))'
    <2>1. ASSUME NEW i \in Index PROVE (\A k \in Index : y[k] # i) <=> (\A k \in Index \ {j} : y[k] # i)
      BY <1>6, NoneOut
    <2> QED BY <1>3, <1>4, <1>5, <2>1 DEF ListedOn
  <1> QED BY <1>2, <1>3, <1>4, <1>5, <1>7, <1>8, <1>9 DEF AtAugment, Augmenting

(* A turn of the augmentation goes on or ends it. *)
LEMMA AugmentStep ==
  ASSUME CostOK, AtAugment, Augment
  PROVE  CostOK' /\ (AtAugment \/ AtPath \/ AtDone)'
  <1>0. Augmenting
    BY DEF AtAugment
  <1>1. CostOK'
    BY SameMatrix DEF Augment
  <1>2. CASE path.pred[j] # FreeRow
    <2>1. pc' = "augment" /\ Augmenting'
      BY <1>0, <1>2, AugmentGoesOn
    <2> QED BY <1>1, <2>1 DEF AtAugment
  <1>3. CASE path.pred[j] = FreeRow
    <2>1. /\ pc' = (IF ret' = 0 THEN "done" ELSE "path") /\ path' = NoPath
          /\ next' \in Nat /\ (ret' = 0 => next' = 0) /\ (ret' # 0 => next' < ret')
          /\ (MatchType /\ MatchedOn(Index) /\ ListedOn(next .. ret - 1, Index) /\ Slack)'
      BY <1>0, <1>3, AugmentEnds
    <2>2. CASE ret' = 0
      BY <1>1, <2>1, <2>2 DEF AtDone, Between
    <2>3. CASE ret' # 0
      <3>1. NoPath' = NoPath
        BY DEF NoPath
      <3> QED BY <1>1, <2>1, <2>3, <3>1 DEF AtPath, Seeking
    <2> QED BY <2>2, <2>3
  <1> QED BY <1>2, <1>3

(* The three steps that only move the search. *)
LEMMA SearchSteps ==
  ASSUME CostOK, \/ AtPath /\ (StartPath \/ Find)
                 \/ AtScan /\ Scan
  PROVE  CostOK' /\ (AtPath \/ AtScan \/ AtPrices)'
  <1>0. Framed
    BY DEF StartPath, Find, Scan, Framed
  <1>1. Seeking
    BY DEF AtPath, AtScan, Scanning
  <1>2. CostOK' /\ Seeking'
    BY <1>0, <1>1, FramedSeeking
  <1>3. /\ pc' = "path" /\ Search(path') /\ path'.lo = path'.hi => AtPath'
        /\ pc' = "scan" /\ Search(path') /\ path'.lo < path'.hi /\ path'.n_ready < path'.hi => AtScan'
        /\ pc' = "prices" /\ Reached(path', j') => AtPrices'
    <2>1. Search(path') => (Search(path))'
      BY <1>0, FramedPath
    <2>2. Reached(path', j') => (Reached(path, j))'
      BY <1>0, FramedPath
    <2> QED BY <1>2, <2>1, <2>2 DEF AtPath, AtScan, AtPrices, Scanning
  <1>4. CASE AtPath /\ StartPath
    <2>1. pc' = "path" /\ Search(path') /\ path'.lo = path'.hi
      BY <1>1, <1>4, StartStep
    <2> QED BY <1>2, <1>3, <2>1
  <1>5. CASE AtPath /\ Find
    <2>1. Search(path) /\ path.lo = path.hi
      BY <1>5 DEF AtPath, Find
    <2>2. \/ pc' = "scan" /\ Search(path') /\ path'.lo < path'.hi /\ path'.n_ready = path'.lo
          \/ pc' = "prices" /\ Reached(path', j')
      BY <1>1, <1>5, <2>1, FindStep
    <2> QED BY <1>2, <1>3, <2>2
  <1>6. CASE AtScan /\ Scan
    <2>1. Scanning /\ path.n_ready < path.hi
      BY <1>6 DEF AtScan
    <2>2. \/ pc' = "path" /\ Search(path') /\ path'.lo = path'.hi
          \/ pc' = "scan" /\ Search(path') /\ path'.lo < path'.hi /\ path'.n_ready < path'.hi
          \/ pc' = "prices" /\ Reached(path', j')
      BY <1>6, <2>1, ScanStep
    <2> QED BY <1>2, <1>3, <2>2
  <1> QED BY <1>4, <1>5, <1>6

(* The two reductions before the row reduction. *)
LEMMA ReductionSteps ==
  ASSUME CostOK, round \in Nat, (AtColumn /\ ColumnReduction) \/ (AtTransfer /\ ReductionTransfer)
  PROVE  CostOK' /\ (AtTransfer \/ AtCarr \/ AtPath \/ AtDone)'
  <1>1. CASE AtColumn /\ ColumnReduction
    <2>1. TransferInv' /\ CostOK'
      BY <1>1, ColumnStep
    <2>2. pc' = "transfer" /\ carr' = carr /\ path' = path /\ next' = next
      BY <1>1 DEF ColumnReduction
    <2>3. NoPath' = NoPath /\ NoCarr' = NoCarr
      BY DEF NoPath, NoCarr
    <2> QED BY <1>1, <2>1, <2>2, <2>3 DEF AtTransfer, AtColumn
  <1>2. CASE AtTransfer /\ ReductionTransfer
    <2>1. TransferInv /\ carr = NoCarr /\ path = NoPath /\ next = 0
      BY <1>2 DEF AtTransfer
    <2>2. /\ (MatchType /\ MatchedOn(Index) /\ Slack)' /\ CostOK' /\ ListedOn(0 .. ret - 1, Index)'
      BY <1>2, <2>1, TransferStep
    <2>3. pc' = Phase(ret', 0) /\ carr' = carr /\ path' = path /\ next' = next
      BY <1>2 DEF ReductionTransfer
    <2>4. (Between(0 .. ret - 1))'
      BY <2>2 DEF Between
    <2>5. CostOK'
      BY <2>2
    <2> QED BY <2>1, <2>3, <2>4, <2>5, PhaseStep
  <1> QED BY <1>1, <1>2

(* pc tells which part of the invariant holds. *)
LEMMA PhaseHolds ==
  ASSUME LapjvIInv
  PROVE  /\ pc = "ccrrt" => AtColumn
         /\ pc = "transfer" => AtTransfer
         /\ pc = "carr" => AtCarr
         /\ pc = "path" => AtPath
         /\ pc = "scan" => AtScan
         /\ pc = "prices" => AtPrices
         /\ pc = "augment" => AtAugment
         /\ pc = "done" => AtDone
  <1>1. /\ AtColumn => pc = "ccrrt"
        /\ AtTransfer => pc = "transfer"
        /\ AtCarr => pc = "carr"
        /\ AtPath => pc = "path"
        /\ AtScan => pc = "scan"
        /\ AtPrices => pc = "prices"
        /\ AtAugment => pc = "augment"
        /\ AtDone => pc = "done"
    BY DEF AtColumn, AtTransfer, AtCarr, AtPath, AtScan, AtPrices, AtAugment, AtDone
  <1> QED BY <1>1 DEF LapjvIInv

(* Every step of the solver keeps the invariant. *)
LEMMA NextStep ==
  ASSUME LapjvIInv, Next
  PROVE  LapjvIInv'
  <1>0. CostOK /\ round \in Nat
    BY DEF LapjvIInv
  <1>a. round' \in Nat
    <2>1. /\ ColumnReduction => round' = round
          /\ ReductionTransfer => round' = round
          /\ Carr => round' = round
      BY DEF ColumnReduction, ReductionTransfer, Carr
    <2>2. CarrReturn => round' = round + 1
      BY DEF CarrReturn
    <2>3. /\ StartPath => round' = round
          /\ Find => round' = round
          /\ Scan => round' = round
      BY DEF StartPath, Find, Scan
    <2>4. /\ Prices => round' = round
          /\ Augment => round' = round
      BY DEF Prices, Augment
    <2> QED BY <1>0, <2>1, <2>2, <2>3, <2>4 DEF Next
  <1>1. CASE ColumnReduction
    <2>1. AtColumn
      BY <1>1, PhaseHolds DEF ColumnReduction
    <2> QED BY <1>0, <1>a, <1>1, <2>1, ReductionSteps DEF LapjvIInv
  <1>2. CASE ReductionTransfer
    <2>1. AtTransfer
      BY <1>2, PhaseHolds DEF ReductionTransfer
    <2> QED BY <1>0, <1>a, <1>2, <2>1, ReductionSteps DEF LapjvIInv
  <1>3. CASE Carr
    <2>1. AtCarr
      BY <1>3, PhaseHolds DEF Carr
    <2>2. MatchType /\ MatchedOn(Index) /\ ListedOn(Live, Index) /\ Slack /\ CarrInv
      BY <2>1 DEF AtCarr, Between
    <2>3. (CostOK /\ MatchType /\ MatchedOn(Index) /\ ListedOn(Live, Index) /\ Slack /\ CarrInv)'
      BY <1>0, <1>3, <2>2, CarrStep
    <2>4. pc' = pc /\ path' = path /\ next' = next /\ NoPath' = NoPath
      BY <1>3 DEF Carr, NoPath
    <2>5. AtCarr'
      BY <2>1, <2>3, <2>4 DEF AtCarr, Between
    <2> QED BY <1>a, <2>3, <2>5 DEF LapjvIInv
  <1>4. CASE CarrReturn
    <2>1. AtCarr
      BY <1>4, PhaseHolds DEF CarrReturn
    <2> QED BY <1>0, <1>a, <1>4, <2>1, CarrReturnStep DEF LapjvIInv
  <1>5. CASE StartPath \/ Find
    <2>1. AtPath
      BY <1>5, PhaseHolds DEF StartPath, Find
    <2> QED BY <1>0, <1>a, <1>5, <2>1, SearchSteps DEF LapjvIInv
  <1>6. CASE Scan
    <2>1. AtScan
      BY <1>6, PhaseHolds DEF Scan
    <2> QED BY <1>0, <1>a, <1>6, <2>1, SearchSteps DEF LapjvIInv
  <1>7. CASE Prices
    <2>1. AtPrices
      BY <1>7, PhaseHolds DEF Prices
    <2> QED BY <1>0, <1>a, <1>7, <2>1, PricesEnd DEF LapjvIInv
  <1>8. CASE Augment
    <2>1. AtAugment
      BY <1>8, PhaseHolds DEF Augment
    <2> QED BY <1>0, <1>a, <1>8, <2>1, AugmentStep DEF LapjvIInv
  <1> QED BY <1>1, <1>2, <1>3, <1>4, <1>5, <1>6, <1>7, <1>8 DEF Next

(* Nor does a step that changes nothing break the invariant. *)
LEMMA StutterKeeps ==
  ASSUME LapjvIInv, UNCHANGED vars
  PROVE  LapjvIInv'
  <1>0. /\ input' = input /\ pc' = pc /\ x' = x /\ y' = y /\ v' = v /\ free_rows' = free_rows /\ ret' = ret
        /\ round' = round /\ carr' = carr /\ next' = next /\ path' = path /\ j' = j
    BY DEF vars
  <1>1. Framed /\ CostOK
    BY <1>0 DEF Framed, LapjvIInv
  <1>2. /\ CostOK' /\ round' = round
        /\ Seeking => Seeking'
        /\ Between(next .. ret - 1) => (Between(next .. ret - 1))'
    BY <1>1, FramedSeeking
  <1>3. (Search(path) => (Search(path))') /\ (Reached(path, j) => (Reached(path, j))')
    BY <1>0, <1>1, FramedPath
  <1>4. n' = n /\ Index' = Index /\ cost' = cost /\ NoCarr' = NoCarr /\ NoPath' = NoPath
    BY <1>0, SameMatrix DEF NoCarr, NoPath
  <1>5. AtColumn => AtColumn'
    BY <1>0, <1>4 DEF AtColumn
  <1>6. AtTransfer => AtTransfer'
    BY <1>0, <1>4 DEF AtTransfer, TransferInv
  <1>7. MatchType => MatchType'
    BY <1>0, <1>4 DEF MatchType
  <1>8. Slack => Slack'
    BY <1>0, <1>4 DEF Slack, Reduced
  <1>9. AtCarr => AtCarr'
    <2>1. MatchedOn(Index) => (MatchedOn(Index))'
      BY <1>0, <1>4 DEF MatchedOn
    <2>2. Live' = Live
      BY <1>0 DEF Live
    <2>3. ListedOn(Live, Index) => (ListedOn(Live, Index))'
      BY <1>0, <1>4, <2>2 DEF ListedOn
    <2>4. CarrInv => CarrInv'
      BY <1>0 DEF CarrInv
    <2> QED BY <1>0, <1>4, <1>7, <1>8, <2>1, <2>3, <2>4 DEF AtCarr, Between
  <1>10. (AtPath => AtPath') /\ (AtScan => AtScan') /\ (AtPrices => AtPrices')
    BY <1>0, <1>2, <1>3, <1>4 DEF AtPath, AtScan, AtPrices, Scanning
  <1>11. AtAugment => AtAugment'
    <2>1. MatchedOn(Index \ {j}) => (MatchedOn(Index \ {j}))'
      BY <1>0, <1>4 DEF MatchedOn
    <2>2. ListedOn(next .. ret - 1, Index \ {j}) => (ListedOn(next .. ret - 1, Index \ {j}))'
      BY <1>0, <1>4 DEF ListedOn
    <2>3. Turning(path, j) => (Turning(path, j))'
      BY <1>0, <1>4, SMTT(60) DEF Turning, Tight, Tree, FreeRow, PathOK, PathSet, Perm, Reduced
    <2> QED BY <1>0, <1>7, <1>8, <2>1, <2>2, <2>3 DEF AtAugment, Augmenting
  <1>12. AtDone => AtDone'
    BY <1>0, <1>2 DEF AtDone
  <1> QED BY <1>0, <1>2, <1>5, <1>6, <1>9, <1>10, <1>11, <1>12 DEF LapjvIInv

(* The matrix of a call has a row and a column. *)
InputOK == input.rows \in Nat \ {0} /\ input.cols \in Nat \ {0}

(* The extended matrix of a call is one of integers, as ByteTrack's costs are. *)
LEMMA InitCost ==
  ASSUME AssignmentInit, solver = "lapjv"
  PROVE  LapjvIInv /\ InputOK
  <1>1. PICK s \in Shapes : \E c \in [0 .. s[1] - 1 -> [0 .. s[2] - 1 -> Costs(s)]] :
                 input = [rows |-> s[1], cols |-> s[2], c |-> c]
    BY DEF AssignmentInit, Init
  <1>2. PICK c \in [0 .. s[1] - 1 -> [0 .. s[2] - 1 -> Costs(s)]] :
                 input = [rows |-> s[1], cols |-> s[2], c |-> c]
    BY <1>1
  <1>3. input.rows = s[1] /\ input.cols = s[2] /\ input.c = c
    BY <1>2
  <1>4. input.rows \in Nat \ {0} /\ input.cols \in Nat \ {0}
    BY <1>1, <1>3, ShapesAssumption
  <1>5. n = input.rows + input.cols /\ n \in Nat /\ n >= 2
    BY <1>4 DEF n
  <1>6. ASSUME NEW i \in 0 .. input.rows - 1, NEW k \in 0 .. input.cols - 1
        PROVE  input.c[i][k] \in Int
    <2>1. input.c[i][k] \in Costs(s)
      BY <1>2, <1>3
    <2>2. Costs(s) \subseteq Int \union {NaN}
      BY <1>1, CostsAssumption
    <2>3. input.c[i][k] # NaN
      <3>1. IsIouCost /\ DOMAIN input.c = 0 .. input.rows - 1
        BY <1>2, <1>3 DEF AssignmentInit
      <3> QED BY <3>1 DEF IsIouCost
    <2> QED BY <2>1, <2>2, <2>3
  <1>7. CostLimit \div 2 \in Int
    BY CostLimitAssumption
  <1>8. ASSUME NEW i \in Index, NEW k \in Index
        PROVE  cost[i][k] \in Int
    <2> DEFINE e == IF i < input.rows /\ k < input.cols THEN input.c[i][k]
                    ELSE IF i >= input.rows /\ k >= input.cols THEN 0
                    ELSE CostLimit \div 2
    <2>1. cost[i][k] = e
      BY DEF cost
    <2>2. CASE i < input.rows /\ k < input.cols
      <3>1. i \in Int /\ k \in Int /\ 0 <= i /\ 0 <= k
        BY <1>5 DEF Index
      <3>2. i \in 0 .. input.rows - 1 /\ k \in 0 .. input.cols - 1
        BY <1>4, <2>2, <3>1
      <3>3. input.c[i][k] \in Int
        BY <1>6, <3>2
      <3> QED BY <2>1, <2>2, <3>3
    <2>3. CASE ~(i < input.rows /\ k < input.cols)
      <3> QED BY <1>7, <2>1, <2>3
    <2> QED BY <2>2, <2>3
  <1>9. cost \in [Index -> [Index -> Int]]
    <2>1. cost = [i \in Index |-> cost[i]] /\ \A i \in Index : cost[i] = [k \in Index |-> cost[i][k]]
      BY DEF cost
    <2> HIDE DEF cost, Index
    <2> QED BY <1>8, <2>1
  <1>10. CostOK
    BY <1>5, <1>9 DEF CostOK
  <1>11. AtColumn /\ round \in Nat
    BY DEF AssignmentInit, Init, AtColumn
  <1> QED BY <1>4, <1>10, <1>11 DEF LapjvIInv, InputOK

(* No step writes the matrix. *)
LEMMA InputKept == Next => input' = input
  <1>1. /\ ColumnReduction => input' = input
        /\ ReductionTransfer => input' = input
        /\ Carr => input' = input
    BY DEF ColumnReduction, ReductionTransfer, Carr
  <1>2. /\ CarrReturn => input' = input
        /\ StartPath => input' = input
        /\ Find => input' = input
        /\ Scan => input' = input
    BY DEF CarrReturn, StartPath, Find, Scan
  <1>3. /\ Prices => input' = input
        /\ Augment => input' = input
    BY DEF Prices, Augment
  <1> QED BY <1>1, <1>2, <1>3 DEF Next

(* Whichever solver runs, Lapjv's variables stay as the invariant says. *)
SolverInv == /\ solver \in {"lapjv", "munkres"}
             /\ solver = "lapjv" => LapjvIInv /\ InputOK
             /\ solver = "munkres" => pc = "ccrrt"

(* Every association starts and stays within the invariant. *)
LEMMA SolverInvariant == AssignmentSpec => []SolverInv
  <1>1. AssignmentInit => SolverInv
    <2> SUFFICES ASSUME AssignmentInit PROVE SolverInv
      OBVIOUS
    <2>1. solver \in {"lapjv", "munkres"} /\ pc = "ccrrt"
      BY DEF AssignmentInit, Init
    <2> QED BY <2>1, InitCost DEF SolverInv
  <1>2. SolverInv /\ [AssignmentNext]_allVars => SolverInv'
    <2> SUFFICES ASSUME SolverInv, [AssignmentNext]_allVars PROVE SolverInv'
      OBVIOUS
    <2>1. CASE Lapjv
      <3>1. solver = "lapjv" /\ solver' = solver /\ Next
        BY <2>1 DEF Lapjv
      <3>2. LapjvIInv' /\ InputOK
        BY <3>1, NextStep DEF SolverInv
      <3>3. InputOK'
        BY <3>1, <3>2, InputKept DEF InputOK
      <3> QED BY <3>1, <3>2, <3>3 DEF SolverInv
    <2>2. CASE Munkres
      <3>1. solver = "munkres" /\ solver' = solver /\ pc' = pc
        BY <2>2 DEF Munkres, lapjvVars
      <3> QED BY <3>1 DEF SolverInv
    <2>3. CASE UNCHANGED allVars
      <3>1. solver' = solver /\ UNCHANGED vars
        BY <2>3 DEF allVars
      <3>2. pc' = pc
        BY <3>1 DEF vars
      <3>3. input' = input
        BY <3>1 DEF vars
      <3> QED BY <3>1, <3>2, <3>3, StutterKeeps DEF SolverInv, InputOK
    <2>4. CASE Return
      <3>1. UNCHANGED allVars
        BY <2>4 DEF Return
      <3> QED BY <2>3, <3>1
    <2> QED BY <2>1, <2>2, <2>3, <2>4 DEF AssignmentNext
  <1> QED BY <1>1, <1>2, PTL DEF AssignmentSpec

(* The number of the live entries of free_rows. *)
LEMMA LiveCount ==
  ASSUME CostOK, MatchType, pc = "carr" => CarrInv, pc # "carr" => next \in Nat /\ next <= ret
  PROVE  /\ IsFiniteSet(Live) /\ Cardinality(Live) = PendingCount
         /\ Live \subseteq Index
  <1>1. ret \in Nat /\ ret <= n /\ n \in Nat
    BY DEF MatchType, CostOK
  <1>2. CASE pc = "carr"
    <2>1. carr.new \in Nat /\ carr.current \in Nat /\ carr.new <= carr.current /\ carr.current <= ret
      BY <1>2 DEF CarrInv
    <2> DEFINE A == 0 .. carr.new - 1
               B == carr.current .. ret - 1
    <2>2. Live = A \union B /\ PendingCount = carr.new + ret - carr.current
      BY <1>2 DEF Live, PendingCount
    <2>3. IsFiniteSet(A) /\ Cardinality(A) = carr.new
      <3>1. 0 \in Int /\ carr.new - 1 \in Int
        BY <2>1
      <3>2. IsFiniteSet(A) /\ Cardinality(A) = IF 0 > carr.new - 1 THEN 0 ELSE carr.new - 1 - 0 + 1
        BY <3>1, FS_Interval
      <3> QED BY <2>1, <3>2
    <2>4. IsFiniteSet(B) /\ Cardinality(B) = ret - carr.current
      <3>1. carr.current \in Int /\ ret - 1 \in Int
        BY <1>1, <2>1
      <3>2. IsFiniteSet(B) /\ Cardinality(B) = IF carr.current > ret - 1 THEN 0 ELSE ret - 1 - carr.current + 1
        BY <3>1, FS_Interval
      <3> QED BY <1>1, <2>1, <3>2
    <2>5. A \cap B = {} /\ A \subseteq 0 .. n - 1 /\ B \subseteq 0 .. n - 1
      BY <1>1, <2>1
    <2>6. IsFiniteSet(A \union B) /\ Cardinality(A \union B) = carr.new + ret - carr.current
      <3> HIDE DEF A, B
      <3>1. IsFiniteSet(A \union B) /\ Cardinality(A \union B) = Cardinality(A) + Cardinality(B) - Cardinality(A \cap B)
        BY <2>3, <2>4, FS_Union
      <3>2. Cardinality(A \cap B) = 0
        BY <2>5, FS_EmptySet
      <3> QED BY <1>1, <2>1, <2>3, <2>4, <3>1, <3>2
    <2> HIDE DEF A, B
    <2> QED BY <2>2, <2>5, <2>6 DEF Index
  <1>3. CASE pc # "carr"
    <2>1. Live = next .. ret - 1 /\ PendingCount = ret - next /\ next \in Nat /\ next <= ret
      BY <1>3 DEF Live, PendingCount
    <2>2. next \in Int /\ ret - 1 \in Int
      BY <1>1, <2>1
    <2>3. IsFiniteSet(next .. ret - 1)
          /\ Cardinality(next .. ret - 1) = IF next > ret - 1 THEN 0 ELSE ret - 1 - next + 1
      BY <2>2, FS_Interval
    <2>4. Cardinality(next .. ret - 1) = ret - next
      BY <1>1, <2>1, <2>3
    <2>5. next .. ret - 1 \subseteq 0 .. n - 1
      BY <1>1, <2>1
    <2> QED BY <2>1, <2>3, <2>4, <2>5 DEF Index
  <1> QED BY <1>2, <1>3

(* The pending rows are the live entries, and there are as many of them. *)
LEMMA PendingIsListed ==
  ASSUME CostOK, MatchType, pc = "carr" => CarrInv, pc # "carr" => next \in Nat /\ next <= ret,
         ListedOn(Live, Index)
  PROVE  /\ Pending = Index \ {y[k] : k \in Index}
         /\ Cardinality(Pending) = PendingCount
  <1>1. Pending = {free_rows[a] : a \in Live}
    <2>1. CASE pc = "carr"
      BY <2>1 DEF Pending, Live
    <2>2. CASE pc # "carr"
      BY <2>2 DEF Pending, Live
    <2> QED BY <2>1, <2>2
  <1>2. IsFiniteSet(Live) /\ Cardinality(Live) = PendingCount
    BY LiveCount
  <1> HIDE DEF Pending, PendingCount, Live
  <1>3. /\ \A a \in Live : free_rows[a] \in Index
        /\ \A a, b \in Live : free_rows[a] = free_rows[b] => a = b
        /\ \A i \in Index : (\E a \in Live : free_rows[a] = i) <=> (\A k \in Index : y[k] # i)
    BY DEF ListedOn
  <1>4. Pending = Index \ {y[k] : k \in Index}
    <2> HIDE DEF Index
    <2> QED BY <1>1, <1>3
  <1> DEFINE f == [a \in Live |-> free_rows[a]]
  <1>5. f \in Surjection(Live, Pending)
    <2>1. f \in [Live -> Pending] /\ \A i \in Pending : \E a \in Live : f[a] = i
      BY <1>1
    <2> HIDE DEF f
    <2> QED BY <2>1 DEF Surjection
  <1>6. f \in Injection(Live, Pending)
    <2>1. f \in [Live -> Pending] /\ \A a, b \in Live : f[a] = f[b] => a = b
      BY <1>1, <1>3
    <2> HIDE DEF f
    <2> QED BY <2>1 DEF Injection, IsInjective
  <1> HIDE DEF f
  <1>7. Cardinality(Pending) = Cardinality(Live)
    BY <1>2, <1>5, <1>6, FS_Surjection
  <1> QED BY <1>2, <1>4, <1>7

(* Wherever LapjvInv speaks, the invariant has it. *)
LEMMA InvariantShows ==
  ASSUME LapjvIInv
  PROVE  LapjvInv
  <1>0. CostOK
    BY DEF LapjvIInv
  <1>1. PricesSupportMatching
    <2>1. pc \notin {"ccrrt", "transfer"} => Slack
      BY DEF LapjvIInv, AtColumn, AtTransfer, AtCarr, AtPath, AtScan, AtPrices, AtAugment, AtDone,
             Between, Seeking, Scanning, Augmenting
    <2> QED BY <2>1 DEF PricesSupportMatching, Slack
  <1>2. NoRowLost
    <2> SUFFICES ASSUME pc \notin {"ccrrt", "transfer", "augment"}
                 PROVE  /\ \A k \in Index : y[k] # None => x[y[k]] = k
                        /\ Pending = Index \ {y[k] : k \in Index}
                        /\ Cardinality(Pending) = PendingCount
      BY DEF NoRowLost
    <2>1. AtCarr \/ AtPath \/ AtScan \/ AtPrices \/ AtDone
      BY DEF LapjvIInv, AtColumn, AtTransfer, AtAugment
    <2>2. /\ MatchType /\ MatchedOn(Index) /\ ListedOn(Live, Index)
          /\ pc = "carr" => CarrInv
          /\ pc # "carr" => next \in Nat /\ next <= ret
      <3>1. CASE AtCarr
        BY <3>1 DEF AtCarr, Between
      <3>2. CASE AtPath \/ AtScan \/ AtPrices
        <4>1. Seeking /\ pc # "carr"
          BY <3>2 DEF AtPath, AtScan, AtPrices, Scanning
        <4>2. Live = next .. ret - 1
          BY <4>1 DEF Live
        <4>3. ret \in Nat
          BY <1>0, <4>1 DEF Seeking, MatchType, CostOK
        <4> QED BY <4>1, <4>2, <4>3 DEF Seeking
      <3>3. CASE AtDone
        <4>1. pc # "carr" /\ next = 0 /\ ret = 0 /\ Between(next .. ret - 1)
          BY <3>3 DEF AtDone
        <4>2. Live = next .. ret - 1
          BY <4>1 DEF Live
        <4> QED BY <4>1, <4>2 DEF Between
      <3> QED BY <2>1, <3>1, <3>2, <3>3
    <2>3. Pending = Index \ {y[k] : k \in Index} /\ Cardinality(Pending) = PendingCount
      BY <1>0, <2>2, PendingIsListed
    <2> QED BY <2>2, <2>3 DEF MatchedOn
  <1> QED BY <1>1, <1>2 DEF LapjvInv

-----------------------------------------------------------------------------
(* lapjv.cpp 13-330: for every matrix, between two changes of the matching  *)
(* the rows without a column are exactly the ones listed in free_rows, each *)
(* once, and in every intermediate state a matched column is one of its     *)
(* row's cheapest under the current prices.                                 *)
THEOREM LapjvKeepsSlackness == AssignmentSpec => []LapjvInv
  <1>1. SolverInv => LapjvInv
    <2> SUFFICES ASSUME SolverInv PROVE LapjvInv
      OBVIOUS
    <2>1. CASE solver = "lapjv"
      BY <2>1, InvariantShows DEF SolverInv
    <2>2. CASE solver = "munkres"
      BY <2>2 DEF SolverInv, LapjvInv, NoRowLost, PricesSupportMatching
    <2> QED BY <2>1, <2>2 DEF SolverInv
  <1> QED BY <1>1, SolverInvariant, PTL

-----------------------------------------------------------------------------
(* Sums over the rows or the columns of the extended matrix. *)

(* W holds the partial sums of w. *)
Adds(W, w) == /\ W \in [0 .. n -> Int] /\ W[0] = 0
              /\ \A k \in 1 .. n : W[k] = W[k - 1] + w[k - 1]
Partial(w) == CHOOSE W : Adds(W, w)
SumOf(w) == Partial(w)[n]

(* The terms of w at the indices in S. *)
Only(S, w) == [k \in Index |-> IF k \in S THEN w[k] ELSE 0]

(* The rows and columns of the extended matrix. *)
SizeOK == n \in Nat /\ n >= 2

(* Positions of the partial sums. *)
LEMMA Positions ==
  ASSUME SizeOK
  PROVE  /\ 0 \in 0 .. n /\ n \in 0 .. n /\ n \in Int /\ 0 \in Int /\ 0 + 1 = 1 /\ Index = 0 .. n - 1
         /\ \A k \in 1 .. n : /\ k \in 0 .. n /\ k - 1 \in 0 .. n /\ k - 1 \in Index /\ k \in Int /\ k # 0
         /\ \A k \in Index : k + 1 \in 1 .. n /\ k + 1 - 1 = k
  <1>1. n \in Nat /\ n >= 2
    BY DEF SizeOK
  <1>2. Index = 0 .. n - 1
    BY DEF Index
  <1> HIDE DEF n, Index
  <1> QED BY <1>1, <1>2

(* Every function of integers has partial sums. *)
LEMMA PartialAdds ==
  ASSUME SizeOK, NEW w \in [Index -> Int]
  PROVE  Adds(Partial(w), w) /\ SumOf(w) \in Int
  <1> DEFINE g == [p \in (0 + 1 .. n) \X Int |-> p[2] + w[p[1] - 1]]
  <1>1. Loop(0, n, Int, 0, g)
    <2>1. n \in Nat
      BY DEF SizeOK
    <2>2. \A p \in (0 + 1 .. n) \X Int : p[1] - 1 \in Index /\ p[2] \in Int
      BY Positions
    <2>3. g \in [(0 + 1 .. n) \X Int -> Int]
      BY <2>2
    <2> HIDE DEF g, n
    <2> QED BY <2>1, <2>3 DEF Loop
  <1>2. PICK W \in [0 .. n -> Int] : W = [k \in 0 .. n |-> IF k = 0 THEN 0 ELSE g[<<k, W[k - 1]>>]]
    <2> HIDE DEF g
    <2> QED BY <1>1, RecursionExists
  <1>3. Adds(W, w)
    <2>1. W[0] = 0
      BY <1>2, Positions
    <2>2. ASSUME NEW k \in 1 .. n PROVE W[k] = W[k - 1] + w[k - 1]
      <3>1. k \in 0 .. n /\ k - 1 \in 0 .. n /\ k # 0
        BY Positions
      <3>2. W[k - 1] \in Int
        BY <1>2, <3>1
      <3>3. <<k, W[k - 1]>> \in (0 + 1 .. n) \X Int
        BY <3>2
      <3>4. W[k] = g[<<k, W[k - 1]>>]
        <4> HIDE DEF g
        <4> QED BY <1>2, <3>1
      <3> QED BY <3>3, <3>4
    <2> QED BY <1>2, <2>1, <2>2 DEF Adds
  <1>4. Adds(Partial(w), w)
    <2> HIDE DEF Adds
    <2> QED BY <1>3 DEF Partial
  <1> QED BY <1>4, Positions DEF Adds, SumOf

(* The sum of sums is the sum of both. *)
LEMMA SumAdds ==
  ASSUME SizeOK, NEW a \in [Index -> Int], NEW b \in [Index -> Int], NEW c \in [Index -> Int],
         \A k \in Index : c[k] = a[k] + b[k]
  PROVE  SumOf(c) = SumOf(a) + SumOf(b)
  <1> DEFINE A == Partial(a)
             B == Partial(b)
             C == Partial(c)
             G == {k \in 0 .. n : C[k] = A[k] + B[k]}
  <1>1. Adds(A, a) /\ Adds(B, b) /\ Adds(C, c)
    BY PartialAdds
  <1> HIDE DEF A, B, C
  <1>2. 0 \in G
    BY <1>1, Positions DEF Adds
  <1>3. ASSUME NEW k \in 1 .. n, k - 1 \in G PROVE k \in G
    <2>1. k \in 0 .. n /\ k - 1 \in 0 .. n /\ k - 1 \in Index
      BY Positions
    <2>2. C[k] = C[k - 1] + c[k - 1] /\ A[k] = A[k - 1] + a[k - 1] /\ B[k] = B[k - 1] + b[k - 1]
      BY <1>1 DEF Adds
    <2>3. A[k - 1] \in Int /\ B[k - 1] \in Int /\ a[k - 1] \in Int /\ b[k - 1] \in Int
      BY <1>1, <2>1 DEF Adds
    <2>4. C[k - 1] = A[k - 1] + B[k - 1] /\ c[k - 1] = a[k - 1] + b[k - 1]
      BY <1>3, <2>1
    <2> QED BY <2>1, <2>2, <2>3, <2>4
  <1> HIDE DEF G
  <1>4. n \in G
    BY <1>2, <1>3, Positions, IntervalInduction DEF Inductive
  <1> QED BY <1>4 DEF G, A, B, C, SumOf

(* Terms that are no larger have a sum that is no larger. *)
LEMMA SumGrows ==
  ASSUME SizeOK, NEW a \in [Index -> Int], NEW b \in [Index -> Int],
         \A k \in Index : a[k] <= b[k]
  PROVE  SumOf(a) <= SumOf(b)
  <1> DEFINE A == Partial(a)
             B == Partial(b)
             G == {k \in 0 .. n : A[k] <= B[k]}
  <1>1. Adds(A, a) /\ Adds(B, b)
    BY PartialAdds
  <1> HIDE DEF A, B
  <1>2. 0 \in G
    BY <1>1, Positions DEF Adds
  <1>3. ASSUME NEW k \in 1 .. n, k - 1 \in G PROVE k \in G
    <2>1. k \in 0 .. n /\ k - 1 \in 0 .. n /\ k - 1 \in Index
      BY Positions
    <2>2. A[k] = A[k - 1] + a[k - 1] /\ B[k] = B[k - 1] + b[k - 1]
      BY <1>1 DEF Adds
    <2>3. A[k - 1] \in Int /\ B[k - 1] \in Int /\ a[k - 1] \in Int /\ b[k - 1] \in Int
      BY <1>1, <2>1 DEF Adds
    <2>4. A[k - 1] <= B[k - 1] /\ a[k - 1] <= b[k - 1]
      BY <1>3, <2>1
    <2> QED BY <2>1, <2>2, <2>3, <2>4
  <1> HIDE DEF G
  <1>4. n \in G
    BY <1>2, <1>3, Positions, IntervalInduction DEF Inductive
  <1> QED BY <1>4 DEF G, A, B, SumOf

(* A single term is its own sum. *)
LEMMA SumSingle ==
  ASSUME SizeOK, NEW w \in [Index -> Int], NEW p \in Index, \A k \in Index : k # p => w[k] = 0
  PROVE  SumOf(w) = w[p]
  <1> DEFINE W == Partial(w)
             G == {k \in 0 .. n : W[k] = IF k > p THEN w[p] ELSE 0}
  <1>1. Adds(W, w)
    BY PartialAdds
  <1> HIDE DEF W
  <1>2. p \in Int /\ 0 <= p /\ p < n /\ w[p] \in Int
    BY DEF SizeOK, Index
  <1>3. 0 \in G
    BY <1>1, <1>2, Positions DEF Adds
  <1>4. ASSUME NEW k \in 1 .. n, k - 1 \in G PROVE k \in G
    <2>1. k \in 0 .. n /\ k - 1 \in 0 .. n /\ k - 1 \in Index /\ k \in Int
      BY Positions
    <2>2. W[k] = W[k - 1] + w[k - 1] /\ W[k - 1] = IF k - 1 > p THEN w[p] ELSE 0
      BY <1>1, <1>4 DEF Adds
    <2>3. CASE k - 1 = p
      BY <1>2, <2>1, <2>2, <2>3
    <2>4. CASE k - 1 # p
      <3>1. w[k - 1] = 0
        BY <2>1, <2>4
      <3>2. k - 1 > p <=> k > p
        BY <1>2, <2>1, <2>4
      <3> QED BY <1>2, <2>1, <2>2, <3>1, <3>2
    <2> QED BY <2>3, <2>4
  <1> HIDE DEF G
  <1>5. n \in G
    BY <1>3, <1>4, Positions, IntervalInduction DEF Inductive
  <1> QED BY <1>2, <1>5 DEF G, W, SumOf

(* Zeros add up to zero. *)
LEMMA SumNothing ==
  ASSUME SizeOK, NEW w \in [Index -> Int], \A k \in Index : w[k] = 0
  PROVE  SumOf(w) = 0
  <1>1. 0 \in Index
    <2>1. n \in Nat /\ n >= 2
      BY DEF SizeOK
    <2> QED BY <2>1, Positions
  <1> QED BY <1>1, SumSingle

(* Terms that are e at the indices in S and zero elsewhere. *)
Repeated(S, e) == [k \in Index |-> IF k \in S THEN e ELSE 0]

(* The indices are finitely many. *)
LEMMA IndexFinite ==
  ASSUME SizeOK
  PROVE  /\ IsFiniteSet(Index) /\ Cardinality(Index) = n
         /\ \A S \in SUBSET Index : IsFiniteSet(S) /\ Cardinality(S) \in Nat
  <1>1. n \in Nat /\ n >= 2
    BY DEF SizeOK
  <1>2. IsFiniteSet(0 .. n - 1) /\ Cardinality(0 .. n - 1) = IF 0 > n - 1 THEN 0 ELSE (n - 1) - 0 + 1
    <2>1. 0 \in Int /\ n - 1 \in Int
      BY <1>1
    <2> HIDE DEF n
    <2> QED BY <2>1, FS_Interval
  <1>3. IsFiniteSet(Index) /\ Cardinality(Index) = n
    <2>1. Index = 0 .. n - 1
      BY Positions
    <2> HIDE DEF n, Index
    <2> QED BY <1>1, <1>2, <2>1
  <1>4. \A S \in SUBSET Index : IsFiniteSet(S) /\ Cardinality(S) \in Nat
    <2> HIDE DEF Index
    <2> QED BY <1>3, FS_Subset, FS_CardinalityType
  <1> QED BY <1>3, <1>4

(* So many terms e have the sum e times their number. *)
LEMMA SumRepeated ==
  ASSUME SizeOK, NEW S \in SUBSET Index, NEW e \in Int
  PROVE  Repeated(S, e) \in [Index -> Int] /\ SumOf(Repeated(S, e)) = e * Cardinality(S)
  <1> DEFINE w == Repeated(S, e)
             W == Partial(w)
             Upto(k) == {l \in S : l < k}
             G == {k \in 0 .. n : W[k] = e * Cardinality(Upto(k))}
  <1>0. w \in [Index -> Int] /\ \A k \in Index : w[k] = IF k \in S THEN e ELSE 0
    BY DEF Repeated
  <1>1. Adds(W, w)
    <2> HIDE DEF w
    <2> QED BY <1>0, PartialAdds
  <1> HIDE DEF W, w
  <1>2. \A l \in S : l \in Int /\ 0 <= l /\ l < n
    BY DEF SizeOK, Index
  <1>3. \A k : IsFiniteSet(Upto(k)) /\ Cardinality(Upto(k)) \in Nat
    <2>1. \A k : Upto(k) \in SUBSET Index
      OBVIOUS
    <2> HIDE DEF Upto
    <2> QED BY <2>1, IndexFinite
  <1>4. 0 \in G
    <2>1. Upto(0) = {}
      BY <1>2
    <2>2. Cardinality(Upto(0)) = 0
      BY <2>1, FS_EmptySet
    <2>3. e * 0 = 0
      OBVIOUS
    <2> HIDE DEF Upto
    <2> QED BY <1>1, <2>2, <2>3, Positions DEF Adds
  <1>5. ASSUME NEW k \in 1 .. n, k - 1 \in G PROVE k \in G
    <2>1. k \in 0 .. n /\ k - 1 \in 0 .. n /\ k - 1 \in Index /\ k \in Int
      BY Positions
    <2>2. W[k] = W[k - 1] + w[k - 1] /\ W[k - 1] = e * Cardinality(Upto(k - 1))
      BY <1>1, <1>5 DEF Adds
    <2>3. W[k - 1] \in Int
      BY <1>1, <2>1 DEF Adds
    <2>4. CASE k - 1 \in S
      <3>1. Upto(k) = Upto(k - 1) \union {k - 1} /\ k - 1 \notin Upto(k - 1)
        BY <1>2, <2>1, <2>4
      <3>2. Cardinality(Upto(k)) = Cardinality(Upto(k - 1)) + 1
        <4> HIDE DEF Upto
        <4> QED BY <1>3, <3>1, FS_AddElement
      <3> DEFINE c == Cardinality(Upto(k - 1))
      <3>3. c \in Nat /\ Cardinality(Upto(k)) = c + 1 /\ W[k - 1] = e * c /\ w[k - 1] = e
        BY <1>0, <1>3, <2>1, <2>2, <2>4, <3>2
      <3> HIDE DEF c
      <3>4. e * (c + 1) = e * c + e
        BY <3>3
      <3>5. W[k] = e * (c + 1)
        BY <2>2, <3>3, <3>4
      <3> HIDE DEF Upto
      <3> QED BY <2>1, <3>3, <3>5
    <2>5. CASE k - 1 \notin S
      <3>1. Upto(k) = Upto(k - 1)
        <4>1. \A l \in S : l < k <=> l < k - 1
          BY <1>2, <2>1, <2>5
        <4> QED BY <4>1
      <3>2. w[k - 1] = 0
        BY <1>0, <2>1, <2>5
      <3> HIDE DEF Upto
      <3> QED BY <2>1, <2>2, <2>3, <3>1, <3>2
    <2> QED BY <2>4, <2>5
  <1>6. Upto(n) = S
    BY <1>2
  <1> HIDE DEF G, Upto
  <1>7. n \in G
    BY <1>4, <1>5, Positions, IntervalInduction DEF Inductive
  <1>8. SumOf(w) = e * Cardinality(S)
    BY <1>6, <1>7 DEF G, W, SumOf
  <1> QED BY <1>0, <1>8 DEF w

(* A permutation does not change the sum. *)
LEMMA SumPermuted ==
  ASSUME SizeOK, NEW g, Perm(g), NEW w \in [Index -> Int], NEW u \in [Index -> Int],
         \A k \in Index : u[k] = w[g[k]]
  PROVE  SumOf(u) = SumOf(w)
  <1> DEFINE U == Partial(u)
             Seen(k) == {g[a] : a \in 0 .. k - 1}
             G == {k \in 0 .. n : U[k] = SumOf(Only(Seen(k), w))}
  <1>1. Adds(U, u)
    BY PartialAdds
  <1> HIDE DEF U
  <1>2. /\ g \in [Index -> Index] /\ \A a, b \in Index : g[a] = g[b] => a = b
        /\ \A l \in Index : \E k \in Index : g[k] = l
    BY DEF Perm
  <1>3. \A S : Only(S, w) \in [Index -> Int] /\ \A l \in Index : Only(S, w)[l] = IF l \in S THEN w[l] ELSE 0
    BY DEF Only
  <1>4. 0 \in G
    <2>1. Seen(0) = {}
      OBVIOUS
    <2>2. SumOf(Only(Seen(0), w)) = 0
      <3> HIDE DEF Seen
      <3> QED BY <1>3, <2>1, SumNothing
    <2> HIDE DEF Seen
    <2> QED BY <1>1, <2>2, Positions DEF Adds
  <1>5. ASSUME NEW k \in 1 .. n, k - 1 \in G PROVE k \in G
    <2>1. k \in 0 .. n /\ k - 1 \in 0 .. n /\ k - 1 \in Index /\ k \in Int
      BY Positions
    <2>2. U[k] = U[k - 1] + u[k - 1] /\ U[k - 1] = SumOf(Only(Seen(k - 1), w))
      BY <1>1, <1>5 DEF Adds
    <2> DEFINE p == g[k - 1]
               b == Repeated({p}, w[p])
    <2>3. p \in Index /\ u[k - 1] = w[p] /\ w[p] \in Int
      BY <1>2, <2>1
    <2>4. Seen(k) = Seen(k - 1) \union {p} /\ p \notin Seen(k - 1)
      <3>1. 0 .. k - 1 = (0 .. k - 1 - 1) \union {k - 1} /\ \A a \in 0 .. k - 1 - 1 : a \in Index /\ a # k - 1
        <4>1. 1 <= k /\ k <= n /\ n \in Int /\ Index = 0 .. n - 1
          BY Positions
        <4> QED BY <2>1, <4>1
      <3> QED BY <1>2, <2>1, <3>1
    <2>5. b \in [Index -> Int] /\ \A l \in Index : b[l] = IF l = p THEN w[p] ELSE 0
      BY <2>3 DEF Repeated
    <2> HIDE DEF p, b, Seen
    <2>6. SumOf(b) = w[p]
      BY <2>3, <2>5, SumSingle
    <2>7. \A l \in Index : Only(Seen(k), w)[l] = Only(Seen(k - 1), w)[l] + b[l]
      <3> SUFFICES ASSUME NEW l \in Index PROVE Only(Seen(k), w)[l] = Only(Seen(k - 1), w)[l] + b[l]
        OBVIOUS
      <3>1. w[l] \in Int
        OBVIOUS
      <3> QED BY <1>3, <2>4, <2>5, <3>1
    <2>8. SumOf(Only(Seen(k), w)) = SumOf(Only(Seen(k - 1), w)) + SumOf(b)
      BY <1>3, <2>5, <2>7, SumAdds
    <2> QED BY <2>1, <2>2, <2>3, <2>6, <2>8
  <1>6. \A l \in Index : l \in Seen(n)
    BY <1>2, Positions
  <1> HIDE DEF G, Seen
  <1>7. n \in G
    BY <1>4, <1>5, Positions, IntervalInduction DEF Inductive
  <1>8. Only(Seen(n), w) = w
    <2>1. Only(Seen(n), w) = [l \in Index |-> Only(Seen(n), w)[l]] /\ w = [l \in Index |-> w[l]]
      BY <1>3
    <2>2. \A l \in Index : Only(Seen(n), w)[l] = w[l]
      BY <1>3, <1>6
    <2> QED BY <1>3, <2>2
  <1> QED BY <1>7, <1>8 DEF G, U, SumOf

-----------------------------------------------------------------------------
(* What a matching of tracks and detections costs. *)

(* The cost of what f gives the rows in T. *)
Picked(f, T) == [k \in Index |-> IF k \in T THEN input.c[k][f[k]] ELSE 0]

(* The sum of Total is the sum of these terms. *)
LEMMA SumPicked ==
  ASSUME CostOK, NEW T \in SUBSET Index, NEW f, \A i \in T : input.c[i][f[i]] \in Int
  PROVE  /\ Picked(f, T) \in [Index -> Int]
         /\ MapThenSumSet(LAMBDA i : input.c[i][f[i]], T) = SumOf(Picked(f, T))
  <1> SizeOK
    BY DEF CostOK, SizeOK
  <1> DEFINE Any(s) == CHOOSE i \in s : TRUE
             Term(i) == input.c[i][f[i]]
             Rec(h) == h = [s \in SUBSET T |-> IF s = {} THEN 0 ELSE Term(Any(s)) + h[s \ {Any(s)}]]
             iter == CHOOSE h : Rec(h)
             F == [s \in SUBSET T |-> SumOf(Picked(f, s))]
  <1>1. MapThenSumSet(LAMBDA i : input.c[i][f[i]], T) = iter[T]
    BY DEF MapThenSumSet, MapThenFoldSet
  <1>2. ASSUME NEW s \in SUBSET T
        PROVE  /\ Picked(f, s) \in [Index -> Int]
               /\ \A k \in Index : Picked(f, s)[k] = IF k \in s THEN Term(k) ELSE 0
    BY DEF Picked
  <1>3. ASSUME NEW s \in SUBSET T, s # {}
        PROVE  /\ Any(s) \in s /\ s \ {Any(s)} \in SUBSET T
               /\ SumOf(Picked(f, s)) = Term(Any(s)) + SumOf(Picked(f, s \ {Any(s)}))
    <2> DEFINE p == Any(s)
               r == s \ {p}
               b == Repeated({p}, Term(p))
    <2>1. p \in s /\ p \in Index /\ r \in SUBSET T /\ Term(p) \in Int
      BY <1>3
    <2>2. b \in [Index -> Int] /\ \A k \in Index : b[k] = IF k = p THEN Term(p) ELSE 0
      BY <2>1 DEF Repeated
    <2>3. \A k \in Index : k \in s <=> (k \in r \/ k = p)
      BY <2>1
    <2>4. p \notin r
      OBVIOUS
    <2> HIDE DEF p, r, b
    <2>5. SumOf(b) = Term(p)
      BY <2>1, <2>2, SumSingle
    <2>6. /\ Picked(f, s) \in [Index -> Int] /\ Picked(f, r) \in [Index -> Int]
          /\ \A k \in Index : Picked(f, s)[k] = (IF k \in s THEN Term(k) ELSE 0)
                               /\ Picked(f, r)[k] = (IF k \in r THEN Term(k) ELSE 0)
      BY <1>2, <2>1
    <2>7. \A k \in Index : Picked(f, s)[k] = b[k] + Picked(f, r)[k]
      <3> SUFFICES ASSUME NEW k \in Index PROVE Picked(f, s)[k] = b[k] + Picked(f, r)[k]
        OBVIOUS
      <3>1. CASE k = p
        BY <2>1, <2>2, <2>3, <2>4, <2>6, <3>1
      <3>2. CASE k # p
        <4>1. Picked(f, r)[k] \in Int /\ b[k] = 0 /\ Picked(f, s)[k] = Picked(f, r)[k]
          BY <2>2, <2>3, <2>6, <3>2
        <4> QED BY <4>1
      <3> QED BY <3>1, <3>2
    <2>8. SumOf(Picked(f, s)) = SumOf(b) + SumOf(Picked(f, r))
      BY <2>2, <2>6, <2>7, SumAdds
    <2> QED BY <2>1, <2>5, <2>8 DEF p, r
  <1>4. SumOf(Picked(f, {})) = 0
    <2>1. {} \in SUBSET T
      OBVIOUS
    <2> QED BY <1>2, <2>1, SumNothing
  <1> HIDE DEF Term, Any
  <1>5. Rec(F)
    <2>1. ASSUME NEW s \in SUBSET T
          PROVE  F[s] = IF s = {} THEN 0 ELSE Term(Any(s)) + F[s \ {Any(s)}]
      BY <1>3, <1>4
    <2>2. F = [s \in SUBSET T |-> F[s]]
      OBVIOUS
    <2> HIDE DEF F
    <2> QED BY <2>1, <2>2
  <1>6. Rec(iter)
    <2> HIDE DEF Rec, F
    <2> QED BY <1>5
  <1> HIDE DEF iter
  <1>7. \A s \in SUBSET T : iter[s] = IF s = {} THEN 0 ELSE Term(Any(s)) + iter[s \ {Any(s)}]
    BY <1>6
  <1>8. \A s \in SUBSET T : IsFiniteSet(s) /\ Cardinality(s) \in Nat
    BY IndexFinite
  <1> DEFINE m == Cardinality(T)
             G == {k \in 0 .. m : \A s \in SUBSET T : Cardinality(s) = k => iter[s] = SumOf(Picked(f, s))}
  <1>9. m \in Nat
    BY <1>8
  <1>10. 0 \in G
    <2>1. ASSUME NEW s \in SUBSET T, Cardinality(s) = 0 PROVE iter[s] = SumOf(Picked(f, s))
      <3>1. s = {}
        BY <1>8, <2>1, FS_EmptySet
      <3> QED BY <1>4, <1>7, <3>1
    <2> HIDE DEF m
    <2> QED BY <1>9, <2>1
  <1>11. ASSUME NEW k \in 0 + 1 .. m, k - 1 \in G PROVE k \in G
    <2>1. ASSUME NEW s \in SUBSET T, Cardinality(s) = k PROVE iter[s] = SumOf(Picked(f, s))
      <3>1. s # {}
        BY <2>1, FS_EmptySet
      <3>2. Any(s) \in s /\ s \ {Any(s)} \in SUBSET T
            /\ SumOf(Picked(f, s)) = Term(Any(s)) + SumOf(Picked(f, s \ {Any(s)}))
        BY <1>3, <3>1
      <3>3. Cardinality(s \ {Any(s)}) = k - 1
        BY <1>8, <2>1, <3>2, FS_RemoveElement
      <3>4. iter[s \ {Any(s)}] = SumOf(Picked(f, s \ {Any(s)}))
        BY <1>11, <3>2, <3>3
      <3>5. iter[s] = Term(Any(s)) + iter[s \ {Any(s)}]
        BY <1>7, <3>1
      <3> QED BY <3>2, <3>4, <3>5
    <2>2. k \in 0 .. m
      <3> HIDE DEF m
      <3> QED BY <1>9
    <2> QED BY <2>1, <2>2
  <1>12. m \in G
    <2> HIDE DEF G, m
    <2>1. 0 \in Int /\ m \in Int /\ m \in 0 .. m
      BY <1>9
    <2> QED BY <1>10, <1>11, <2>1, IntervalInduction DEF Inductive
  <1>13. T \in SUBSET T /\ Cardinality(T) = m
    OBVIOUS
  <1>14. iter[T] = SumOf(Picked(f, T))
    <2> HIDE DEF m
    <2> QED BY <1>12, <1>13
  <1> QED BY <1>1, <1>2, <1>13, <1>14

Half == CostLimit \div 2

(* The corners of the extended matrix. *)
LEMMA Corners ==
  ASSUME CostOK, InputOK
  PROVE  /\ n = input.rows + input.cols /\ Half \in Int /\ CostLimit = 2 * Half
         /\ \A i \in 0 .. input.rows - 1 : i \in Index /\ i \in Int /\ 0 <= i /\ i < input.rows
         /\ \A k \in 0 .. input.cols - 1 : k \in Index /\ k \in Int /\ 0 <= k /\ k < input.cols
         /\ \A i \in Index : i < input.rows => i \in 0 .. input.rows - 1
         /\ \A k \in Index : k < input.cols => k \in 0 .. input.cols - 1
         /\ \A i, k \in Index :
               cost[i][k] = IF i < input.rows /\ k < input.cols THEN input.c[i][k]
                            ELSE IF i >= input.rows /\ k >= input.cols THEN 0
                            ELSE Half
  <1>1. n = input.rows + input.cols
    BY DEF n
  <1>2. Half \in Int /\ CostLimit = 2 * Half
    <2>1. ASSUME NEW a \in Nat, a % 2 = 0 PROVE a \div 2 \in Int
      BY <2>1
    <2>2. ASSUME NEW a \in Nat, a % 2 = 0 PROVE a = 2 * (a \div 2)
      BY <2>2
    <2>3. CostLimit \in Nat /\ CostLimit % 2 = 0
      BY CostLimitAssumption
    <2>4. CostLimit \div 2 \in Int /\ CostLimit = 2 * (CostLimit \div 2)
      BY <2>1, <2>2, <2>3, Zenon
    <2> QED BY <2>4 DEF Half
  <1>3. input.rows \in Nat /\ input.cols \in Nat
    BY DEF InputOK
  <1>4. Index = 0 .. input.rows + input.cols - 1
    <2>1. Index = 0 .. n - 1
      BY DEF Index
    <2> QED BY <1>1, <1>3, <2>1
  <1>5. \A i, k \in Index :
               cost[i][k] = IF i < input.rows /\ k < input.cols THEN input.c[i][k]
                            ELSE IF i >= input.rows /\ k >= input.cols THEN 0
                            ELSE Half
    BY DEF cost, Half
  <1> QED BY <1>1, <1>2, <1>3, <1>4, <1>5

(* What a permutation of the extended matrix says of tracks and detections. *)
Truncated(g) == [i \in 0 .. input.rows - 1 |-> IF g[i] >= input.cols THEN None ELSE g[i]]

(* The costs on a permutation. *)
Along(g) == [i \in Index |-> cost[i][g[i]]]

(* The costs on a permutation add up to those of the matching: the corner   *)
(* of zeros takes up what the halves of the limit leave.                    *)
LEMMA PermTotal ==
  ASSUME CostOK, InputOK, NEW g, Perm(g)
  PROVE  Along(g) \in [Index -> Int] /\ Total(Truncated(g)) = SumOf(Along(g))
  <1> SizeOK
    BY DEF CostOK, SizeOK
  <1> DEFINE f == Truncated(g)
             R == 0 .. input.rows - 1
             C == 0 .. input.cols - 1
             Pairs == {i \in R : g[i] < input.cols}
             Into == {i \in Index : g[i] < input.cols}
             w == Repeated(C, Half)
  <1>1. g \in [Index -> Index]
    BY DEF Perm
  <1>2. /\ n = input.rows + input.cols /\ Half \in Int /\ CostLimit = 2 * Half
        /\ \A i \in R : i \in Index /\ i \in Int /\ 0 <= i /\ i < input.rows
        /\ \A k \in C : k \in Index /\ k \in Int /\ 0 <= k /\ k < input.cols
        /\ \A i \in Index : i < input.rows => i \in R
        /\ \A k \in Index : k < input.cols => k \in C
    BY Corners
  <1>3. ASSUME NEW i \in Index
        PROVE  /\ g[i] \in Index /\ g[i] \in Int /\ g[i] # None /\ i \in Int
               /\ cost[i][g[i]] \in Int
               /\ cost[i][g[i]] = IF i < input.rows /\ g[i] < input.cols THEN input.c[i][g[i]]
                                  ELSE IF i >= input.rows /\ g[i] >= input.cols THEN 0
                                  ELSE Half
    <2>1. g[i] \in Index
      BY <1>1
    <2> QED BY <2>1, NoneOut, Corners DEF CostOK
  <1>4. /\ \A i \in R : f[i] = IF g[i] >= input.cols THEN None ELSE g[i]
        /\ DOMAIN f = R
    BY DEF Truncated
  <1>5. input.rows \in Nat /\ input.cols \in Nat /\ input.rows # 0 /\ input.cols # 0
    BY DEF InputOK
  <1>6. {i \in DOMAIN f : f[i] # None} = Pairs
    <2>1. \A i \in R : f[i] # None <=> g[i] < input.cols
      <3> SUFFICES ASSUME NEW i \in R PROVE f[i] # None <=> g[i] < input.cols
        OBVIOUS
      <3>1. i \in Index /\ g[i] \in Int /\ g[i] # None
        BY <1>2, <1>3
      <3>2. f[i] = IF g[i] >= input.cols THEN None ELSE g[i]
        BY <1>4
      <3> HIDE DEF f
      <3> QED BY <1>5, <3>1, <3>2
    <2> QED BY <1>4, <2>1
  <1>7. \A i \in Pairs : i \in Index /\ i < input.rows /\ f[i] = g[i] /\ g[i] < input.cols
    <2> SUFFICES ASSUME NEW i \in R, g[i] < input.cols
                 PROVE  i \in Index /\ i < input.rows /\ f[i] = g[i]
      OBVIOUS
    <2>1. i \in Index /\ i < input.rows /\ g[i] \in Int
      BY <1>2, <1>3
    <2>2. f[i] = IF g[i] >= input.cols THEN None ELSE g[i]
      BY <1>4
    <2> HIDE DEF f
    <2> QED BY <1>5, <2>1, <2>2
  <1>8. R \in SUBSET Index /\ C \in SUBSET Index /\ Pairs \in SUBSET Index /\ Into \in SUBSET Index
    BY <1>2
  <1>9. Cardinality(R) = input.rows /\ Cardinality(C) = input.cols
    <2>1. 0 \in Int /\ input.rows - 1 \in Int /\ input.cols - 1 \in Int
      BY <1>5
    <2>2. /\ Cardinality(R) = IF 0 > input.rows - 1 THEN 0 ELSE input.rows - 1 - 0 + 1
          /\ Cardinality(C) = IF 0 > input.cols - 1 THEN 0 ELSE input.cols - 1 - 0 + 1
      BY <2>1, FS_Interval
    <2> QED BY <1>5, <2>2
  <1>10. Cardinality(Pairs) \in Nat
    BY <1>8, IndexFinite
  <1> DEFINE p1 == Picked(f, Pairs)
             p2 == Repeated(R, Half)
             p3 == Repeated(Into, Half)
             p4 == Repeated(Pairs, -2 * Half)
  <1>11. p1 \in [Index -> Int] /\ MapThenSumSet(LAMBDA i : input.c[i][f[i]], Pairs) = SumOf(p1)
    <2>1. \A i \in Pairs : input.c[i][f[i]] \in Int
      <3> SUFFICES ASSUME NEW i \in Pairs PROVE input.c[i][f[i]] \in Int
        OBVIOUS
      <3>1. i \in Index /\ i < input.rows /\ f[i] = g[i] /\ g[i] < input.cols
        BY <1>7
      <3> HIDE DEF f, Pairs
      <3> QED BY <1>3, <3>1
    <2> HIDE DEF f, Pairs
    <2> QED BY <1>8, <2>1, SumPicked
  <1>12. p2 \in [Index -> Int] /\ SumOf(p2) = Half * input.rows
    <2> HIDE DEF R
    <2> QED BY <1>2, <1>8, <1>9, SumRepeated
  <1>13. w \in [Index -> Int] /\ SumOf(w) = Half * input.cols
    <2> HIDE DEF C
    <2> QED BY <1>2, <1>8, <1>9, SumRepeated
  <1>14. p3 \in [Index -> Int]
    <2> HIDE DEF Into
    <2> QED BY <1>2, <1>8, SumRepeated
  <1>15. SumOf(p3) = Half * input.cols
    <2>1. \A i \in Index : p3[i] = w[g[i]]
      <3> SUFFICES ASSUME NEW i \in Index PROVE p3[i] = w[g[i]]
        OBVIOUS
      <3>1. g[i] \in Index /\ (g[i] \in C <=> g[i] < input.cols)
        BY <1>2, <1>3
      <3> HIDE DEF C
      <3> QED BY <3>1 DEF Repeated
    <2> HIDE DEF p3, w
    <2> QED BY <1>13, <1>14, <2>1, SumPermuted
  <1>16. p4 \in [Index -> Int] /\ SumOf(p4) = (-2 * Half) * Cardinality(Pairs)
    <2>1. -2 * Half \in Int
      BY <1>2
    <2> HIDE DEF Pairs
    <2> QED BY <1>8, <2>1, SumRepeated
  <1>17. Along(g) \in [Index -> Int] /\ \A i \in Index : Along(g)[i] = cost[i][g[i]]
    BY <1>3 DEF Along
  <1> DEFINE q1 == [i \in Index |-> p1[i] + p2[i]]
             q2 == [i \in Index |-> p3[i] + p4[i]]
  <1>18. ASSUME NEW i \in Index
         PROVE  cost[i][g[i]] = q1[i] + q2[i]
    <2>1. /\ p1[i] = (IF i \in Pairs THEN input.c[i][f[i]] ELSE 0)
          /\ p2[i] = (IF i \in R THEN Half ELSE 0)
          /\ p3[i] = (IF i \in Into THEN Half ELSE 0)
          /\ p4[i] = (IF i \in Pairs THEN -2 * Half ELSE 0)
      BY DEF Picked, Repeated
    <2>2. i \in R <=> i < input.rows
      BY <1>2
    <2>3. /\ i \in Into <=> g[i] < input.cols
          /\ i \in Pairs <=> (i < input.rows /\ g[i] < input.cols)
      BY <2>2
    <2>4. i \in Pairs => f[i] = g[i]
      BY <1>7
    <2>5. q1[i] = p1[i] + p2[i] /\ q2[i] = p3[i] + p4[i]
      OBVIOUS
    <2> HIDE DEF p1, p2, p3, p4, q1, q2, f, Pairs, R, Into
    <2>6. /\ g[i] \in Int /\ i \in Int /\ Half \in Int /\ cost[i][g[i]] \in Int
          /\ cost[i][g[i]] = IF i < input.rows /\ g[i] < input.cols THEN input.c[i][g[i]]
                             ELSE IF i >= input.rows /\ g[i] >= input.cols THEN 0
                             ELSE Half
      BY <1>2, <1>3
    <2>7. CASE i < input.rows /\ g[i] < input.cols
      <3>1. p1[i] = cost[i][g[i]] /\ p2[i] = Half /\ p3[i] = Half /\ p4[i] = -2 * Half
        BY <2>1, <2>2, <2>3, <2>4, <2>6, <2>7
      <3> QED BY <2>5, <2>6, <3>1
    <2>8. CASE i < input.rows /\ ~(g[i] < input.cols)
      <3>1. p1[i] = 0 /\ p2[i] = Half /\ p3[i] = 0 /\ p4[i] = 0
        BY <2>1, <2>2, <2>3, <2>8
      <3>2. cost[i][g[i]] = Half
        BY <1>5, <2>6, <2>8
      <3> QED BY <2>5, <2>6, <3>1, <3>2
    <2>9. CASE ~(i < input.rows) /\ g[i] < input.cols
      <3>1. p1[i] = 0 /\ p2[i] = 0 /\ p3[i] = Half /\ p4[i] = 0
        BY <2>1, <2>2, <2>3, <2>9
      <3>2. cost[i][g[i]] = Half
        BY <1>5, <2>6, <2>9
      <3> QED BY <2>5, <2>6, <3>1, <3>2
    <2>10. CASE ~(i < input.rows) /\ ~(g[i] < input.cols)
      <3>1. p1[i] = 0 /\ p2[i] = 0 /\ p3[i] = 0 /\ p4[i] = 0
        BY <2>1, <2>2, <2>3, <2>10
      <3>2. cost[i][g[i]] = 0
        BY <1>5, <2>6, <2>10
      <3> QED BY <2>5, <3>1, <3>2
    <2> QED BY <2>7, <2>8, <2>9, <2>10
  <1> HIDE DEF p1, p2, p3, p4
  <1>19. /\ q1 \in [Index -> Int] /\ q2 \in [Index -> Int]
         /\ \A i \in Index : q1[i] = p1[i] + p2[i] /\ q2[i] = p3[i] + p4[i]
    BY <1>11, <1>12, <1>14, <1>16
  <1> HIDE DEF q1, q2
  <1>20. /\ SumOf(q1) = SumOf(p1) + SumOf(p2) /\ SumOf(q2) = SumOf(p3) + SumOf(p4)
    BY <1>11, <1>12, <1>14, <1>16, <1>19, SumAdds
  <1>21. SumOf(Along(g)) = SumOf(q1) + SumOf(q2)
    BY <1>17, <1>18, <1>19, SumAdds
  <1>22. SumOf(p1) \in Int
    BY <1>11, PartialAdds
  <1>23. Total(f) = SumOf(p1) + Half * (input.rows + input.cols - 2 * Cardinality(Pairs))
    <2>1. Total(f) = MapThenSumSet(LAMBDA i : input.c[i][f[i]], {i \in DOMAIN f : f[i] # None})
                       + (CostLimit \div 2) * (input.rows + input.cols - 2 * Cardinality({i \in DOMAIN f : f[i] # None}))
      BY DEF Total
    <2> HIDE DEF f, Pairs
    <2> QED BY <1>6, <1>11, <2>1 DEF Half
  <1> HIDE DEF f, Pairs
  <1>24. Total(f) = SumOf(Along(g))
    <2>1. ASSUME NEW h \in Int, NEW r \in Int, NEW c \in Int, NEW m \in Int, NEW s \in Int
          PROVE  (s + h * r) + (h * c + (-2 * h) * m) = s + h * (r + c - 2 * m)
      OBVIOUS
    <2>2. SumOf(Along(g)) = (SumOf(p1) + Half * input.rows) + (Half * input.cols + (-2 * Half) * Cardinality(Pairs))
      BY <1>12, <1>15, <1>16, <1>20, <1>21
    <2>3. input.rows \in Int /\ input.cols \in Int /\ Cardinality(Pairs) \in Int
      BY <1>5, <1>10
    <2> QED BY <1>2, <1>22, <1>23, <2>1, <2>2, <2>3
  <1> QED BY <1>17, <1>24 DEF f

(* A map of the indices onto themselves is a permutation. *)
LEMMA OntoIsPerm ==
  ASSUME CostOK, NEW g \in [Index -> Index], \A l \in Index : \E k \in Index : g[k] = l
  PROVE  Perm(g)
  <1> SizeOK
    BY DEF CostOK, SizeOK
  <1>1. g \in Surjection(Index, Index)
    <2> HIDE DEF Index
    <2> QED BY DEF Surjection
  <1>2. g \in Injection(Index, Index)
    <2> HIDE DEF Index
    <2> QED BY <1>1, IndexFinite, FS_Surjection
  <1>3. \A a, b \in Index : g[a] = g[b] => a = b
    <2> HIDE DEF Index
    <2> QED BY <1>2 DEF Injection, IsInjective
  <1> QED BY <1>3 DEF Perm

(* The row that f gives to column k. *)
Owner(f, k) == CHOOSE a \in 0 .. input.rows - 1 : f[a] = k

(* A matching as a permutation of the extended matrix: an unmatched row i    *)
(* goes to its own extra column, as does the extra row of its column if it   *)
(* is matched; the extra row of an unmatched column takes that column.       *)
Extended(f) ==
    [i \in Index |->
       IF i < input.rows THEN IF f[i] = None THEN input.cols + i ELSE f[i]
       ELSE IF \E a \in 0 .. input.rows - 1 : f[a] = i - input.rows
            THEN input.cols + Owner(f, i - input.rows)
            ELSE i - input.rows]

(* Every matching is what some permutation says. *)
LEMMA MatchingExtends ==
  ASSUME CostOK, InputOK, NEW f \in Matchings
  PROVE  Perm(Extended(f)) /\ Truncated(Extended(f)) = f
  <1> SizeOK
    BY DEF CostOK, SizeOK
  <1> DEFINE R == input.rows
             C == input.cols
             Rows == 0 .. R - 1
             g == Extended(f)
  <1>1. /\ f \in [Rows -> {None} \union (0 .. C - 1)]
        /\ \A a, b \in Rows : a # b /\ f[a] # None => f[a] # f[b]
    BY DEF Matchings
  <1>2. R \in Nat /\ C \in Nat /\ n = R + C
    BY Corners DEF InputOK
  <1>3. \A i : i \in Index <=> i \in Int /\ 0 <= i /\ i < R + C
    BY <1>2, Positions
  <1>4. ASSUME NEW i \in Rows
        PROVE  /\ i \in Index /\ i \in Int /\ 0 <= i /\ i < R
               /\ f[i] = None \/ (f[i] \in Int /\ 0 <= f[i] /\ f[i] < C)
               /\ g[i] = IF f[i] = None THEN C + i ELSE f[i]
    <2>1. i \in Int /\ 0 <= i /\ i < R /\ i \in Index
      BY <1>2, <1>3
    <2>2. f[i] = None \/ f[i] \in 0 .. C - 1
      BY <1>1
    <2>3. g[i] = IF f[i] = None THEN C + i ELSE f[i]
      BY <2>1 DEF Extended
    <2> HIDE DEF g
    <2> QED BY <1>2, <2>1, <2>2, <2>3
  <1>5. ASSUME NEW k \in 0 .. C - 1
        PROVE  /\ k \in Int /\ 0 <= k /\ k < C /\ R + k \in Index
               /\ (\E a \in Rows : f[a] = k) => Owner(f, k) \in Rows /\ f[Owner(f, k)] = k /\ g[R + k] = C + Owner(f, k)
               /\ ~(\E a \in Rows : f[a] = k) => g[R + k] = k
    <2>1. k \in Int /\ 0 <= k /\ k < C /\ R + k \in Index /\ ~(R + k < R) /\ (R + k) - R = k
      BY <1>2, <1>3
    <2>2. (\E a \in Rows : f[a] = k) => Owner(f, k) \in Rows /\ f[Owner(f, k)] = k
      BY DEF Owner
    <2>3. g[R + k] = IF \E a \in Rows : f[a] = k THEN C + Owner(f, k) ELSE k
      <3>1. g[R + k] = IF \E a \in Rows : f[a] = (R + k) - R THEN C + Owner(f, (R + k) - R) ELSE (R + k) - R
        BY <2>1 DEF Extended
      <3> HIDE DEF g
      <3> QED BY <2>1, <3>1
    <2> QED BY <2>1, <2>2, <2>3
  <1>6. ASSUME NEW i \in Index
        PROVE  i \in Rows \/ (i - R \in 0 .. C - 1 /\ R + (i - R) = i)
    BY <1>2, <1>3
  <1>7. g = [i \in Index |-> g[i]]
    BY DEF Extended
  <1> HIDE DEF g
  <1>8. ASSUME NEW i \in Index PROVE g[i] \in Index
    <2>1. CASE i \in Rows
      BY <1>2, <1>3, <1>4, <2>1
    <2>2. CASE i \notin Rows
      <3>1. PICK k \in 0 .. C - 1 : i = R + k
        BY <1>6, <2>2
      <3>2. CASE \E a \in Rows : f[a] = k
        <4>1. Owner(f, k) \in Rows /\ g[i] = C + Owner(f, k)
          BY <1>5, <3>1, <3>2
        <4>2. Owner(f, k) \in Int /\ 0 <= Owner(f, k) /\ Owner(f, k) < R
          BY <1>4, <4>1
        <4> QED BY <1>2, <1>3, <4>1, <4>2
      <3>3. CASE ~(\E a \in Rows : f[a] = k)
        <4>1. g[i] = k /\ k \in Int /\ 0 <= k /\ k < C
          BY <1>5, <3>1, <3>3
        <4> QED BY <1>2, <1>3, <4>1
      <3> QED BY <3>2, <3>3
    <2> QED BY <2>1, <2>2
  <1>9. ASSUME NEW l \in Index PROVE \E i \in Index : g[i] = l
    <2>1. CASE l < C
      <3>1. l \in 0 .. C - 1 /\ l \in Int /\ l # None
        BY <1>2, <1>3, <2>1, NoneOut
      <3>2. CASE \E a \in Rows : f[a] = l
        <4>1. PICK a \in Rows : f[a] = l
          BY <3>2
        <4>2. a \in Index /\ g[a] = l
          BY <1>4, <3>1, <4>1
        <4> QED BY <4>2
      <3>3. CASE ~(\E a \in Rows : f[a] = l)
        <4>1. R + l \in Index /\ g[R + l] = l
          BY <1>5, <3>1, <3>3
        <4> QED BY <4>1
      <3> QED BY <3>2, <3>3
    <2>2. CASE ~(l < C)
      <3> DEFINE a == l - C
      <3>1. a \in Rows /\ l = C + a
        BY <1>2, <1>3, <2>2
      <3> HIDE DEF a
      <3>2. CASE f[a] = None
        BY <1>4, <3>1, <3>2
      <3>3. CASE f[a] # None
        <4> DEFINE k == f[a]
        <4>1. k \in 0 .. C - 1 /\ \E b \in Rows : f[b] = k
          BY <1>1, <3>1, <3>3
        <4>2. Owner(f, k) \in Rows /\ f[Owner(f, k)] = k /\ R + k \in Index /\ g[R + k] = C + Owner(f, k)
          BY <1>5, <4>1
        <4>3. Owner(f, k) = a
          BY <1>1, <3>1, <3>3, <4>2
        <4> HIDE DEF k
        <4> QED BY <3>1, <4>2, <4>3
      <3> QED BY <3>2, <3>3
    <2> QED BY <2>1, <2>2
  <1>10. g \in [Index -> Index]
    BY <1>7, <1>8
  <1>11. Perm(g)
    BY <1>9, <1>10, OntoIsPerm
  <1>12. Truncated(g) = f
    <2>1. ASSUME NEW i \in Rows PROVE f[i] = IF g[i] >= C THEN None ELSE g[i]
      <3>1. CASE f[i] = None
        <4>1. g[i] >= C
          BY <1>2, <1>4, <3>1
        <4> QED BY <3>1, <4>1
      <3>2. CASE f[i] # None
        <4>1. g[i] = f[i] /\ f[i] \in Int /\ f[i] < C
          BY <1>4, <3>2
        <4>2. ~(g[i] >= C)
          BY <1>2, <4>1
        <4> QED BY <4>1, <4>2
      <3> QED BY <3>1, <3>2
    <2>2. f = [i \in Rows |-> f[i]]
      BY <1>1
    <2>3. Truncated(g) = [i \in Rows |-> IF g[i] >= C THEN None ELSE g[i]]
      BY DEF Truncated
    <2>4. Truncated(g) = [i \in Rows |-> f[i]]
      BY <2>1, <2>3
    <2> QED BY <2>2, <2>4
  <1> QED BY <1>11, <1>12 DEF g

(* When all rows have been given out, x and y are each other's inverse. *)
LEMMA DoneMatching ==
  ASSUME CostOK, AtDone
  PROVE  /\ Perm(x) /\ Perm(y) /\ Slack /\ v \in [Index -> Int]
         /\ \A k \in Index : y[k] \in Index /\ y[k] # None /\ x[y[k]] = k
         /\ \A i \in Index : x[i] \in Index /\ y[x[i]] = i
  <1> SizeOK
    BY DEF CostOK, SizeOK
  <1>1. MatchType /\ MatchedOn(Index) /\ ListedOn(next .. ret - 1, Index) /\ Slack /\ ret = 0 /\ next = 0
    BY DEF AtDone, Between
  <1>2. \A a : ~(a \in next .. ret - 1)
    BY <1>1
  <1>3. \A i \in Index : \E k \in Index : y[k] = i
    BY <1>1, <1>2 DEF ListedOn
  <1>4. /\ x \in [Index -> Index \union {None}] /\ y \in [Index -> Index \union {None}]
        /\ \A k \in Index : y[k] # None => x[y[k]] = k
        /\ v \in [Index -> Int]
    BY <1>1 DEF MatchType, MatchedOn
  <1>5. None \notin Index
    BY NoneOut
  <1>6. \A i \in Index : x[i] \in Index /\ y[x[i]] = i
    <2> SUFFICES ASSUME NEW i \in Index PROVE x[i] \in Index /\ y[x[i]] = i
      OBVIOUS
    <2>1. PICK k \in Index : y[k] = i
      BY <1>3
    <2> QED BY <1>4, <1>5, <2>1
  <1>7. x \in [Index -> Index]
    <2> HIDE DEF Index
    <2> QED BY <1>4, <1>6
  <1>8. x \in Injection(Index, Index)
    <2>1. \A a, b \in Index : x[a] = x[b] => a = b
      BY <1>6
    <2> HIDE DEF Index
    <2> QED BY <1>7, <2>1 DEF Injection, IsInjective
  <1>9. x \in Surjection(Index, Index)
    <2> HIDE DEF Index
    <2> QED BY <1>8, IndexFinite, FS_Injection
  <1>10. \A l \in Index : \E k \in Index : x[k] = l
    <2> HIDE DEF Index
    <2> QED BY <1>9 DEF Surjection
  <1>11. Perm(x)
    BY <1>7, <1>10, OntoIsPerm
  <1>12. \A k \in Index : y[k] \in Index /\ y[k] # None /\ x[y[k]] = k
    <2> SUFFICES ASSUME NEW k \in Index PROVE y[k] \in Index /\ y[k] # None /\ x[y[k]] = k
      OBVIOUS
    <2>1. PICK i \in Index : x[i] = k
      BY <1>10
    <2> QED BY <1>5, <1>6, <2>1
  <1>13. Perm(y)
    <2>1. y \in [Index -> Index]
      <3> HIDE DEF Index
      <3> QED BY <1>4, <1>12
    <2> QED BY <1>3, <2>1, OntoIsPerm
  <1> QED BY <1>1, <1>4, <1>6, <1>11, <1>12, <1>13

(* No permutation costs less: by slackness none does under reduced costs,    *)
(* and the prices a permutation collects are all the prices.                 *)
LEMMA PermOptimal ==
  ASSUME CostOK, AtDone, NEW g, Perm(g)
  PROVE  SumOf(Along(x)) <= SumOf(Along(g))
  <1> SizeOK
    BY DEF CostOK, SizeOK
  <1>1. /\ Perm(x) /\ v \in [Index -> Int]
        /\ \A i \in Index : x[i] \in Index /\ y[x[i]] = i
        /\ \A k, l \in Index : y[k] # None => Reduced(y[k], v)[k] <= Reduced(y[k], v)[l]
    BY DoneMatching DEF Slack
  <1>2. g \in [Index -> Index]
    BY DEF Perm
  <1> DEFINE px == [i \in Index |-> v[x[i]]]
             pg == [i \in Index |-> v[g[i]]]
             rx == [i \in Index |-> cost[i][x[i]] - v[x[i]]]
             rg == [i \in Index |-> cost[i][g[i]] - v[g[i]]]
  <1>3. ASSUME NEW i \in Index
        PROVE  /\ cost[i][x[i]] \in Int /\ v[x[i]] \in Int /\ cost[i][g[i]] \in Int /\ v[g[i]] \in Int
               /\ cost[i][x[i]] - v[x[i]] <= cost[i][g[i]] - v[g[i]]
    <2>1. x[i] \in Index /\ g[i] \in Index /\ y[x[i]] = i /\ i # None
      BY <1>1, <1>2, NoneOut
    <2>2. Reduced(i, v)[x[i]] <= Reduced(i, v)[g[i]]
      BY <1>1, <2>1
    <2>3. Reduced(i, v)[x[i]] = cost[i][x[i]] - v[x[i]] /\ Reduced(i, v)[g[i]] = cost[i][g[i]] - v[g[i]]
      BY <1>1, <2>1, ReducedType
    <2>4. cost[i][x[i]] \in Int /\ v[x[i]] \in Int /\ cost[i][g[i]] \in Int /\ v[g[i]] \in Int
      BY <1>1, <2>1 DEF CostOK
    <2> QED BY <2>2, <2>3, <2>4
  <1>4. /\ px \in [Index -> Int] /\ pg \in [Index -> Int] /\ rx \in [Index -> Int] /\ rg \in [Index -> Int]
        /\ Along(x) \in [Index -> Int] /\ Along(g) \in [Index -> Int]
    BY <1>3 DEF Along
  <1>5. /\ \A i \in Index : px[i] = v[x[i]] /\ pg[i] = v[g[i]]
        /\ \A i \in Index : rx[i] <= rg[i]
        /\ \A i \in Index : Along(x)[i] = rx[i] + px[i]
        /\ \A i \in Index : Along(g)[i] = rg[i] + pg[i]
    BY <1>3 DEF Along
  <1> HIDE DEF px, pg, rx, rg
  <1>6. SumOf(px) = SumOf(v) /\ SumOf(pg) = SumOf(v)
    BY <1>1, <1>4, <1>5, SumPermuted
  <1>7. SumOf(rx) <= SumOf(rg)
    BY <1>4, <1>5, SumGrows
  <1>8. SumOf(Along(x)) = SumOf(rx) + SumOf(px)
    BY <1>4, <1>5, SumAdds
  <1>9. SumOf(Along(g)) = SumOf(rg) + SumOf(pg)
    BY <1>4, <1>5, SumAdds
  <1>10. SumOf(rx) \in Int /\ SumOf(rg) \in Int /\ SumOf(v) \in Int
    BY <1>1, <1>4, PartialAdds
  <1> QED BY <1>6, <1>7, <1>8, <1>9, <1>10

(* No pair above the limit is matched: some extra row has an extra column,  *)
(* and exchanging columns with it would otherwise be cheaper.               *)
LEMMA LimitKept ==
  ASSUME CostOK, InputOK, AtDone, NEW i \in 0 .. input.rows - 1, x[i] < input.cols
  PROVE  input.c[i][x[i]] <= CostLimit
  <1> SizeOK
    BY DEF CostOK, SizeOK
  <1> DEFINE R == input.rows
             C == input.cols
             k == x[i]
             Extra == R .. n - 1
             Others == (0 .. C - 1) \ {k}
  <1>1. /\ v \in [Index -> Int]
        /\ \A a, b \in Index : y[a] # None => Reduced(y[a], v)[a] <= Reduced(y[a], v)[b]
        /\ \A r \in Index : x[r] \in Index /\ y[x[r]] = r
    BY DoneMatching DEF Slack
  <1>2. /\ n = R + C /\ Half \in Int /\ CostLimit = 2 * Half /\ R \in Nat /\ C \in Nat
        /\ i \in Index /\ i \in Int /\ 0 <= i /\ i < R
        /\ \A a, b \in Index :
              cost[a][b] = IF a < R /\ b < C THEN input.c[a][b] ELSE IF a >= R /\ b >= C THEN 0 ELSE Half
    BY Corners DEF InputOK
  <1>3. \A a : a \in Index <=> a \in Int /\ 0 <= a /\ a < R + C
    BY <1>2, Positions
  <1>4. k \in Index /\ k \in Int /\ 0 <= k /\ k < C /\ y[k] = i
    BY <1>1, <1>2, <1>3
  <1> HIDE DEF k
  <1>5. \A r \in Extra : r \in Index /\ r \in Int /\ R <= r /\ r # i
    BY <1>2, <1>3
  <1>6. \E r \in Extra : ~(x[r] < C)
    <2> SUFFICES ASSUME \A r \in Extra : x[r] < C PROVE FALSE
      OBVIOUS
    <2> DEFINE h == [r \in Extra |-> x[r]]
    <2>1. ASSUME NEW r \in Extra PROVE x[r] \in Others
      <3>1. x[r] \in Index /\ y[x[r]] = r /\ r # i
        BY <1>1, <1>5
      <3>2. x[r] \in Int /\ 0 <= x[r] /\ x[r] < C
        BY <1>3, <3>1
      <3>3. x[r] # k
        BY <1>4, <3>1
      <3>4. C \in Int
        BY <1>2
      <3>5. x[r] \in 0 .. C - 1
        BY <3>2, <3>4
      <3> QED BY <3>3, <3>5
    <2>2. \A a, b \in Extra : x[a] = x[b] => a = b
      BY <1>1, <1>5
    <2>3. h \in Injection(Extra, Others)
      <3>1. h \in [Extra -> Others] /\ \A a, b \in Extra : h[a] = h[b] => a = b
        BY <2>1, <2>2
      <3> HIDE DEF h, Extra, Others
      <3> QED BY <3>1 DEF Injection, IsInjective
    <2>4. IsFiniteSet(Extra) /\ Cardinality(Extra) = C
      <3>1. R \in Int /\ n - 1 \in Int
        BY <1>2
      <3>2. IsFiniteSet(Extra) /\ Cardinality(Extra) = IF R > n - 1 THEN 0 ELSE (n - 1) - R + 1
        BY <3>1, FS_Interval
      <3>3. C # 0
        BY DEF InputOK
      <3> HIDE DEF Extra
      <3> QED BY <1>2, <3>2, <3>3
    <2>5. IsFiniteSet(Others) /\ Cardinality(Others) = C - 1
      <3>1. 0 \in Int /\ C - 1 \in Int
        BY <1>2
      <3>2. IsFiniteSet(0 .. C - 1) /\ Cardinality(0 .. C - 1) = IF 0 > C - 1 THEN 0 ELSE (C - 1) - 0 + 1
        BY <3>1, FS_Interval
      <3>3. Cardinality(0 .. C - 1) = C /\ k \in 0 .. C - 1
        BY <1>2, <1>4, <3>2
      <3> QED BY <3>2, <3>3, FS_RemoveElement
    <2> HIDE DEF h, Extra, Others
    <2>6. Cardinality(Extra) <= Cardinality(Others)
      BY <2>3, <2>5, FS_Injection
    <2> QED BY <1>2, <2>4, <2>5, <2>6
  <1>7. PICK r \in Extra : ~(x[r] < C)
    BY <1>6
  <1> DEFINE q == x[r]
  <1>8. r \in Index /\ q \in Index /\ y[q] = r /\ r \in Int /\ q \in Int /\ R <= r /\ C <= q
    <2>1. r \in Index /\ q \in Index /\ y[q] = r /\ r \in Int /\ R <= r
      BY <1>1, <1>5
    <2>2. q \in Int
      BY <1>3, <2>1
    <2> QED BY <1>2, <1>7, <2>1, <2>2
  <1> HIDE DEF q, Extra
  <1>9. /\ Reduced(i, v)[k] <= Reduced(i, v)[q] /\ Reduced(r, v)[q] <= Reduced(r, v)[k]
    <2>1. y[k] # None /\ y[q] # None
      BY <1>2, <1>4, <1>8, NoneOut
    <2> QED BY <1>1, <1>4, <1>8, <2>1
  <1>10. /\ Reduced(i, v)[k] = cost[i][k] - v[k] /\ Reduced(i, v)[q] = cost[i][q] - v[q]
         /\ Reduced(r, v)[k] = cost[r][k] - v[k] /\ Reduced(r, v)[q] = cost[r][q] - v[q]
    BY <1>1, <1>2, <1>4, <1>8, ReducedType
  <1>11. cost[i][k] = input.c[i][k] /\ cost[i][q] = Half /\ cost[r][k] = Half /\ cost[r][q] = 0
    BY <1>2, <1>4, <1>8
  <1>12. v[k] \in Int /\ v[q] \in Int /\ cost[i][k] \in Int
    BY <1>1, <1>2, <1>4, <1>8 DEF CostOK
  <1>13. input.c[i][k] <= CostLimit
    BY <1>2, <1>9, <1>10, <1>11, <1>12
  <1> QED BY <1>13 DEF k

(* What lapjv has left when it is done is a cheapest matching. *)
LEMMA DoneIsOptimal ==
  ASSUME CostOK, InputOK, AtDone
  PROVE  LapjvOptimal
  <1> DEFINE Rows == 0 .. input.rows - 1
             Cols == 0 .. input.cols - 1
  <1>1. /\ Perm(x) /\ Perm(y)
        /\ \A k \in Index : y[k] \in Index /\ y[k] # None /\ x[y[k]] = k
        /\ \A i \in Index : x[i] \in Index /\ y[x[i]] = i
    BY DoneMatching
  <1>2. /\ \A i \in Rows : i \in Index /\ i \in Int /\ 0 <= i /\ i < input.rows
        /\ \A k \in Cols : k \in Index /\ k \in Int /\ 0 <= k /\ k < input.cols
        /\ \A k \in Index : k < input.cols => k \in Cols
    BY Corners
  <1>3. input.rows \in Nat /\ input.cols \in Nat
    BY DEF InputOK
  <1>4. rowsol = Truncated(x)
    BY DEF rowsol, Truncated
  <1>5. /\ DOMAIN rowsol = Rows /\ DOMAIN colsol = Cols
        /\ \A i \in Rows : rowsol[i] = IF x[i] >= input.cols THEN None ELSE x[i]
        /\ \A k \in Cols : colsol[k] = IF y[k] >= input.rows THEN None ELSE y[k]
        /\ rowsol = [i \in Rows |-> rowsol[i]]
    BY DEF rowsol, colsol
  <1> HIDE DEF rowsol, colsol
  <1>6. ASSUME NEW i \in Rows
        PROVE  /\ x[i] \in Index /\ x[i] \in Int /\ x[i] # None /\ i \in Index
               /\ rowsol[i] # None => rowsol[i] = x[i] /\ x[i] < input.cols
               /\ x[i] < input.cols => rowsol[i] = x[i]
    <2>1. i \in Index /\ x[i] \in Index /\ x[i] \in Int /\ x[i] # None
      BY <1>1, <1>2, NoneOut
    <2>2. rowsol[i] = IF x[i] >= input.cols THEN None ELSE x[i]
      BY <1>5
    <2>3. input.cols \in Int
      BY <1>3
    <2> QED BY <2>1, <2>2, <2>3
  <1>7. ASSUME NEW k \in Cols
        PROVE  /\ y[k] \in Index /\ y[k] \in Int /\ y[k] # None /\ k \in Index
               /\ colsol[k] # None => colsol[k] = y[k] /\ y[k] < input.rows
               /\ y[k] < input.rows => colsol[k] = y[k]
    <2>1. k \in Index /\ y[k] \in Index /\ y[k] \in Int /\ y[k] # None
      BY <1>1, <1>2, NoneOut
    <2>2. colsol[k] = IF y[k] >= input.rows THEN None ELSE y[k]
      BY <1>5
    <2>3. input.rows \in Int
      BY <1>3
    <2> QED BY <2>1, <2>2, <2>3
  <1>8. rowsol \in Matchings
    <2>1. rowsol \in [Rows -> {None} \union Cols]
      <3>1. \A i \in Rows : rowsol[i] \in {None} \union Cols
        <4> SUFFICES ASSUME NEW i \in Rows, rowsol[i] # None PROVE rowsol[i] \in Cols
          OBVIOUS
        <4> QED BY <1>2, <1>6
      <3> HIDE DEF Rows, Cols
      <3> QED BY <1>5, <3>1
    <2>2. \A a, b \in Rows : a # b /\ rowsol[a] # None => rowsol[a] # rowsol[b]
      <3> SUFFICES ASSUME NEW a \in Rows, NEW b \in Rows, rowsol[a] # None, rowsol[a] = rowsol[b]
                   PROVE  a = b
        OBVIOUS
      <3>1. x[a] = x[b] /\ a \in Index /\ b \in Index
        BY <1>6
      <3> QED BY <1>1, <3>1
    <2> QED BY <1>5, <2>1, <2>2 DEF Matchings
  <1>9. ASSUME NEW f \in Matchings PROVE Total(rowsol) <= Total(f)
    <2>1. Perm(Extended(f)) /\ Truncated(Extended(f)) = f
      BY MatchingExtends
    <2>2. Total(Truncated(x)) = SumOf(Along(x))
      BY <1>1, PermTotal
    <2>3. Total(Truncated(Extended(f))) = SumOf(Along(Extended(f)))
      BY <2>1, PermTotal
    <2>4. SumOf(Along(x)) <= SumOf(Along(Extended(f)))
      BY <2>1, PermOptimal
    <2> QED BY <1>4, <2>1, <2>2, <2>3, <2>4
  <1>10. ASSUME NEW i \in Rows, NEW k \in Cols PROVE rowsol[i] = k <=> colsol[k] = i
    <2>1. i # None /\ k # None /\ i < input.rows /\ k < input.cols
      BY <1>2, <1>6, <1>7, NoneOut
    <2>2. rowsol[i] = k <=> x[i] = k
      BY <1>6, <2>1
    <2>3. colsol[k] = i <=> y[k] = i
      BY <1>7, <2>1
    <2>4. x[i] = k <=> y[k] = i
      BY <1>1, <1>6, <1>7
    <2> QED BY <2>2, <2>3, <2>4
  <1>11. ASSUME NEW i \in Rows, rowsol[i] # None PROVE input.c[i][rowsol[i]] <= CostLimit
    <2>1. rowsol[i] = x[i] /\ x[i] < input.cols
      BY <1>6, <1>11
    <2>2. input.c[i][x[i]] <= CostLimit
      BY <2>1, LimitKept
    <2> QED BY <2>1, <2>2
  <1> HIDE DEF Rows, Cols
  <1> QED BY <1>5, <1>8, <1>9, <1>10, <1>11 DEF LapjvOptimal

(* BYTETracker.cpp 431-523: for every matrix of ByteTrack's costs, rowsol   *)
(* and colsol are inverse matchings, no other matching is cheaper when what *)
(* is left out costs half the limit, and no pair above the limit is in it.  *)
THEOREM LapjvIsOptimal == AssignmentSpec => []LapjvOptimal
  <1>1. SolverInv => LapjvOptimal
    <2> SUFFICES ASSUME SolverInv, pc = "done" PROVE LapjvOptimal
      BY DEF LapjvOptimal
    <2>1. LapjvIInv /\ InputOK
      BY DEF SolverInv
    <2>2. CostOK /\ AtDone
      BY <2>1, PhaseHolds DEF LapjvIInv
    <2> QED BY <2>1, <2>2, DoneIsOptimal
  <1> QED BY <1>1, SolverInvariant, PTL

-----------------------------------------------------------------------------
(* The operators of Munkres. *)

(* The solver counts as everybody does. *)
LEMMA MunkresCounts == ASSUME NEW S PROVE M!Cardinality(S) = Cardinality(S)
BY DEF M!Cardinality, Cardinality, M!IsFiniteSet, IsFiniteSet

(* Min and Max of a finite set of integers are what their names say. *)
LEMMA MunkresExtremes ==
  ASSUME NEW S \in SUBSET Int, IsFiniteSet(S), S # {}
  PROVE  /\ M!Min(S) \in S /\ \A e \in S : M!Min(S) <= e
         /\ M!Max(S) \in S /\ \A e \in S : e <= M!Max(S)
  <1> DEFINE c == Cardinality(S)
  <1>1. c \in Nat /\ ExistsBijection(1 .. c, S)
    BY FS_CardinalityType
  <1> HIDE DEF c
  <1>2. PICK f \in [1 .. c -> S] : \A e \in S : \E k \in 1 .. c : f[k] = e
    <2>1. PICK f \in Bijection(1 .. c, S) : TRUE
      BY <1>1 DEF ExistsBijection
    <2> QED BY <2>1 DEF Bijection, Injection, Surjection
  <1>3. c \in Int /\ (1 .. c) \in SUBSET (0 .. c) /\ (1 .. c) # {}
    <2>1. \E k \in 1 .. c : TRUE
      BY <1>2
    <2>2. \A k \in 1 .. c : k \in 0 .. c
      BY <1>1
    <2>3. (1 .. c) \in SUBSET (0 .. c)
      BY <2>2
    <2>4. (1 .. c) # {}
      BY <2>1
    <2> QED BY <1>1, <2>3, <2>4
  <1>4. \A k \in 1 .. c : f[k] \in Int
    BY <1>2
  <1>5. \E e \in S : \A d \in S : e <= d
    <2>1. PICK k \in 1 .. c : \A l \in 1 .. c : f[k] <= f[l]
      BY <1>3, <1>4, ImageHasLeast
    <2>2. f[k] \in S /\ \A d \in S : f[k] <= d
      BY <1>2, <2>1
    <2> QED BY <2>2
  <1>6. \E e \in S : \A d \in S : e >= d
    <2> DEFINE h == [k \in 1 .. c |-> -f[k]]
    <2>1. \A k \in 1 .. c : h[k] \in Int /\ h[k] = -f[k]
      BY <1>4
    <2> HIDE DEF h
    <2>2. PICK k \in 1 .. c : \A l \in 1 .. c : h[k] <= h[l]
      BY <1>3, <2>1, ImageHasLeast
    <2>3. \A l \in 1 .. c : f[k] >= f[l]
      <3>1. ASSUME NEW l \in 1 .. c PROVE f[k] >= f[l]
        <4>1. f[k] \in Int /\ f[l] \in Int /\ -f[k] <= -f[l]
          BY <1>4, <2>1, <2>2
        <4> QED BY <4>1
      <3> QED BY <3>1
    <2>4. f[k] \in S /\ \A d \in S : f[k] >= d
      BY <1>2, <2>3
    <2> QED BY <2>4
  <1>7. M!Min(S) \in S /\ \A e \in S : M!Min(S) <= e
    BY <1>5 DEF M!Min
  <1>8. M!Max(S) \in S /\ \A e \in S : M!Max(S) >= e
    BY <1>6 DEF M!Max
  <1>9. \A e \in S : e <= M!Max(S)
    <2>1. ASSUME NEW e \in S PROVE e <= M!Max(S)
      <3>1. M!Max(S) >= e /\ e \in Int /\ M!Max(S) \in Int
        BY <1>8
      <3> QED BY <3>1
    <2> QED BY <2>1
  <1> QED BY <1>7, <1>8, <1>9

(* The square matrix covers the costs. *)
LEMMA Square ==
  ASSUME InputOK
  PROVE  /\ M!size \in Nat /\ M!size >= 1 /\ input.rows <= M!size /\ input.cols <= M!size
         /\ M!size = input.rows \/ M!size = input.cols
         /\ M!Index = 0 .. M!size - 1 /\ IsFiniteSet(M!Index) /\ Cardinality(M!Index) = M!size
         /\ \A i \in M!Index : i \in Int /\ i >= 0 /\ i < M!size
  <1>1. input.rows \in Nat \ {0} /\ input.cols \in Nat \ {0}
    BY DEF InputOK
  <1>2. /\ M!size \in Nat /\ M!size >= 1 /\ input.rows <= M!size /\ input.cols <= M!size
        /\ M!size = input.rows \/ M!size = input.cols
    BY <1>1 DEF M!size
  <1>3. M!Index = 0 .. M!size - 1
    BY DEF M!Index
  <1>4. IsFiniteSet(0 .. M!size - 1) /\ Cardinality(0 .. M!size - 1) = IF 0 > M!size - 1 THEN 0 ELSE (M!size - 1) - 0 + 1
    <2>1. 0 \in Int /\ M!size - 1 \in Int
      BY <1>2
    <2> QED BY <2>1, FS_Interval
  <1>5. IsFiniteSet(M!Index) /\ Cardinality(M!Index) = M!size
    BY <1>2, <1>3, <1>4
  <1> QED BY <1>2, <1>3, <1>5

-----------------------------------------------------------------------------
(* Stars, primes and covers. *)

MaskType(m) == m \in [M!Index -> [M!Index -> {"normal", "star", "prime"}]]

(* No row and no column has two stars. *)
StarsOnce(m) == \A i, k, r, c \in M!Index :
                   m[i][k] = "star" /\ m[r][c] = "star" => (i = r <=> k = c)

Marked(m) == MaskType(m) /\ StarsOnce(m)

NoPrime(m) == \A i, k \in M!Index : m[i][k] # "prime"

(* One line through every star is covered; a prime's column is not, its row *)
(* is, except for the prime at which a path starts; no row has two primes.  *)
Covered(m, R, C, S) ==
    /\ R \in [M!Index -> BOOLEAN] /\ C \in [M!Index -> BOOLEAN]
    /\ \A i, k \in M!Index : m[i][k] = "star" => (R[i] <=> ~C[k])
    /\ \A i, k \in M!Index : m[i][k] = "prime" => ~C[k] /\ (R[i] \/ <<i, k>> \in S)
    /\ \A i, k, c \in M!Index : m[i][k] = "prime" /\ m[i][c] = "prime" => k = c

(* Rows are primed in the order ord: the row of the star in a prime's       *)
(* column was primed before the prime.                                      *)
Ordered(m, ord, top) ==
    /\ top \in Nat /\ ord \in [M!Index -> 0 .. top - 1]
    /\ \A i, k, r \in M!Index : m[i][k] = "prime" /\ m[r][k] = "star" => ord[r] < ord[i]

(* A path of step 4: it starts at a prime in a row without a star, goes on  *)
(* to the star in the prime's column and the prime in the star's row, and   *)
(* reaches rows that were primed earlier and earlier.                       *)
Alternates(q, m, ord) ==
    /\ q \in Seq(M!Index \X M!Index) /\ Len(q) >= 1
    /\ \A a \in 1 .. Len(q) : m[q[a][1]][q[a][2]] = IF a % 2 = 1 THEN "prime" ELSE "star"
    /\ \A a \in 2 .. Len(q) : IF a % 2 = 0 THEN q[a][2] = q[a - 1][2] ELSE q[a][1] = q[a - 1][1]
    /\ \A a, b \in 1 .. Len(q) : q[a] = q[b] => a = b
    /\ \A k \in M!Index : m[q[1][1]][k] # "star"
    /\ \A a, b \in 1 .. Len(q) : a % 2 = 1 /\ b % 2 = 1 /\ a < b => ord[q[b][1]] < ord[q[a][1]]

Clean == row_mask = M!None /\ col_mask = M!None

AtLines == Clean /\ row = 0 /\ \A i, k \in M!Index : mask[i][k] = "normal"
AtStep1 == /\ Clean /\ NoPrime(mask) /\ row \in M!Index
           /\ \A i, k \in M!Index : mask[i][k] = "star" => i < row
AtStep2 == Clean /\ NoPrime(mask)
AtStep3 == /\ Covered(mask, row_mask, col_mask, {})
           /\ \E ord, top : Ordered(mask, ord, top)
AtStep4 == /\ Covered(mask, row_mask, col_mask, {seq[1]})
           /\ \E ord, top : Ordered(mask, ord, top) /\ Alternates(seq, mask, ord)
AtStep5 == AtStep3 /\ M!UncoveredZeros = {}
Finished == Cardinality(M!Stars) >= M!size

MarksInv ==
    /\ step \in {"solve", "first", "second", "step1", "step2", "step3", "step4", "step5", "done"}
    /\ step = "solve" => row = 0
    /\ step # "solve" => Marked(mask)
    /\ step \in {"first", "second"} => AtLines
    /\ step = "step1" => AtStep1
    /\ step = "step2" => AtStep2
    /\ step = "step3" => AtStep3
    /\ step = "step4" => AtStep4
    /\ step = "step5" => AtStep5
    /\ step = "done" => Finished

(* The indices depend on the input alone. *)
LEMMA SameIndex == input' = input => M!size' = M!size /\ M!Index' = M!Index
  <1> SUFFICES ASSUME input' = input PROVE M!size' = M!size /\ M!Index' = M!Index
    OBVIOUS
  <1>1. M!size' = M!size
    BY DEF M!size
  <1> QED BY <1>1 DEF M!Index

(* The first marks: none. *)
LEMMA SolveMarks ==
  ASSUME InputOK, MarksInv, M!Solve
  PROVE  MarksInv'
  <1>1. /\ step = "solve" /\ step' = "first" /\ input' = input /\ row' = row /\ row = 0
        /\ mask' = [i \in M!Index |-> [k \in M!Index |-> "normal"]]
        /\ row_mask' = M!None /\ col_mask' = M!None
    BY DEF M!Solve, MarksInv
  <1>2. M!Index' = M!Index
    BY <1>1, SameIndex
  <1>3. M!None' = M!None
    BY <1>2 DEF M!None
  <1>4. \A i, k \in M!Index : mask'[i][k] = "normal"
    BY <1>1
  <1>5. MaskType(mask)'
    BY <1>1, <1>2 DEF MaskType
  <1>6. Marked(mask)'
    BY <1>2, <1>4, <1>5 DEF Marked, StarsOnce
  <1>7. AtLines'
    BY <1>1, <1>2, <1>3, <1>4 DEF AtLines, Clean
  <1> QED BY <1>1, <1>6, <1>7 DEF MarksInv

(* The reductions leave the marks alone. *)
LEMMA MinimizeMarks ==
  ASSUME InputOK, MarksInv, M!Minimize
  PROVE  MarksInv'
  <1>1. /\ step \in {"first", "second"} /\ step' = (IF step = "first" THEN "second" ELSE "step1")
        /\ input' = input /\ row' = row /\ mask' = mask /\ row_mask' = row_mask /\ col_mask' = col_mask
    BY DEF M!Minimize
  <1>2. M!Index' = M!Index
    BY <1>1, SameIndex
  <1>3. M!None' = M!None
    BY <1>2 DEF M!None
  <1>4. Marked(mask) /\ AtLines
    BY <1>1 DEF MarksInv
  <1>5. Marked(mask)'
    BY <1>1, <1>2, <1>4 DEF Marked, MaskType, StarsOnce
  <1>6. AtLines'
    BY <1>1, <1>2, <1>3, <1>4 DEF AtLines, Clean
  <1>7. AtStep1'
    <2>1. 0 \in M!Index
      BY Square
    <2>2. Clean' /\ row' \in M!Index'
      BY <1>2, <1>4, <1>6, <1>1, <2>1 DEF AtLines
    <2> QED BY <1>2, <1>6, <2>2 DEF AtLines, AtStep1, NoPrime
  <1> QED BY <1>1, <1>5, <1>6, <1>7 DEF MarksInv

(* Step 1 adds stars in new rows and in columns without one. *)
LEMMA Step1Marks ==
  ASSUME InputOK, MarksInv, M!Step1
  PROVE  MarksInv'
  <1> DEFINE zeros == {k \in M!Index : matrix[row][k] = 0 /\ \A l \in 0 .. row - 1 : mask[l][k] # "star"}
  <1>1. /\ step = "step1" /\ input' = input /\ row_mask' = row_mask /\ col_mask' = col_mask
        /\ mask' = (IF zeros = {} THEN mask ELSE [mask EXCEPT ![row][M!Min(zeros)] = "star"])
        /\ row' = (row + 1) % M!size
        /\ step' = (IF row + 1 < M!size THEN "step1" ELSE "step2")
    BY DEF M!Step1
  <1>2. M!Index' = M!Index
    BY <1>1, SameIndex
  <1>3. M!None' = M!None
    BY <1>2 DEF M!None
  <1>4. /\ Clean /\ NoPrime(mask) /\ row \in M!Index /\ MaskType(mask) /\ StarsOnce(mask)
        /\ \A i, k \in M!Index : mask[i][k] = "star" => i < row
    BY <1>1 DEF MarksInv, AtStep1, Marked
  <1>5. Clean'
    BY <1>1, <1>3, <1>4 DEF Clean
  <1>6. /\ MaskType(mask') /\ StarsOnce(mask') /\ NoPrime(mask')
        /\ \A i, k \in M!Index : mask'[i][k] = "star" => i < row + 1
    <2>1. \A i \in M!Index : i \in Int /\ row \in Int
      BY <1>4, Square
    <2>2. CASE zeros = {}
      <3>1. mask' = mask
        BY <1>1, <2>2
      <3>2. \A i, k \in M!Index : mask'[i][k] = "star" => i < row + 1
        <4>1. ASSUME NEW i \in M!Index, NEW k \in M!Index, mask[i][k] = "star" PROVE i < row + 1
          <5>1. i < row
            BY <1>4, <4>1
          <5> QED BY <2>1, <5>1
        <4> QED BY <3>1, <4>1
      <3> QED BY <1>4, <3>1, <3>2
    <2>3. CASE zeros # {}
      <3> DEFINE z == M!Min(zeros)
      <3>1. z \in zeros
        <4>1. zeros \in SUBSET Int
          BY Square
        <4>2. IsFiniteSet(zeros)
          <5>1. zeros \in SUBSET M!Index
            OBVIOUS
          <5> HIDE DEF zeros
          <5> QED BY <5>1, FS_Subset, Square
        <4> HIDE DEF zeros
        <4> QED BY <2>3, <4>1, <4>2, MunkresExtremes
      <3>2. z \in M!Index /\ \A l \in 0 .. row - 1 : mask[l][z] # "star"
        BY <3>1
      <3>3. mask' = [mask EXCEPT ![row][z] = "star"]
        BY <1>1, <2>3
      <3> HIDE DEF z, zeros
      <3>4. MaskType(mask')
        BY <1>4, <3>2, <3>3 DEF MaskType
      <3>5. \A i, k \in M!Index : mask'[i][k] = IF i = row /\ k = z THEN "star" ELSE mask[i][k]
        BY <1>4, <3>2, <3>3 DEF MaskType
      <3>6. \A i \in M!Index : mask[i][z] # "star"
        <4>1. ASSUME NEW i \in M!Index, mask[i][z] = "star" PROVE FALSE
          <5>1. i < row
            BY <1>4, <3>2, <4>1
          <5>2. i \in 0 .. row - 1
            BY <1>4, <5>1, Square
          <5> QED BY <3>2, <4>1, <5>2
        <4> QED BY <4>1
      <3>7. \A k \in M!Index : mask[row][k] # "star"
        BY <1>4, <2>1
      <3>8. StarsOnce(mask')
        BY <1>4, <3>2, <3>5, <3>6, <3>7 DEF StarsOnce
      <3>9. NoPrime(mask')
        BY <1>4, <3>5 DEF NoPrime
      <3>10. ASSUME NEW i \in M!Index, NEW k \in M!Index, mask'[i][k] = "star" PROVE i < row + 1
        <4>1. i = row \/ i < row
          BY <1>4, <3>5, <3>10
        <4> QED BY <2>1, <4>1
      <3> QED BY <3>4, <3>8, <3>9, <3>10
    <2> QED BY <2>2, <2>3
  <1> HIDE DEF zeros
  <1>7. Marked(mask)' /\ NoPrime(mask)'
    BY <1>2, <1>6 DEF Marked, MaskType, StarsOnce, NoPrime
  <1>8. CASE row + 1 < M!size
    <2>1. row' = row + 1 /\ row' \in M!Index
      <3>1. row \in Nat /\ M!size \in Nat /\ M!Index = 0 .. M!size - 1
        BY <1>4, Square
      <3>2. (row + 1) % M!size = row + 1
        BY <1>8, <3>1
      <3> QED BY <1>1, <1>8, <3>1, <3>2
    <2>2. AtStep1'
      BY <1>2, <1>5, <1>6, <1>7, <2>1 DEF AtStep1
    <2> QED BY <1>1, <1>7, <1>8, <2>2 DEF MarksInv
  <1>9. CASE ~(row + 1 < M!size)
    <2>1. AtStep2'
      BY <1>5, <1>7 DEF AtStep2
    <2> QED BY <1>1, <1>7, <1>9, <2>1 DEF MarksInv
  <1> QED BY <1>8, <1>9

(* Step 2 covers the columns with a star, or is done. *)
LEMMA Step2Marks ==
  ASSUME InputOK, MarksInv, M!Step2
  PROVE  MarksInv'
  <1>1. /\ step = "step2" /\ input' = input /\ mask' = mask /\ row_mask' = row_mask
        /\ col_mask' = [k \in M!Index |-> col_mask[k] \/ \E i \in M!Index : <<i, k>> \in M!Stars]
        /\ step' = (IF Cardinality(M!Stars) >= M!size THEN "done" ELSE "step3")
    BY MunkresCounts DEF M!Step2
  <1>2. M!Index' = M!Index /\ M!size' = M!size
    BY <1>1, SameIndex
  <1>3. Clean /\ NoPrime(mask) /\ Marked(mask)
    BY <1>1 DEF MarksInv, AtStep2
  <1>4. Marked(mask)'
    BY <1>1, <1>2, <1>3 DEF Marked, MaskType, StarsOnce
  <1>5. CASE Cardinality(M!Stars) >= M!size
    <2>1. M!Stars' = M!Stars
      BY <1>1, <1>2 DEF M!Stars
    <2>2. Finished'
      BY <1>2, <1>5, <2>1 DEF Finished
    <2> QED BY <1>1, <1>4, <1>5, <2>2 DEF MarksInv
  <1>6. CASE ~(Cardinality(M!Stars) >= M!size)
    <2>1. row_mask' = [i \in M!Index |-> FALSE] /\ col_mask = [i \in M!Index |-> FALSE]
      BY <1>1, <1>3 DEF Clean, M!None
    <2>2. row_mask' \in [M!Index -> BOOLEAN] /\ col_mask' \in [M!Index -> BOOLEAN] /\ \A i \in M!Index : ~row_mask'[i]
      BY <1>1, <2>1
    <2>3. ASSUME NEW i \in M!Index, NEW k \in M!Index, mask[i][k] = "star" PROVE col_mask'[k]
      <3>1. <<i, k>> \in M!Stars
        BY <2>3 DEF M!Stars
      <3> QED BY <1>1, <3>1
    <2>4. Covered(mask, row_mask, col_mask, {})'
      BY <1>1, <1>2, <1>3, <2>2, <2>3, ZenonT(60) DEF Covered, NoPrime
    <2> DEFINE ord == [i \in M!Index |-> 0]
    <2>5. Ordered(mask', ord, 1)
      <3>1. ord \in [M!Index -> 0 .. 1 - 1] /\ 1 \in Nat
        OBVIOUS
      <3> HIDE DEF ord
      <3> QED BY <1>1, <1>3, <3>1 DEF Ordered, NoPrime
    <2> HIDE DEF ord
    <2>6. (\E o, top : Ordered(mask, o, top))'
      BY <1>2, <2>5 DEF Ordered
    <2>7. AtStep3'
      BY <2>4, <2>6 DEF AtStep3
    <2> QED BY <1>1, <1>4, <1>6, <2>7 DEF MarksInv
  <1> QED BY <1>5, <1>6

(* The first cell of a set is one of its cells. *)
LEMMA FirstIsOne ==
  ASSUME InputOK, NEW S \in SUBSET (M!Index \X M!Index), S # {}
  PROVE  M!FirstOf(S) \in S
  <1> DEFINE rows == {p[1] : p \in S}
  <1>1. rows \in SUBSET Nat /\ rows # {}
    BY Square
  <1>2. PICK i \in rows : \A r \in rows : i <= r
    <2> HIDE DEF rows
    <2> QED BY <1>1, LeastExists
  <1> DEFINE cols == {p[2] : p \in {q \in S : q[1] = i}}
  <1>3. cols \in SUBSET Nat /\ cols # {}
    BY Square
  <1>4. PICK k \in cols : \A c \in cols : k <= c
    <2> HIDE DEF cols
    <2> QED BY <1>3, LeastExists
  <1>5. PICK p \in S : p[1] = i /\ p[2] = k
    BY <1>4
  <1>6. ASSUME NEW q \in S PROVE p[1] < q[1] \/ (p[1] = q[1] /\ p[2] <= q[2])
    <2>1. q[1] \in rows /\ q[1] \in Nat /\ i \in Nat
      BY <1>1, <1>2
    <2>2. i <= q[1]
      BY <1>2, <2>1
    <2>3. CASE q[1] = i
      <3>1. q[2] \in cols
        BY <2>3
      <3> HIDE DEF cols
      <3> QED BY <1>4, <1>5, <2>3, <3>1
    <2>4. CASE q[1] # i
      BY <1>5, <2>1, <2>2, <2>4
    <2> QED BY <2>3, <2>4
  <1> HIDE DEF rows, cols
  <1>7. \E e \in S : \A q \in S : e[1] < q[1] \/ (e[1] = q[1] /\ e[2] <= q[2])
    BY <1>6
  <1> QED BY <1>7 DEF M!FirstOf

WithPrime(i, k) == [mask EXCEPT ![i][k] = "prime"]

(* What a new prime changes: nothing else in the mask, and its row becomes  *)
(* the last one primed. *)
LEMMA PrimeMarks ==
  ASSUME InputOK, Marked(mask), AtStep3, NEW p1 \in M!Index, NEW p2 \in M!Index,
         ~row_mask[p1], ~col_mask[p2]
  PROVE  /\ mask[p1][p2] # "star" /\ Marked(WithPrime(p1, p2))
         /\ \A i, k \in M!Index :
               /\ WithPrime(p1, p2)[i][k] = (IF i = p1 /\ k = p2 THEN "prime" ELSE mask[i][k])
               /\ WithPrime(p1, p2)[i][k] = "star" <=> mask[i][k] = "star"
         /\ Covered(WithPrime(p1, p2), row_mask, col_mask, {<<p1, p2>>})
         /\ \E ord, top : Ordered(WithPrime(p1, p2), ord, top)
  <1> DEFINE m == WithPrime(p1, p2)
  <1>1. Covered(mask, row_mask, col_mask, {}) /\ MaskType(mask) /\ StarsOnce(mask)
    BY DEF AtStep3, Marked
  <1>2. mask[p1][p2] # "star"
    BY <1>1 DEF Covered
  <1>3. m \in [M!Index -> [M!Index -> {"normal", "star", "prime"}]]
    BY <1>1 DEF MaskType, WithPrime
  <1>4. \A i, k \in M!Index : m[i][k] = (IF i = p1 /\ k = p2 THEN "prime" ELSE mask[i][k])
    BY <1>1 DEF MaskType, WithPrime
  <1> HIDE DEF m
  <1>5. \A i, k \in M!Index : m[i][k] = "star" <=> mask[i][k] = "star"
    BY <1>2, <1>4
  <1>6. Marked(m)
    BY <1>1, <1>3, <1>5 DEF Marked, MaskType, StarsOnce
  <1>7. \A i, k \in M!Index : mask[i][k] = "prime" => i # p1
    BY <1>1 DEF Covered
  <1>8. Covered(m, row_mask, col_mask, {<<p1, p2>>})
    <2>1. row_mask \in [M!Index -> BOOLEAN] /\ col_mask \in [M!Index -> BOOLEAN]
      BY <1>1 DEF Covered
    <2>2. \A i, k \in M!Index : m[i][k] = "star" => (row_mask[i] <=> ~col_mask[k])
      BY <1>1, <1>5 DEF Covered
    <2>3. ASSUME NEW i \in M!Index, NEW k \in M!Index, m[i][k] = "prime"
          PROVE  ~col_mask[k] /\ (row_mask[i] \/ <<i, k>> \in {<<p1, p2>>})
      <3>1. CASE i = p1 /\ k = p2
        BY <3>1
      <3>2. CASE ~(i = p1 /\ k = p2)
        <4>1. mask[i][k] = "prime"
          BY <1>4, <2>3, <3>2
        <4> QED BY <1>1, <4>1 DEF Covered
      <3> QED BY <3>1, <3>2
    <2>4. ASSUME NEW i \in M!Index, NEW k \in M!Index, NEW c \in M!Index, m[i][k] = "prime", m[i][c] = "prime"
          PROVE  k = c
      <3>1. CASE i = p1
        BY <1>4, <1>7, <2>4, <3>1
      <3>2. CASE i # p1
        <4>1. mask[i][k] = "prime" /\ mask[i][c] = "prime"
          BY <1>4, <2>4, <3>2
        <4> QED BY <1>1, <4>1 DEF Covered
      <3> QED BY <3>1, <3>2
    <2> QED BY <2>1, <2>2, <2>3, <2>4 DEF Covered
  <1>9. \E ord, top : Ordered(m, ord, top)
    <2>1. PICK ord, top : Ordered(mask, ord, top)
      BY DEF AtStep3
    <2> DEFINE next_ord == [ord EXCEPT ![p1] = top]
    <2>2. /\ top \in Nat /\ ord \in [M!Index -> 0 .. top - 1]
          /\ \A i, k, r \in M!Index : mask[i][k] = "prime" /\ mask[r][k] = "star" => ord[r] < ord[i]
      BY <2>1 DEF Ordered
    <2>3. \A i \in M!Index : ord[i] \in 0 .. top /\ ord[i] < top
      BY <2>2
    <2>4. next_ord \in [M!Index -> 0 .. top + 1 - 1]
      <3>1. top \in 0 .. top /\ top + 1 - 1 = top
        BY <2>2
      <3> QED BY <2>2, <2>3, <3>1
    <2>5. \A i \in M!Index : next_ord[i] = IF i = p1 THEN top ELSE ord[i]
      BY <2>2
    <2> HIDE DEF next_ord
    <2>6. ASSUME NEW i \in M!Index, NEW k \in M!Index, NEW r \in M!Index, m[i][k] = "prime", m[r][k] = "star"
          PROVE  next_ord[r] < next_ord[i]
      <3>1. mask[r][k] = "star"
        BY <1>5, <2>6
      <3>2. CASE i = p1
        <4>1. k = p2
          BY <1>4, <1>7, <2>6, <3>2
        <4>2. r # p1
          BY <1>2, <3>1, <4>1
        <4> QED BY <2>3, <2>5, <3>2, <4>2
      <3>3. CASE i # p1
        <4>1. mask[i][k] = "prime"
          BY <1>4, <2>6, <3>3
        <4>2. r # p1
          BY <1>1, <3>1, <4>1 DEF Covered
        <4> QED BY <2>2, <2>5, <3>1, <3>3, <4>1, <4>2
      <3> QED BY <3>2, <3>3
    <2>7. Ordered(m, next_ord, top + 1)
      BY <2>2, <2>4, <2>6 DEF Ordered
    <2> QED BY <2>7
  <1> QED BY <1>2, <1>4, <1>5, <1>6, <1>8, <1>9 DEF m

(* Step 3 primes an uncovered zero.  In a row without a star a path starts  *)
(* there; otherwise the row is covered instead of the star's column.        *)
LEMMA Step3Marks ==
  ASSUME InputOK, MarksInv, M!Step3
  PROVE  MarksInv'
  <1>1. step = "step3" /\ input' = input
    BY DEF M!Step3
  <1>2. M!Index' = M!Index
    BY <1>1, SameIndex
  <1>3. Marked(mask) /\ AtStep3
    BY <1>1 DEF MarksInv
  <1>4. CASE M!UncoveredZeros = {}
    <2>1. /\ step' = "step5" /\ mask' = mask /\ row_mask' = row_mask /\ col_mask' = col_mask /\ matrix' = matrix
      BY <1>4 DEF M!Step3
    <2>2. Marked(mask)'
      BY <1>2, <1>3, <2>1 DEF Marked, MaskType, StarsOnce
    <2>3. AtStep3'
      <3>1. Covered(mask, row_mask, col_mask, {})'
        BY <1>2, <1>3, <2>1 DEF AtStep3, Covered
      <3>2. PICK ord, top : Ordered(mask, ord, top)
        BY <1>3 DEF AtStep3
      <3>3. Ordered(mask, ord, top)'
        BY <1>2, <2>1, <3>2 DEF Ordered
      <3> QED BY <3>1, <3>3 DEF AtStep3
    <2>4. M!UncoveredZeros' = {}
      BY <1>2, <1>4, <2>1 DEF M!UncoveredZeros
    <2>5. AtStep5'
      BY <2>3, <2>4 DEF AtStep5
    <2> QED BY <2>1, <2>2, <2>5 DEF MarksInv
  <1>5. CASE M!UncoveredZeros # {}
    <2> DEFINE p == M!FirstOf(M!UncoveredZeros)
               m == WithPrime(p[1], p[2])
               starred == {k \in M!Index : m[p[1]][k] = "star"}
    <2>1. /\ mask' = m
          /\ \/ /\ starred # {} /\ step' = "step3" /\ seq' = seq
                /\ row_mask' = [row_mask EXCEPT ![p[1]] = TRUE]
                /\ col_mask' = [col_mask EXCEPT ![M!Min(starred)] = FALSE]
             \/ starred = {} /\ step' = "step4" /\ seq' = <<p>> /\ row_mask' = row_mask /\ col_mask' = col_mask
      BY <1>5 DEF M!Step3, WithPrime
    <2>2. p \in M!UncoveredZeros
      <3>1. M!UncoveredZeros \in SUBSET (M!Index \X M!Index)
        BY DEF M!UncoveredZeros
      <3> QED BY <1>5, <3>1, FirstIsOne
    <2> HIDE DEF p, m, starred
    <2>3. p[1] \in M!Index /\ p[2] \in M!Index /\ ~row_mask[p[1]] /\ ~col_mask[p[2]] /\ p = <<p[1], p[2]>>
      BY <2>2 DEF M!UncoveredZeros
    <2> USE DEF m, starred
    <2>4. /\ mask[p[1]][p[2]] # "star" /\ Marked(m)
          /\ \A i, k \in M!Index : /\ m[i][k] = (IF i = p[1] /\ k = p[2] THEN "prime" ELSE mask[i][k])
                                   /\ m[i][k] = "star" <=> mask[i][k] = "star"
          /\ Covered(m, row_mask, col_mask, {<<p[1], p[2]>>})
          /\ \E ord, top : Ordered(m, ord, top)
      <3> HIDE DEF starred
      <3> QED BY <1>3, <2>3, PrimeMarks
    <2> HIDE DEF m
    <2>5. Marked(mask)'
      BY <1>2, <2>1, <2>4 DEF Marked, MaskType, StarsOnce
    <2>6. (\E ord, top : Ordered(mask, ord, top))'
      <3>1. PICK ord, top : Ordered(m, ord, top)
        BY <2>4
      <3>2. Ordered(mask, ord, top)'
        BY <1>2, <2>1, <3>1 DEF Ordered
      <3> QED BY <3>2
    <2>7. CASE starred # {}
      <3> DEFINE z == M!Min(starred)
      <3>1. /\ step' = "step3" /\ row_mask' = [row_mask EXCEPT ![p[1]] = TRUE]
            /\ col_mask' = [col_mask EXCEPT ![z] = FALSE]
        BY <2>1, <2>7
      <3>2. z \in starred
        <4>1. starred \in SUBSET M!Index
          OBVIOUS
        <4>2. starred \in SUBSET Int /\ IsFiniteSet(starred)
          <5> HIDE DEF starred
          <5> QED BY <4>1, FS_Subset, Square
        <4> HIDE DEF starred
        <4> QED BY <2>7, <4>2, MunkresExtremes
      <3>3. z \in M!Index /\ m[p[1]][z] = "star"
        BY <3>2
      <3> HIDE DEF z, starred
      <3>4. /\ row_mask \in [M!Index -> BOOLEAN] /\ col_mask \in [M!Index -> BOOLEAN]
            /\ \A i, k \in M!Index : m[i][k] = "star" => (row_mask[i] <=> ~col_mask[k])
            /\ \A i, k \in M!Index : m[i][k] = "prime" => ~col_mask[k] /\ (row_mask[i] \/ <<i, k>> \in {<<p[1], p[2]>>})
            /\ \A i, k, c \in M!Index : m[i][k] = "prime" /\ m[i][c] = "prime" => k = c
        BY <2>4 DEF Covered
      <3>5. /\ row_mask' \in [M!Index -> BOOLEAN] /\ col_mask' \in [M!Index -> BOOLEAN]
            /\ \A i \in M!Index : row_mask'[i] <=> (row_mask[i] \/ i = p[1])
            /\ \A k \in M!Index : col_mask'[k] <=> (col_mask[k] /\ k # z)
        BY <2>3, <3>1, <3>3, <3>4
      <3>6. ASSUME NEW i \in M!Index, NEW k \in M!Index, m[i][k] = "star" PROVE row_mask'[i] <=> ~col_mask'[k]
        <4>1. i = p[1] <=> k = z
          BY <2>3, <2>4, <3>3, <3>6 DEF Marked, StarsOnce
        <4>2. row_mask[i] <=> ~col_mask[k]
          BY <3>4, <3>6
        <4> QED BY <3>5, <4>1, <4>2
      <3>7. ASSUME NEW i \in M!Index, NEW k \in M!Index, m[i][k] = "prime" PROVE ~col_mask'[k] /\ row_mask'[i]
        <4>1. ~col_mask[k] /\ (row_mask[i] \/ i = p[1])
          BY <3>4, <3>7
        <4> QED BY <3>5, <4>1
      <3>8. Covered(m, row_mask', col_mask', {})
        BY <3>4, <3>5, <3>6, <3>7 DEF Covered
      <3>9. Covered(mask, row_mask, col_mask, {})'
        BY <1>2, <2>1, <3>8 DEF Covered
      <3>10. AtStep3'
        BY <2>6, <3>9 DEF AtStep3
      <3> QED BY <2>5, <3>1, <3>10 DEF MarksInv
    <2>8. CASE starred = {}
      <3>1. step' = "step4" /\ seq' = <<p>> /\ row_mask' = row_mask /\ col_mask' = col_mask
        BY <2>1, <2>8
      <3>2. Covered(m, row_mask', col_mask', {seq'[1]})
        BY <2>3, <2>4, <3>1 DEF Covered
      <3>3. Covered(mask, row_mask, col_mask, {seq[1]})'
        BY <1>2, <2>1, <3>2 DEF Covered
      <3>4. PICK ord, top : Ordered(m, ord, top)
        BY <2>4
      <3>5. Alternates(<<p>>, m, ord)
        <4> DEFINE q == <<p>>
        <4>1. q \in Seq(M!Index \X M!Index) /\ Len(q) = 1 /\ q[1] = p
          BY <2>3
        <4>2. \A a \in 1 .. 1 : a = 1 /\ a % 2 = 1
          OBVIOUS
        <4>3. 2 .. 1 = {}
          OBVIOUS
        <4>4. m[p[1]][p[2]] = "prime"
          BY <2>3, <2>4
        <4>5. \A k \in M!Index : m[p[1]][k] # "star"
          BY <2>8
        <4> HIDE DEF q, starred
        <4>6. \A a \in 1 .. Len(q) : m[q[a][1]][q[a][2]] = IF a % 2 = 1 THEN "prime" ELSE "star"
          BY <4>1, <4>2, <4>4
        <4>7. \A a, b \in 1 .. Len(q) : a = b /\ ~(a < b)
          BY <4>1
        <4>8. Alternates(q, m, ord)
          BY <4>1, <4>3, <4>5, <4>6, <4>7 DEF Alternates
        <4> QED BY <4>8 DEF q
      <3>6. (\E o, t : Ordered(mask, o, t) /\ Alternates(seq, mask, o))'
        <4>1. Ordered(mask', ord, top) /\ Alternates(seq', mask', ord)
          BY <2>1, <3>1, <3>4, <3>5
        <4>2. \E o, t : Ordered(mask', o, t) /\ Alternates(seq', mask', o)
          BY <4>1
        <4> QED BY <1>2, <4>2, ZenonT(60) DEF Ordered, Alternates
      <3>7. AtStep4'
        BY <3>3, <3>6 DEF AtStep4
      <3> QED BY <2>5, <3>1, <3>7 DEF MarksInv
    <2> QED BY <2>7, <2>8
  <1> QED BY <1>4, <1>5

-----------------------------------------------------------------------------
(* The path of step 4. *)

(* Odd and even numbers alternate. *)
LEMMA Parity ==
  ASSUME NEW a \in Int
  PROVE  /\ a % 2 = 0 \/ a % 2 = 1
         /\ (a + 1) % 2 = 1 - (a % 2)
         /\ (a - 1) % 2 = 1 - (a % 2)
OBVIOUS

(* The cells of a path are marked as the place in it says. *)
LEMMA PathCells ==
  ASSUME InputOK, Marked(mask), NEW ord, Alternates(seq, mask, ord)
  PROVE  /\ Len(seq) \in Nat /\ Len(seq) >= 1 /\ DOMAIN seq = 1 .. Len(seq)
         /\ \A a \in 1 .. Len(seq) :
               /\ a \in Int /\ a >= 1 /\ a <= Len(seq)
               /\ seq[a] \in M!Index \X M!Index /\ seq[a][1] \in M!Index /\ seq[a][2] \in M!Index
               /\ seq[a] = <<seq[a][1], seq[a][2]>>
               /\ a % 2 = 1 => mask[seq[a][1]][seq[a][2]] = "prime"
               /\ a % 2 # 1 => mask[seq[a][1]][seq[a][2]] = "star"
  <1>1. seq \in Seq(M!Index \X M!Index) /\ Len(seq) >= 1
    BY DEF Alternates
  <1>2. Len(seq) \in Nat /\ DOMAIN seq = 1 .. Len(seq)
    BY <1>1
  <1>3. ASSUME NEW a \in 1 .. Len(seq)
        PROVE  /\ a \in Int /\ a >= 1 /\ a <= Len(seq)
               /\ seq[a] \in M!Index \X M!Index
    BY <1>1, <1>2
  <1>4. \A e \in M!Index \X M!Index : e[1] \in M!Index /\ e[2] \in M!Index /\ e = <<e[1], e[2]>>
    OBVIOUS
  <1>5. \A a \in 1 .. Len(seq) : mask[seq[a][1]][seq[a][2]] = IF a % 2 = 1 THEN "prime" ELSE "star"
    BY DEF Alternates
  <1> QED BY <1>1, <1>2, <1>3, <1>4, <1>5

(* The path goes on to a cell of the other mark. *)
LEMMA PathExtends ==
  ASSUME InputOK, Marked(mask), NEW ord, NEW top, Ordered(mask, ord, top), Alternates(seq, mask, ord),
         NEW e \in M!Continuations
  PROVE  Alternates(Append(seq, e), mask, ord) /\ Append(seq, e)[1] = seq[1]
  <1> DEFINE L == Len(seq)
             q == Append(seq, e)
             last == seq[L]
  <1>1. /\ L \in Nat /\ L >= 1 /\ DOMAIN seq = 1 .. L
        /\ \A a \in 1 .. L :
               /\ a \in Int /\ a >= 1 /\ a <= L
               /\ seq[a] \in M!Index \X M!Index /\ seq[a][1] \in M!Index /\ seq[a][2] \in M!Index
               /\ seq[a] = <<seq[a][1], seq[a][2]>>
               /\ a % 2 = 1 => mask[seq[a][1]][seq[a][2]] = "prime"
               /\ a % 2 # 1 => mask[seq[a][1]][seq[a][2]] = "star"
    BY PathCells
  <1>2. /\ e \in M!Index \X M!Index /\ e[1] \in M!Index /\ e[2] \in M!Index
        /\ L % 2 = 1 => e[2] = last[2] /\ mask[e[1]][e[2]] = "star"
        /\ L % 2 # 1 => e[1] = last[1] /\ mask[e[1]][e[2]] = "prime"
        /\ \A i \in DOMAIN seq : seq[i] # e
    BY DEF M!Continuations
  <1>3. seq \in Seq(M!Index \X M!Index)
    BY DEF Alternates
  <1>4. /\ q \in Seq(M!Index \X M!Index) /\ Len(q) = L + 1 /\ q[L + 1] = e
        /\ \A a \in 1 .. L : q[a] = seq[a]
    BY <1>2, <1>3
  <1> HIDE DEF q, L
  <1>5. ASSUME NEW a \in 1 .. L + 1 PROVE a \in Int /\ a >= 1 /\ (a \in 1 .. L \/ a = L + 1)
    BY <1>1
  <1>6. 1 \in 1 .. L /\ L \in 1 .. L /\ 1 <= L + 1
    BY <1>1
  <1>7. \A a \in 1 .. L + 1 : mask[q[a][1]][q[a][2]] = IF a % 2 = 1 THEN "prime" ELSE "star"
    <2>1. (L + 1) % 2 = 1 <=> L % 2 # 1
      BY <1>1, Parity
    <2>2. \A a \in 1 .. L : mask[q[a][1]][q[a][2]] = IF a % 2 = 1 THEN "prime" ELSE "star"
      BY <1>1, <1>4
    <2> QED BY <1>2, <1>4, <1>5, <2>1, <2>2
  <1>8. ASSUME NEW a \in 2 .. L + 1
        PROVE  IF a % 2 = 0 THEN q[a][2] = q[a - 1][2] ELSE q[a][1] = q[a - 1][1]
    <2>1. CASE a = L + 1
      <3>1. a - 1 = L /\ q[a - 1] = last /\ q[a] = e
        BY <1>1, <1>4, <1>6, <2>1
      <3>2. a % 2 = 0 <=> L % 2 = 1
        BY <1>1, <2>1, Parity
      <3>3. L % 2 # 1 => a % 2 # 0
        BY <3>2
      <3> HIDE DEF last
      <3> QED BY <1>2, <3>1, <3>2, <3>3
    <2>2. CASE a # L + 1
      <3>1. a \in 2 .. L /\ a \in 1 .. L /\ a - 1 \in 1 .. L
        BY <1>1, <2>2
      <3>2. IF a % 2 = 0 THEN seq[a][2] = seq[a - 1][2] ELSE seq[a][1] = seq[a - 1][1]
        BY <3>1 DEF Alternates, L
      <3> QED BY <1>4, <3>1, <3>2
    <2> QED BY <2>1, <2>2
  <1>9. ASSUME NEW a \in 1 .. L + 1, NEW b \in 1 .. L + 1, q[a] = q[b] PROVE a = b
    <2>1. \A c, d \in 1 .. L : seq[c] = seq[d] => c = d
      BY DEF Alternates, L
    <2>2. \A c \in 1 .. L : seq[c] # e
      BY <1>1, <1>2
    <2> QED BY <1>4, <1>5, <1>9, <2>1, <2>2
  <1>10. q[1] = seq[1] /\ \A k \in M!Index : mask[q[1][1]][k] # "star"
    <2>1. \A k \in M!Index : mask[seq[1][1]][k] # "star"
      BY DEF Alternates
    <2> QED BY <1>4, <1>6, <2>1
  <1>11. \A c, d \in 1 .. L : c % 2 = 1 /\ d % 2 = 1 /\ c < d => ord[seq[d][1]] < ord[seq[c][1]]
    BY DEF Alternates, L
  <1>12. ASSUME NEW a \in 1 .. L + 1, NEW b \in 1 .. L + 1, a % 2 = 1, b % 2 = 1, a < b
         PROVE  ord[q[b][1]] < ord[q[a][1]]
    <2>1. CASE b \in 1 .. L
      <3>1. a \in 1 .. L
        BY <1>1, <1>5, <1>12, <2>1
      <3> QED BY <1>4, <1>11, <1>12, <2>1, <3>1
    <2>2. CASE b = L + 1
      <3>1. L % 2 = 0 /\ L \in Int /\ a \in 1 .. L /\ a \in Int
        <4>1. L \in Int /\ (L + 1) % 2 = 1
          BY <1>1, <1>12, <2>2
        <4>2. L % 2 = 0
          BY <4>1, Parity
        <4>3. a \in 1 .. L
          BY <1>1, <1>5, <1>12, <2>2
        <4> QED BY <1>5, <4>1, <4>2, <4>3
      <3>2. L # 1 /\ L - 1 \in 1 .. L /\ (L - 1) % 2 = 1 /\ L \in 2 .. L
        <4>1. L # 1
          BY <3>1
        <4>2. (L - 1) % 2 = 1
          BY <3>1, Parity
        <4> QED BY <1>1, <4>1, <4>2
      <3> DEFINE p == seq[L - 1]
      <3>3. last[2] = p[2] /\ mask[last[1]][last[2]] = "star" /\ mask[p[1]][p[2]] = "prime"
            /\ last[1] \in M!Index /\ p[1] \in M!Index /\ p[2] \in M!Index
        <4>1. last[2] = p[2]
          BY <3>1, <3>2 DEF Alternates, L
        <4>2. L % 2 # 1
          BY <3>1
        <4> QED BY <1>1, <1>6, <3>2, <4>1, <4>2
      <3>4. ord[last[1]] < ord[p[1]]
        <4> HIDE DEF last, p
        <4> QED BY <3>3 DEF Ordered
      <3>5. q[b] = e /\ e[1] = last[1]
        <4>1. L % 2 # 1
          BY <3>1
        <4> QED BY <1>2, <1>4, <2>2, <4>1
      <3>6. q[a] = seq[a] /\ seq[a][1] \in M!Index
        BY <1>1, <1>4, <3>1
      <3> DEFINE oe == ord[last[1]]
                 op == ord[p[1]]
                 oa == ord[seq[a][1]]
      <3>7. oe \in Int /\ op \in Int /\ oa \in Int
        <4>1. top \in Nat /\ ord \in [M!Index -> 0 .. top - 1]
          BY DEF Ordered
        <4>2. \A i \in M!Index : ord[i] \in Int
          BY <4>1
        <4> HIDE DEF last, p
        <4> QED BY <3>3, <3>6, <4>2
      <3>8. a = L - 1 \/ op < oa
        <4>1. CASE a < L - 1
          BY <1>11, <1>12, <3>1, <3>2, <4>1
        <4>2. CASE ~(a < L - 1)
          <5>1. a # L
            BY <1>12, <3>1
          <5> QED BY <1>5, <3>1, <4>2, <5>1
        <4> QED BY <4>1, <4>2
      <3>9. oe < oa
        <4>1. a = L - 1 => op = oa
          OBVIOUS
        <4> HIDE DEF oe, op, oa, p, last
        <4>2. oe < op
          BY <3>4 DEF oe, op
        <4> QED BY <3>7, <3>8, <4>1, <4>2
      <3> HIDE DEF p, last
      <3> QED BY <3>5, <3>6, <3>9
    <2> QED BY <1>5, <2>1, <2>2
  <1>13. Alternates(q, mask, ord)
    BY <1>4, <1>6, <1>7, <1>8, <1>9, <1>10, <1>12, <1>1 DEF Alternates
  <1> QED BY <1>10, <1>13 DEF q

(* Step 4 follows the path. *)
LEMMA ExtendMarks ==
  ASSUME InputOK, MarksInv, M!Step4Extend
  PROVE  MarksInv'
  <1>1. /\ step = "step4" /\ M!Continuations # {} /\ input' = input /\ step' = step /\ mask' = mask
        /\ row_mask' = row_mask /\ col_mask' = col_mask
        /\ seq' = Append(seq, M!FirstOf(M!Continuations))
    BY DEF M!Step4Extend
  <1>2. M!Index' = M!Index
    BY <1>1, SameIndex
  <1>3. Marked(mask) /\ AtStep4
    BY <1>1 DEF MarksInv
  <1>4. M!FirstOf(M!Continuations) \in M!Continuations
    <2>1. M!Continuations \in SUBSET (M!Index \X M!Index)
      BY DEF M!Continuations
    <2> QED BY <1>1, <2>1, FirstIsOne
  <1>5. PICK ord, top : Ordered(mask, ord, top) /\ Alternates(seq, mask, ord)
    BY <1>3 DEF AtStep4
  <1>6. Alternates(seq', mask, ord) /\ seq'[1] = seq[1]
    BY <1>1, <1>3, <1>4, <1>5, PathExtends
  <1>7. Marked(mask)'
    BY <1>1, <1>2, <1>3 DEF Marked, MaskType, StarsOnce
  <1>8. Covered(mask, row_mask, col_mask, {seq[1]})'
    <2>1. Covered(mask, row_mask, col_mask, {seq[1]})
      BY <1>3 DEF AtStep4
    <2> QED BY <1>1, <1>2, <1>6, <2>1 DEF Covered
  <1>9. Ordered(mask, ord, top)'
    BY <1>1, <1>2, <1>5 DEF Ordered
  <1>10. Alternates(seq, mask, ord)'
    BY <1>1, <1>2, <1>6 DEF Alternates
  <1>11. AtStep4'
    BY <1>8, <1>9, <1>10 DEF AtStep4
  <1> QED BY <1>1, <1>7, <1>11 DEF MarksInv

OnPath(i, k) == \E l \in DOMAIN seq : seq[l] = <<i, k>>

(* What the flip of a path that goes no further meets. *)
LEMMA PathEnds ==
  ASSUME InputOK, Marked(mask), NEW ord, NEW top, Ordered(mask, ord, top), Alternates(seq, mask, ord),
         M!Continuations = {}
  PROVE  /\ \A i, k, c \in M!Index :
               OnPath(i, k) /\ mask[i][k] = "prime" /\ mask[i][c] = "star" => OnPath(i, c)
         /\ \A i, k, r \in M!Index :
               OnPath(i, k) /\ mask[i][k] = "prime" /\ mask[r][k] = "star" => OnPath(r, k)
         /\ \A i, k, r \in M!Index :
               OnPath(i, k) /\ mask[i][k] = "prime" /\ OnPath(r, k) /\ mask[r][k] = "prime" => i = r
  <1> DEFINE L == Len(seq)
  <1>1. /\ L \in Nat /\ L >= 1 /\ DOMAIN seq = 1 .. L
        /\ \A a \in 1 .. L :
               /\ a \in Int /\ a >= 1 /\ a <= L
               /\ seq[a] \in M!Index \X M!Index /\ seq[a][1] \in M!Index /\ seq[a][2] \in M!Index
               /\ seq[a] = <<seq[a][1], seq[a][2]>>
               /\ a % 2 = 1 => mask[seq[a][1]][seq[a][2]] = "prime"
               /\ a % 2 # 1 => mask[seq[a][1]][seq[a][2]] = "star"
    BY PathCells
  <1>2. /\ \A a \in 2 .. L : IF a % 2 = 0 THEN seq[a][2] = seq[a - 1][2] ELSE seq[a][1] = seq[a - 1][1]
        /\ \A k \in M!Index : mask[seq[1][1]][k] # "star"
        /\ \A a, b \in 1 .. L : a % 2 = 1 /\ b % 2 = 1 /\ a < b => ord[seq[b][1]] < ord[seq[a][1]]
    BY DEF Alternates
  <1> HIDE DEF L
  <1>3. StarsOnce(mask)
    BY DEF Marked
  <1>4. \A i \in M!Index : ord[i] \in Int
    <2>1. top \in Nat /\ ord \in [M!Index -> 0 .. top - 1]
      BY DEF Ordered
    <2> QED BY <2>1
  <1>5. ASSUME NEW i \in M!Index, NEW k \in M!Index, OnPath(i, k), mask[i][k] = "prime"
        PROVE  \E l \in 1 .. L : seq[l] = <<i, k>> /\ l % 2 = 1 /\ seq[l][1] = i /\ seq[l][2] = k
    <2>1. PICK l \in 1 .. L : seq[l] = <<i, k>>
      BY <1>1, <1>5 DEF OnPath
    <2>2. seq[l][1] = i /\ seq[l][2] = k
      BY <2>1
    <2>3. l % 2 = 1
      BY <1>1, <1>5, <2>2
    <2> QED BY <2>1, <2>2, <2>3
  <1>6. ASSUME NEW a \in 1 .. L, a % 2 = 1, a # L
        PROVE  /\ a + 1 \in 1 .. L /\ mask[seq[a + 1][1]][seq[a + 1][2]] = "star"
               /\ seq[a + 1][2] = seq[a][2]
    <2>1. a + 1 \in 2 .. L /\ a + 1 \in 1 .. L /\ a + 1 - 1 = a /\ a \in Int
      <3>1. L \in Nat /\ a \in Int /\ a >= 1 /\ a <= L
        BY <1>1
      <3> QED BY <1>6, <3>1
    <2>2. (a + 1) % 2 = 0
      BY <1>6, <2>1, Parity
    <2>3. (a + 1) % 2 # 1
      BY <2>2
    <2>4. seq[a + 1][2] = seq[a + 1 - 1][2]
      BY <1>2, <2>1, <2>2
    <2> QED BY <1>1, <2>1, <2>3, <2>4
  <1>7. ASSUME NEW i \in M!Index, NEW k \in M!Index, NEW c \in M!Index,
               OnPath(i, k), mask[i][k] = "prime", mask[i][c] = "star"
        PROVE  OnPath(i, c)
    <2>1. PICK l \in 1 .. L : seq[l] = <<i, k>> /\ l % 2 = 1 /\ seq[l][1] = i
      BY <1>5, <1>7
    <2>2. l # 1
      BY <1>2, <1>7, <2>1
    <2>3. l \in 2 .. L /\ l - 1 \in 1 .. L /\ l \in Int
      BY <1>1, <2>2
    <2>4. (l - 1) % 2 # 1 /\ l % 2 # 0
      <3>1. (l - 1) % 2 = 0
        BY <2>1, <2>3, Parity
      <3> QED BY <2>1, <3>1
    <2>5. seq[l - 1][1] = i
      BY <1>2, <2>1, <2>3, <2>4
    <2>6. mask[i][seq[l - 1][2]] = "star" /\ seq[l - 1][2] \in M!Index /\ seq[l - 1] = <<i, seq[l - 1][2]>>
      BY <1>1, <2>3, <2>4, <2>5
    <2>7. seq[l - 1][2] = c
      BY <1>3, <1>7, <2>6 DEF StarsOnce
    <2> QED BY <1>1, <2>3, <2>6, <2>7 DEF OnPath
  <1>8. ASSUME NEW i \in M!Index, NEW k \in M!Index, NEW r \in M!Index,
               OnPath(i, k), mask[i][k] = "prime", mask[r][k] = "star"
        PROVE  OnPath(r, k)
    <2>1. PICK l \in 1 .. L : seq[l] = <<i, k>> /\ l % 2 = 1 /\ seq[l][2] = k
      BY <1>5, <1>8
    <2>2. CASE l # L
      <3>1. /\ l + 1 \in 1 .. L /\ mask[seq[l + 1][1]][seq[l + 1][2]] = "star" /\ seq[l + 1][2] = k
        BY <1>6, <2>1, <2>2
      <3>2. seq[l + 1][1] \in M!Index /\ seq[l + 1] = <<seq[l + 1][1], seq[l + 1][2]>>
        BY <1>1, <3>1
      <3>3. seq[l + 1][1] = r
        BY <1>3, <1>8, <3>1, <3>2 DEF StarsOnce
      <3> QED BY <1>1, <3>1, <3>2, <3>3 DEF OnPath
    <2>3. CASE l = L
      <3> SUFFICES ASSUME ~OnPath(r, k) PROVE FALSE
        OBVIOUS
      <3> DEFINE e == <<r, k>>
      <3>1. e \in M!Index \X M!Index /\ e[1] = r /\ e[2] = k
        OBVIOUS
      <3>2. \A a \in DOMAIN seq : seq[a] # e
        BY DEF OnPath
      <3>3. Len(seq) % 2 = 1 /\ seq[Len(seq)][2] = k
        BY <2>1, <2>3 DEF L
      <3> HIDE DEF e
      <3>4. e \in M!Continuations
        BY <1>8, <3>1, <3>2, <3>3 DEF M!Continuations
      <3> QED BY <3>4
    <2> QED BY <2>2, <2>3
  <1>9. ASSUME NEW a \in 1 .. L, NEW b \in 1 .. L, a % 2 = 1, b % 2 = 1, a < b, seq[a][2] = seq[b][2]
        PROVE  FALSE
    <2>0. L \in Nat /\ a \in Int /\ a >= 1 /\ a <= L /\ b \in Int /\ b >= 1 /\ b <= L
      BY <1>1
    <2>1. a \in Int /\ b \in Int /\ a # L /\ a + 1 \in Int
      BY <1>9, <2>0
    <2>2. a + 1 \in 1 .. L /\ mask[seq[a + 1][1]][seq[a + 1][2]] = "star" /\ seq[a + 1][2] = seq[a][2]
      BY <1>6, <1>9, <2>1
    <2>3. (a + 1) % 2 = 0 /\ (a + 1 + 1) % 2 = 1
      <3>1. (a + 1) % 2 = 0
        BY <1>9, <2>1, Parity
      <3> QED BY <2>1, <3>1, Parity
    <2>4. b # a + 1
      BY <1>9, <2>3
    <2> DEFINE f == a + 1 + 1
    <2>5. f \in 2 .. L /\ f \in 1 .. L /\ f - 1 = a + 1 /\ f <= b
      BY <1>9, <2>0, <2>4
    <2>6. f % 2 = 1
      BY <2>3
    <2> HIDE DEF f
    <2>7. seq[f][1] = seq[a + 1][1]
      <3>1. f % 2 # 0
        BY <2>6
      <3> QED BY <1>2, <2>5, <3>1
    <2> DEFINE s == seq[a + 1][1]
               r == seq[b][1]
               k == seq[b][2]
    <2>8. /\ s \in M!Index /\ r \in M!Index /\ k \in M!Index
          /\ mask[s][k] = "star" /\ mask[r][k] = "prime"
      BY <1>1, <1>9, <2>2
    <2>9. ord[s] < ord[r]
      <3> HIDE DEF s, r, k
      <3> QED BY <2>8 DEF Ordered
    <2>10. f = b \/ ord[r] < ord[s]
      <3>1. CASE f < b
        BY <1>2, <1>9, <2>5, <2>6, <2>7, <3>1
      <3>2. CASE ~(f < b)
        BY <2>0, <2>5, <3>2
      <3> QED BY <3>1, <3>2
    <2>11. f = b => s = r
      BY <2>7
    <2> DEFINE os == ord[s]
               or == ord[r]
    <2>12. os \in Int /\ or \in Int
      <3> HIDE DEF s, r
      <3> QED BY <1>4, <2>8
    <2>13. os < or /\ (os = or \/ or < os)
      <3> HIDE DEF s, r
      <3> QED BY <2>9, <2>10, <2>11
    <2> HIDE DEF os, or
    <2> QED BY <2>12, <2>13
  <1>10. ASSUME NEW i \in M!Index, NEW k \in M!Index, NEW r \in M!Index,
                OnPath(i, k), mask[i][k] = "prime", OnPath(r, k), mask[r][k] = "prime"
         PROVE  i = r
    <2>1. PICK a \in 1 .. L : a % 2 = 1 /\ seq[a][1] = i /\ seq[a][2] = k
      BY <1>5, <1>10
    <2>2. PICK b \in 1 .. L : b % 2 = 1 /\ seq[b][1] = r /\ seq[b][2] = k
      BY <1>5, <1>10
    <2>3. ~(a < b) /\ ~(b < a)
      BY <1>9, <2>1, <2>2
    <2>4. a = b
      BY <1>1, <2>3
    <2> QED BY <2>1, <2>2, <2>4
  <1> QED BY <1>7, <1>8, <1>10

(* After the flip the stars still share no row and no column. *)
LEMMA FlipMarks ==
  ASSUME InputOK, MarksInv, M!Step4Flip
  PROVE  MarksInv'
  <1> DEFINE Flipped(i, k) == IF OnPath(i, k) THEN (IF mask[i][k] = "prime" THEN "star" ELSE "normal")
                              ELSE (IF mask[i][k] = "prime" THEN "normal" ELSE mask[i][k])
  <1>1. /\ step = "step4" /\ M!Continuations = {} /\ input' = input /\ step' = "step2"
        /\ row_mask' = M!None /\ col_mask' = M!None
        /\ mask' = [i \in M!Index |-> [k \in M!Index |-> Flipped(i, k)]]
    BY DEF M!Step4Flip, OnPath
  <1>2. M!Index' = M!Index
    BY <1>1, SameIndex
  <1>3. Marked(mask) /\ AtStep4
    BY <1>1 DEF MarksInv
  <1>4. PICK ord, top : Ordered(mask, ord, top) /\ Alternates(seq, mask, ord)
    BY <1>3 DEF AtStep4
  <1>5. /\ \A i, k, c \in M!Index :
               OnPath(i, k) /\ mask[i][k] = "prime" /\ mask[i][c] = "star" => OnPath(i, c)
        /\ \A i, k, r \in M!Index :
               OnPath(i, k) /\ mask[i][k] = "prime" /\ mask[r][k] = "star" => OnPath(r, k)
        /\ \A i, k, r \in M!Index :
               OnPath(i, k) /\ mask[i][k] = "prime" /\ OnPath(r, k) /\ mask[r][k] = "prime" => i = r
    BY <1>1, <1>3, <1>4, PathEnds
  <1>6. \A i, k, c \in M!Index : mask[i][k] = "prime" /\ mask[i][c] = "prime" => k = c
    BY <1>3 DEF AtStep4, Covered
  <1>7. \A i, k \in M!Index : mask[i][k] \in {"normal", "star", "prime"}
    BY <1>3 DEF Marked, MaskType
  <1>8. \A i, k \in M!Index : mask'[i][k] = Flipped(i, k)
    BY <1>1
  <1>9. MaskType(mask')
    <2>1. \A i, k \in M!Index : Flipped(i, k) \in {"normal", "star", "prime"}
      BY <1>7
    <2> HIDE DEF Flipped
    <2> QED BY <1>1, <2>1 DEF MaskType
  <1>10. NoPrime(mask')
    BY <1>7, <1>8 DEF NoPrime
  <1>11. \A i, k \in M!Index : mask'[i][k] = "star" =>
            (OnPath(i, k) /\ mask[i][k] = "prime") \/ (~OnPath(i, k) /\ mask[i][k] = "star")
    BY <1>8
  <1>12. ASSUME NEW i \in M!Index, NEW k \in M!Index, NEW r \in M!Index, NEW c \in M!Index,
                mask'[i][k] = "star", mask'[r][c] = "star"
         PROVE  i = r <=> k = c
    <2>1. CASE ~OnPath(i, k) /\ mask[i][k] = "star" /\ ~OnPath(r, c) /\ mask[r][c] = "star"
      BY <1>3, <2>1 DEF Marked, StarsOnce
    <2>2. CASE OnPath(i, k) /\ mask[i][k] = "prime" /\ ~OnPath(r, c) /\ mask[r][c] = "star"
      BY <1>5, <2>2
    <2>3. CASE ~OnPath(i, k) /\ mask[i][k] = "star" /\ OnPath(r, c) /\ mask[r][c] = "prime"
      BY <1>5, <2>3
    <2>4. CASE OnPath(i, k) /\ mask[i][k] = "prime" /\ OnPath(r, c) /\ mask[r][c] = "prime"
      BY <1>5, <1>6, <2>4
    <2> QED BY <1>11, <1>12, <2>1, <2>2, <2>3, <2>4
  <1>13. StarsOnce(mask')
    BY <1>12 DEF StarsOnce
  <1>14. Marked(mask)'
    BY <1>2, <1>9, <1>13 DEF Marked, MaskType, StarsOnce
  <1>15. AtStep2'
    <2>1. M!None' = M!None
      BY <1>2 DEF M!None
    <2> QED BY <1>1, <1>2, <1>10, <2>1 DEF AtStep2, Clean, NoPrime
  <1> QED BY <1>1, <1>14, <1>15 DEF MarksInv

(* Step 5 leaves the marks alone. *)
LEMMA Step5Marks ==
  ASSUME InputOK, MarksInv, M!Step5
  PROVE  MarksInv'
  <1>1. /\ step = "step5" /\ step' = "step3" /\ input' = input /\ mask' = mask
        /\ row_mask' = row_mask /\ col_mask' = col_mask
    BY DEF M!Step5
  <1>2. M!Index' = M!Index
    BY <1>1, SameIndex
  <1>3. Marked(mask) /\ AtStep3
    BY <1>1 DEF MarksInv, AtStep5
  <1>4. Marked(mask)'
    BY <1>1, <1>2, <1>3 DEF Marked, MaskType, StarsOnce
  <1>5. Covered(mask, row_mask, col_mask, {})'
    BY <1>1, <1>2, <1>3 DEF AtStep3, Covered
  <1>6. PICK ord, top : Ordered(mask, ord, top)
    BY <1>3 DEF AtStep3
  <1>7. Ordered(mask, ord, top)'
    BY <1>1, <1>2, <1>6 DEF Ordered
  <1>8. AtStep3'
    BY <1>5, <1>7 DEF AtStep3
  <1> QED BY <1>1, <1>4, <1>8 DEF MarksInv

-----------------------------------------------------------------------------
(* The matrix that Munkres reduces. *)

(* A cost of a call is a number or NaN. *)
CallOK == /\ InputOK
          /\ \A i \in 0 .. input.rows - 1, k \in 0 .. input.cols - 1 : input.c[i][k] \in Int \union {NaN}

(* No cost is below zero. *)
NoneBelow == \A i \in 0 .. input.rows - 1, k \in 0 .. input.cols - 1 : M!Cost(i, k) >= 0

(* The values of a function on a finite set are finitely many. *)
LEMMA ImageFinite ==
  ASSUME NEW D, IsFiniteSet(D), NEW f
  PROVE  IsFiniteSet({f[d] : d \in D})
  <1> DEFINE T == {f[d] : d \in D}
             g == [d \in D |-> f[d]]
  <1>1. g \in Surjection(D, T)
    BY DEF Surjection
  <1> HIDE DEF T, g
  <1>2. IsFiniteSet(T)
    BY <1>1, FS_Surjection
  <1> QED BY <1>2 DEF T

(* The cells are finitely many pairs of indices. *)
LEMMA CellsOfMatrix ==
  ASSUME InputOK
  PROVE  /\ M!Cells = (0 .. input.rows - 1) \X (0 .. input.cols - 1)
         /\ M!Cells \in SUBSET (M!Index \X M!Index) /\ <<0, 0>> \in M!Cells
         /\ IsFiniteSet(M!Index \X M!Index)
         /\ \A T \in SUBSET (M!Index \X M!Index) : IsFiniteSet(T) /\ Cardinality(T) \in Nat
         /\ \A i, k : <<i, k>> \in M!Cells <=> i \in 0 .. input.rows - 1 /\ k \in 0 .. input.cols - 1
  <1>1. M!Cells = (0 .. input.rows - 1) \X (0 .. input.cols - 1)
    BY DEF M!Cells
  <1>2. input.rows \in Nat \ {0} /\ input.cols \in Nat \ {0}
    BY DEF InputOK
  <1>3. 0 .. input.rows - 1 \subseteq M!Index /\ 0 .. input.cols - 1 \subseteq M!Index
        /\ 0 \in 0 .. input.rows - 1 /\ 0 \in 0 .. input.cols - 1
    <2>1. M!size \in Nat /\ input.rows <= M!size /\ input.cols <= M!size /\ M!Index = 0 .. M!size - 1
      BY Square
    <2> QED BY <1>2, <2>1
  <1>4. IsFiniteSet(M!Index \X M!Index)
    BY Square, FS_Product
  <1>5. \A T \in SUBSET (M!Index \X M!Index) : IsFiniteSet(T) /\ Cardinality(T) \in Nat
    <2> DEFINE P == M!Index \X M!Index
    <2>1. IsFiniteSet(P)
      BY <1>4
    <2> HIDE DEF P
    <2>2. \A T \in SUBSET P : IsFiniteSet(T) /\ Cardinality(T) \in Nat
      BY <2>1, FS_Subset, FS_CardinalityType
    <2> QED BY <2>2 DEF P
  <1>6. \A i, k : <<i, k>> \in M!Cells <=> i \in 0 .. input.rows - 1 /\ k \in 0 .. input.cols - 1
    BY <1>1
  <1>7. M!Cells \in SUBSET (M!Index \X M!Index) /\ <<0, 0>> \in M!Cells
    BY <1>1, <1>3
  <1> QED BY <1>1, <1>4, <1>5, <1>6, <1>7

(* A cost is an integer once it is capped and NaN is replaced. *)
LEMMA CostIs ==
  ASSUME CallOK, NEW i \in 0 .. input.rows - 1, NEW k \in 0 .. input.cols - 1
  PROVE  /\ M!Cost(i, k) \in Int
         /\ M!Capped(i, k) = NaN \/ M!Capped(i, k) <= CostLimit => M!Cost(i, k) <= CostLimit
  <1>1. input.c[i][k] \in Int \union {NaN}
    BY DEF CallOK
  <1>2. CostLimit \in Nat /\ NaN \notin Int
    BY CostLimitAssumption, NaNAssumption
  <1>3. M!Capped(i, k) \in Int \union {NaN}
    <2>1. CASE input.c[i][k] # NaN /\ input.c[i][k] > CostLimit
      <3>1. M!Capped(i, k) = CostLimit + 1
        BY <2>1 DEF M!Capped
      <3> QED BY <1>2, <3>1
    <2>2. CASE ~(input.c[i][k] # NaN /\ input.c[i][k] > CostLimit)
      <3>1. M!Capped(i, k) = input.c[i][k]
        BY <2>2 DEF M!Capped
      <3> QED BY <1>1, <3>1
    <2> QED BY <2>1, <2>2
  <1>4. CASE M!Capped(i, k) = NaN
    <2>1. M!Cost(i, k) = 0
      BY <1>4 DEF M!Cost
    <2> QED BY <1>2, <2>1
  <1>5. CASE M!Capped(i, k) # NaN
    <2>1. M!Cost(i, k) = M!Capped(i, k)
      BY <1>5 DEF M!Cost
    <2> QED BY <1>3, <1>5, <2>1
  <1> QED BY <1>4, <1>5

(* The square matrix holds the costs, and outside them their maximum. *)
LEMMA SquaredIs ==
  ASSUME CallOK
  PROVE  /\ M!mmax \in Int
         /\ NoneBelow => M!mmax >= 0
         /\ M!Squared \in [M!Index -> [M!Index -> Int]]
         /\ \A i, k \in M!Index :
               /\ M!Squared[i][k] = IF <<i, k>> \in M!Cells THEN M!Cost(i, k) ELSE M!mmax
               /\ NoneBelow => M!Squared[i][k] >= 0
  <1> DEFINE S == {M!Cost(p[1], p[2]) : p \in M!Cells}
             f == [p \in M!Cells |-> M!Cost(p[1], p[2])]
  <1>0. InputOK
    BY DEF CallOK
  <1>1. \A p \in M!Cells : p[1] \in 0 .. input.rows - 1 /\ p[2] \in 0 .. input.cols - 1 /\ M!Cost(p[1], p[2]) \in Int
    <2>1. \A p \in M!Cells : p[1] \in 0 .. input.rows - 1 /\ p[2] \in 0 .. input.cols - 1
      BY <1>0, CellsOfMatrix
    <2> QED BY <2>1, CostIs
  <1>2. S \in SUBSET Int /\ S # {}
    BY <1>0, <1>1, CellsOfMatrix
  <1>3. IsFiniteSet(S)
    <2>1. S = {f[p] : p \in M!Cells}
      OBVIOUS
    <2>2. IsFiniteSet(M!Cells)
      BY <1>0, CellsOfMatrix
    <2> HIDE DEF S, f
    <2> QED BY <2>1, <2>2, ImageFinite
  <1>4. M!mmax \in S
    <2>1. M!mmax = M!Max(S)
      BY DEF M!mmax
    <2> HIDE DEF S
    <2> QED BY <1>2, <1>3, <2>1, MunkresExtremes
  <1>5. M!mmax \in Int /\ (NoneBelow => M!mmax >= 0)
    <2>1. PICK p \in M!Cells : M!mmax = M!Cost(p[1], p[2])
      BY <1>4
    <2> QED BY <1>1, <2>1 DEF NoneBelow
  <1>6. ASSUME NEW i \in M!Index, NEW k \in M!Index
        PROVE  /\ M!Squared[i][k] = IF <<i, k>> \in M!Cells THEN M!Cost(i, k) ELSE M!mmax
               /\ M!Squared[i][k] \in Int
               /\ NoneBelow => M!Squared[i][k] >= 0
    <2>1. M!Squared[i][k] = IF <<i, k>> \in M!Cells THEN M!Cost(i, k) ELSE M!mmax
      BY DEF M!Squared
    <2>2. CASE <<i, k>> \in M!Cells
      <3>1. i \in 0 .. input.rows - 1 /\ k \in 0 .. input.cols - 1
        BY <1>0, <2>2, CellsOfMatrix
      <3>2. M!Cost(i, k) \in Int
        BY <3>1, CostIs
      <3> QED BY <2>1, <2>2, <3>1, <3>2 DEF NoneBelow
    <2>3. CASE <<i, k>> \notin M!Cells
      BY <1>5, <2>1, <2>3
    <2> QED BY <2>2, <2>3, <2>1
  <1>7. M!Squared \in [M!Index -> [M!Index -> Int]]
    <2>1. M!Squared = [i \in M!Index |-> M!Squared[i]] /\ \A i \in M!Index : M!Squared[i] = [k \in M!Index |-> M!Squared[i][k]]
      BY DEF M!Squared
    <2> QED BY <1>6, <2>1
  <1> QED BY <1>5, <1>6, <1>7

(* The amount a line is lowered by. *)
LEMMA LineMinIs ==
  ASSUME NEW S \in SUBSET Int, IsFiniteSet(S), S # {}
  PROVE  /\ M!LineMin(S) \in Int
         /\ (\A e \in S : e >= 0) => \A e \in S : M!LineMin(S) <= e
  <1> DEFINE least == M!Min(S)
             T == {0, least}
  <1>1. least \in Int /\ least \in S /\ \A e \in S : least <= e
    BY MunkresExtremes
  <1> HIDE DEF least
  <1>2. T \in SUBSET Int /\ T # {}
    BY <1>1
  <1>3. IsFiniteSet(T)
    <2>1. IsFiniteSet({0}) /\ T = {0} \union {least}
      BY FS_Singleton
    <2> HIDE DEF T
    <2> QED BY <2>1, FS_AddElement
  <1>4. M!Max(T) \in T
    <2> HIDE DEF T
    <2> QED BY <1>2, <1>3, MunkresExtremes
  <1>5. M!LineMin(S) = M!Max(T)
    BY DEF M!LineMin, least
  <1>6. M!LineMin(S) = 0 \/ M!LineMin(S) = least
    BY <1>4, <1>5
  <1>7. ASSUME \A e \in S : e >= 0, NEW e \in S PROVE M!LineMin(S) <= e
    BY <1>1, <1>6, <1>7
  <1> QED BY <1>1, <1>6, <1>7

(* The matrix is the square one less a price for every row and column. *)
Priced(m) == \E a, b \in [M!Index -> Int] :
                \A i, k \in M!Index : m[i][k] = M!Squared[i][k] - (a[i] + b[k])

(* Stars and primes are on zeros. *)
OnZeros(m, t) == \A i, k \in M!Index : m[i][k] # "normal" => t[i][k] = 0

NotBelow(t) == NoneBelow => \A i, k \in M!Index : t[i][k] >= 0

MatrixOK(t) == t \in [M!Index -> [M!Index -> Int]] /\ Priced(t) /\ NotBelow(t)

MatrixInv == step # "solve" => MatrixOK(matrix) /\ OnZeros(mask, matrix)

(* Lowering rows and columns changes prices only. *)
LEMMA Repriced ==
  ASSUME CallOK, NEW t, MatrixOK(t), NEW a \in [M!Index -> Int], NEW b \in [M!Index -> Int], NEW s,
         s \in [M!Index -> [M!Index -> Int]],
         \A i, k \in M!Index : s[i][k] = t[i][k] - (a[i] + b[k])
  PROVE  Priced(s)
  <1>1. PICK c, d \in [M!Index -> Int] : \A i, k \in M!Index : t[i][k] = M!Squared[i][k] - (c[i] + d[k])
    BY DEF MatrixOK, Priced
  <1> DEFINE e == [i \in M!Index |-> a[i] + c[i]]
             f == [k \in M!Index |-> b[k] + d[k]]
  <1>2. e \in [M!Index -> Int] /\ f \in [M!Index -> Int]
    BY <1>1
  <1>3. \A i \in M!Index : e[i] = a[i] + c[i] /\ f[i] = b[i] + d[i]
    OBVIOUS
  <1> HIDE DEF e, f
  <1>4. ASSUME NEW i \in M!Index, NEW k \in M!Index PROVE s[i][k] = M!Squared[i][k] - (e[i] + f[k])
    <2> DEFINE q == M!Squared[i][k]
    <2>1. q \in Int
      BY SquaredIs
    <2>2. a[i] \in Int /\ b[k] \in Int /\ c[i] \in Int /\ d[k] \in Int
      BY <1>1
    <2>3. s[i][k] = q - (c[i] + d[k]) - (a[i] + b[k])
      BY <1>1
    <2> HIDE DEF q
    <2>4. s[i][k] = q - (e[i] + f[k])
      BY <1>3, <2>1, <2>2, <2>3
    <2> QED BY <2>4 DEF q
  <1> QED BY <1>2, <1>4 DEF Priced

(* What holds of a matrix does not depend on the state around it. *)
LEMMA SameCall == input' = input => /\ M!Squared' = M!Squared
                                    /\ NoneBelow' <=> NoneBelow
                                    /\ CallOK' <=> CallOK
                                    /\ M!Cells' = M!Cells
  <1> SUFFICES ASSUME input' = input
               PROVE  M!Squared' = M!Squared /\ (NoneBelow' <=> NoneBelow) /\ (CallOK' <=> CallOK) /\ M!Cells' = M!Cells
    OBVIOUS
  <1>1. M!Index' = M!Index
    BY SameIndex
  <1>2. M!Cells' = M!Cells
    BY DEF M!Cells
  <1>3. \A i, k : M!Capped(i, k)' = M!Capped(i, k)
    BY DEF M!Capped
  <1>4. \A i, k : M!Cost(i, k)' = M!Cost(i, k)
    BY <1>3 DEF M!Cost
  <1>5. M!mmax' = M!mmax
    BY <1>2, <1>4 DEF M!mmax
  <1>6. M!Squared' = M!Squared
    BY <1>1, <1>2, <1>4, <1>5 DEF M!Squared
  <1>7. NoneBelow' <=> NoneBelow
    BY <1>4 DEF NoneBelow
  <1>8. CallOK' <=> CallOK
    BY DEF CallOK, InputOK
  <1> QED BY <1>2, <1>6, <1>7, <1>8

LEMMA MatrixKept ==
  ASSUME input' = input, MatrixOK(matrix')
  PROVE  MatrixOK(matrix)'
  <1>1. M!Index' = M!Index /\ M!Squared' = M!Squared /\ (NoneBelow' <=> NoneBelow)
    BY SameIndex, SameCall
  <1>2. PICK a, b \in [M!Index -> Int] : \A i, k \in M!Index : matrix'[i][k] = M!Squared[i][k] - (a[i] + b[k])
    BY DEF MatrixOK, Priced
  <1>3. Priced(matrix)'
    BY <1>1, <1>2 DEF Priced
  <1>4. NotBelow(matrix)'
    BY <1>1 DEF MatrixOK, NotBelow
  <1> QED BY <1>1, <1>3, <1>4 DEF MatrixOK

RowValues(t, i) == {t[i][l] : l \in M!Index}
ColumnValues(t, k) == {t[l][k] : l \in M!Index}

(* A line holds finitely many integers. *)
LEMMA LineValues ==
  ASSUME CallOK, NEW t \in [M!Index -> [M!Index -> Int]], NEW i \in M!Index
  PROVE  /\ RowValues(t, i) \in SUBSET Int /\ IsFiniteSet(RowValues(t, i)) /\ RowValues(t, i) # {}
         /\ ColumnValues(t, i) \in SUBSET Int /\ IsFiniteSet(ColumnValues(t, i)) /\ ColumnValues(t, i) # {}
  <1>1. IsFiniteSet(M!Index)
    BY Square DEF CallOK
  <1>2. \A r, c \in M!Index : t[r][c] \in Int
    OBVIOUS
  <1>3. IsFiniteSet(RowValues(t, i))
    <2> DEFINE f == t[i]
    <2>1. RowValues(t, i) = {f[l] : l \in M!Index}
      BY DEF RowValues
    <2> HIDE DEF f
    <2> QED BY <1>1, <2>1, ImageFinite
  <1>4. IsFiniteSet(ColumnValues(t, i))
    <2> DEFINE f == [l \in M!Index |-> t[l][i]]
    <2>1. ColumnValues(t, i) = {f[l] : l \in M!Index}
      BY DEF ColumnValues
    <2> HIDE DEF f
    <2> QED BY <1>1, <2>1, ImageFinite
  <1> QED BY <1>2, <1>3, <1>4 DEF RowValues, ColumnValues

(* Lowering the rows keeps what is known of the matrix. *)
LEMMA RowsLowered ==
  ASSUME CallOK, NEW t, MatrixOK(t)
  PROVE  MatrixOK(M!MinimizeRows(t))
  <1> DEFINE s == M!MinimizeRows(t)
             a == [i \in M!Index |-> M!LineMin(RowValues(t, i))]
             b == [k \in M!Index |-> 0]
  <1>1. t \in [M!Index -> [M!Index -> Int]] /\ \A i, k \in M!Index : t[i][k] \in Int
    BY DEF MatrixOK
  <1>2. \A i \in M!Index : a[i] \in Int /\ ((\A e \in RowValues(t, i) : e >= 0) => \A e \in RowValues(t, i) : a[i] <= e)
    BY <1>1, LineValues, LineMinIs
  <1>3. a \in [M!Index -> Int] /\ b \in [M!Index -> Int] /\ \A k \in M!Index : b[k] = 0
    BY <1>2
  <1>4. s = [i \in M!Index |-> [k \in M!Index |-> t[i][k] - a[i]]]
    BY DEF M!MinimizeRows, RowValues
  <1> HIDE DEF s, a, b
  <1>5. \A i, k \in M!Index : s[i][k] = t[i][k] - a[i]
    BY <1>4
  <1>6. s \in [M!Index -> [M!Index -> Int]]
    BY <1>1, <1>3, <1>4
  <1>7. \A i, k \in M!Index : s[i][k] = t[i][k] - (a[i] + b[k])
    BY <1>1, <1>3, <1>5
  <1>8. Priced(s)
    BY <1>3, <1>6, <1>7, Repriced
  <1>9. NotBelow(s)
    <2> SUFFICES ASSUME NoneBelow, NEW i \in M!Index, NEW k \in M!Index PROVE s[i][k] >= 0
      BY DEF NotBelow
    <2>1. \A e \in RowValues(t, i) : e >= 0
      BY DEF MatrixOK, NotBelow, RowValues
    <2>2. t[i][k] \in RowValues(t, i)
      BY DEF RowValues
    <2>3. a[i] <= t[i][k] /\ a[i] \in Int /\ t[i][k] \in Int
      BY <1>1, <1>2, <2>1, <2>2
    <2> QED BY <1>5, <2>3
  <1> QED BY <1>6, <1>8, <1>9 DEF MatrixOK, s

(* So does lowering the columns. *)
LEMMA ColumnsLowered ==
  ASSUME CallOK, NEW t, MatrixOK(t)
  PROVE  MatrixOK(M!MinimizeColumns(t))
  <1> DEFINE s == M!MinimizeColumns(t)
             a == [i \in M!Index |-> 0]
             b == [k \in M!Index |-> M!LineMin(ColumnValues(t, k))]
  <1>1. t \in [M!Index -> [M!Index -> Int]] /\ \A i, k \in M!Index : t[i][k] \in Int
    BY DEF MatrixOK
  <1>2. \A i \in M!Index : b[i] \in Int /\ ((\A e \in ColumnValues(t, i) : e >= 0) => \A e \in ColumnValues(t, i) : b[i] <= e)
    BY <1>1, LineValues, LineMinIs
  <1>3. a \in [M!Index -> Int] /\ b \in [M!Index -> Int] /\ \A k \in M!Index : a[k] = 0
    BY <1>2
  <1>4. s = [i \in M!Index |-> [k \in M!Index |-> t[i][k] - b[k]]]
    BY DEF M!MinimizeColumns, ColumnValues
  <1> HIDE DEF s, a, b
  <1>5. \A i, k \in M!Index : s[i][k] = t[i][k] - b[k]
    BY <1>4
  <1>6. s \in [M!Index -> [M!Index -> Int]]
    BY <1>1, <1>3, <1>4
  <1>7. \A i, k \in M!Index : s[i][k] = t[i][k] - (a[i] + b[k])
    BY <1>1, <1>3, <1>5
  <1>8. Priced(s)
    BY <1>3, <1>6, <1>7, Repriced
  <1>9. NotBelow(s)
    <2> SUFFICES ASSUME NoneBelow, NEW i \in M!Index, NEW k \in M!Index PROVE s[i][k] >= 0
      BY DEF NotBelow
    <2>1. \A e \in ColumnValues(t, k) : e >= 0
      BY DEF MatrixOK, NotBelow, ColumnValues
    <2>2. t[i][k] \in ColumnValues(t, k)
      BY DEF ColumnValues
    <2>3. b[k] <= t[i][k] /\ b[k] \in Int /\ t[i][k] \in Int
      BY <1>1, <1>2, <2>1, <2>2
    <2> QED BY <1>5, <2>3
  <1> QED BY <1>6, <1>8, <1>9 DEF MatrixOK, s

(* The matrix before and after the reductions. *)
LEMMA LinesMatrix ==
  ASSUME CallOK, MarksInv, MatrixInv, M!Solve \/ M!Minimize
  PROVE  MatrixInv'
  <1>1. input' = input
    BY DEF M!Solve, M!Minimize
  <1>2. M!Index' = M!Index
    BY <1>1, SameIndex
  <1>3. MatrixOK(matrix')
    <2>1. CASE M!Solve
      <3>1. matrix' = M!Squared
        BY <2>1 DEF M!Solve
      <3> DEFINE o == [k \in M!Index |-> 0]
      <3>2. o \in [M!Index -> Int] /\ \A k \in M!Index : o[k] = 0
        OBVIOUS
      <3> HIDE DEF o
      <3>3. \A i, k \in M!Index : M!Squared[i][k] = M!Squared[i][k] - (o[i] + o[k])
        BY <3>2, SquaredIs
      <3>4. Priced(M!Squared)
        BY <3>2, <3>3 DEF Priced
      <3>5. NotBelow(M!Squared)
        BY SquaredIs DEF NotBelow
      <3>6. MatrixOK(M!Squared)
        BY <3>4, <3>5, SquaredIs DEF MatrixOK
      <3> QED BY <3>1, <3>6
    <2>2. CASE M!Minimize
      <3>1. step # "solve" /\ (matrix' = M!MinimizeColumns(matrix) \/ matrix' = M!MinimizeRows(matrix))
        BY <2>2 DEF M!Minimize
      <3>2. MatrixOK(matrix)
        BY <3>1 DEF MatrixInv
      <3> QED BY <3>1, <3>2, RowsLowered, ColumnsLowered
    <2> QED BY <2>1, <2>2
  <1>4. MatrixOK(matrix)'
    BY <1>1, <1>3, MatrixKept
  <1>5. \A i, k \in M!Index : mask'[i][k] = "normal"
    <2>1. CASE M!Solve
      BY <2>1 DEF M!Solve
    <2>2. CASE M!Minimize
      BY <2>2 DEF M!Minimize, MarksInv, AtLines
    <2> QED BY <2>1, <2>2
  <1>6. OnZeros(mask, matrix)'
    BY <1>2, <1>5 DEF OnZeros
  <1> QED BY <1>4, <1>6 DEF MatrixInv

(* Marks are put on zeros. *)
LEMMA MarkedZeros ==
  ASSUME CallOK, MarksInv, MatrixInv, M!Step1 \/ M!Step2 \/ M!Step3 \/ M!Step4Extend \/ M!Step4Flip
  PROVE  MatrixInv'
  <1>1. input' = input /\ matrix' = matrix /\ step # "solve"
    BY DEF M!Step1, M!Step2, M!Step3, M!Step4Extend, M!Step4Flip
  <1>2. M!Index' = M!Index
    BY <1>1, SameIndex
  <1>3. MatrixOK(matrix) /\ OnZeros(mask, matrix) /\ MaskType(mask)
    BY <1>1 DEF MatrixInv, MarksInv, Marked
  <1>4. MatrixOK(matrix)'
    BY <1>1, <1>3, MatrixKept
  <1>5. OnZeros(mask', matrix)
    <2>1. CASE M!Step1
      <3> DEFINE zeros == {k \in M!Index : matrix[row][k] = 0 /\ \A l \in 0 .. row - 1 : mask[l][k] # "star"}
      <3>1. mask' = (IF zeros = {} THEN mask ELSE [mask EXCEPT ![row][M!Min(zeros)] = "star"])
        BY <2>1 DEF M!Step1
      <3>2. row \in M!Index
        BY <2>1 DEF M!Step1, MarksInv, AtStep1
      <3>3. zeros # {} => M!Min(zeros) \in zeros
        <4>1. zeros \in SUBSET M!Index
          OBVIOUS
        <4>2. zeros \in SUBSET Int /\ IsFiniteSet(zeros)
          <5> HIDE DEF zeros
          <5> QED BY <4>1, FS_Subset, Square DEF CallOK
        <4> HIDE DEF zeros
        <4> QED BY <4>2, MunkresExtremes
      <3> DEFINE z == M!Min(zeros)
      <3>4. zeros # {} => z \in M!Index /\ matrix[row][z] = 0
        BY <3>3
      <3>5. mask' = mask \/ (zeros # {} /\ mask' = [mask EXCEPT ![row][z] = "star"])
        BY <3>1
      <3> HIDE DEF z, zeros
      <3>6. ASSUME NEW i \in M!Index, NEW k \in M!Index, mask'[i][k] # "normal" PROVE matrix[i][k] = 0
        <4>1. mask[i][k] # "normal" \/ (zeros # {} /\ i = row /\ k = z)
          BY <1>3, <3>2, <3>4, <3>5, <3>6 DEF MaskType
        <4> QED BY <1>3, <3>4, <4>1 DEF OnZeros
      <3> QED BY <3>6 DEF OnZeros
    <2>2. CASE M!Step2 \/ M!Step4Extend
      <3>1. mask' = mask
        BY <2>2 DEF M!Step2, M!Step4Extend
      <3> QED BY <1>3, <3>1 DEF OnZeros
    <2>3. CASE M!Step3
      <3>1. CASE M!UncoveredZeros = {}
        <4>1. mask' = mask
          BY <2>3, <3>1 DEF M!Step3
        <4> QED BY <1>3, <4>1 DEF OnZeros
      <3>2. CASE M!UncoveredZeros # {}
        <4> DEFINE p == M!FirstOf(M!UncoveredZeros)
        <4>1. mask' = [mask EXCEPT ![p[1]][p[2]] = "prime"]
          BY <2>3, <3>2 DEF M!Step3
        <4>2. p \in M!UncoveredZeros
          <5>1. M!UncoveredZeros \in SUBSET (M!Index \X M!Index)
            BY DEF M!UncoveredZeros
          <5> QED BY <3>2, <5>1, FirstIsOne DEF CallOK
        <4>3. p[1] \in M!Index /\ p[2] \in M!Index /\ matrix[p[1]][p[2]] = 0
          BY <4>2 DEF M!UncoveredZeros
        <4> HIDE DEF p
        <4>4. ASSUME NEW i \in M!Index, NEW k \in M!Index, mask'[i][k] # "normal" PROVE matrix[i][k] = 0
          <5>1. mask[i][k] # "normal" \/ (i = p[1] /\ k = p[2])
            BY <1>3, <4>1, <4>3, <4>4 DEF MaskType
          <5> QED BY <1>3, <4>3, <5>1 DEF OnZeros
        <4> QED BY <4>4 DEF OnZeros
      <3> QED BY <3>1, <3>2
    <2>4. CASE M!Step4Flip
      <3>1. ASSUME NEW i \in M!Index, NEW k \in M!Index, mask'[i][k] # "normal" PROVE mask[i][k] # "normal"
        <4>1. mask[i][k] \in {"normal", "star", "prime"}
          BY <1>3 DEF MaskType
        <4> QED BY <2>4, <3>1, <4>1 DEF M!Step4Flip
      <3> QED BY <1>3, <3>1 DEF OnZeros
    <2> QED BY <2>1, <2>2, <2>3, <2>4
  <1>6. OnZeros(mask, matrix)'
    BY <1>1, <1>2, <1>5 DEF OnZeros
  <1> QED BY <1>4, <1>6 DEF MatrixInv

(* The smallest uncovered value is a number, and one not below zero. *)
LEMMA Step5Least ==
  ASSUME CallOK, MatrixOK(matrix), M!Step5
  PROVE  \E h \in Int :
            /\ matrix' = [i \in M!Index |-> [k \in M!Index |->
                             matrix[i][k] + (IF row_mask[i] THEN h ELSE 0)
                                          - (IF col_mask[k] THEN 0 ELSE h)]]
            /\ NoneBelow => h >= 0
            /\ \A i, k \in M!Index : ~row_mask[i] /\ ~col_mask[k] /\ matrix[i][k] # 0 => h <= matrix[i][k]
  <1> DEFINE D == {q \in M!Index \X M!Index : ~row_mask[q[1]] /\ ~col_mask[q[2]] /\ matrix[q[1]][q[2]] # 0}
             f == [p \in D |-> matrix[p[1]][p[2]]]
             V == {matrix[p[1]][p[2]] : p \in D}
             W == {100000} \union V
             h == M!Min(W)
  <1>1. \A i, k \in M!Index : matrix[i][k] \in Int
    BY DEF MatrixOK
  <1>2. D \in SUBSET (M!Index \X M!Index)
    OBVIOUS
  <1>3. IsFiniteSet(V)
    <2>1. V = {f[p] : p \in D}
      OBVIOUS
    <2>2. IsFiniteSet(D)
      <3> HIDE DEF D
      <3> QED BY <1>2, CellsOfMatrix DEF CallOK
    <2> HIDE DEF D, f, V
    <2> QED BY <2>1, <2>2, ImageFinite
  <1>4. V \in SUBSET Int
    BY <1>1
  <1>5. IsFiniteSet(W)
    <2>1. W = V \union {100000}
      OBVIOUS
    <2> HIDE DEF V, W
    <2> QED BY <1>3, <2>1, FS_AddElement
  <1>6. W \in SUBSET Int /\ W # {}
    <2> HIDE DEF V
    <2> QED BY <1>4
  <1>7. h \in W /\ \A e \in W : h <= e
    <2> HIDE DEF W
    <2> QED BY <1>5, <1>6, MunkresExtremes
  <1>8. matrix' = [i \in M!Index |-> [k \in M!Index |->
                     matrix[i][k] + (IF row_mask[i] THEN h ELSE 0) - (IF col_mask[k] THEN 0 ELSE h)]]
    BY DEF M!Step5
  <1>9. NoneBelow => \A e \in W : e >= 0
    BY DEF MatrixOK, NotBelow
  <1>10. \A i, k \in M!Index : ~row_mask[i] /\ ~col_mask[k] /\ matrix[i][k] # 0 => matrix[i][k] \in W
    <2> SUFFICES ASSUME NEW i \in M!Index, NEW k \in M!Index, ~row_mask[i], ~col_mask[k], matrix[i][k] # 0
                 PROVE  matrix[i][k] \in W
      OBVIOUS
    <2>1. <<i, k>> \in D /\ <<i, k>>[1] = i /\ <<i, k>>[2] = k
      OBVIOUS
    <2> HIDE DEF D
    <2> QED BY <2>1
  <1> HIDE DEF W, h
  <1>11. h \in Int
    BY <1>6, <1>7
  <1> QED BY <1>7, <1>8, <1>9, <1>10, <1>11

(* Step 5 lowers nothing below zero and leaves the marks on zeros. *)
LEMMA Step5Matrix ==
  ASSUME CallOK, MarksInv, MatrixInv, M!Step5
  PROVE  MatrixInv'
  <1>1. input' = input /\ mask' = mask /\ step = "step5"
    BY DEF M!Step5
  <1>2. M!Index' = M!Index
    BY <1>1, SameIndex
  <1>3. MatrixOK(matrix) /\ OnZeros(mask, matrix)
    BY <1>1 DEF MatrixInv
  <1>4. PICK h \in Int :
            /\ matrix' = [i \in M!Index |-> [k \in M!Index |->
                             matrix[i][k] + (IF row_mask[i] THEN h ELSE 0)
                                          - (IF col_mask[k] THEN 0 ELSE h)]]
            /\ NoneBelow => h >= 0
            /\ \A i, k \in M!Index : ~row_mask[i] /\ ~col_mask[k] /\ matrix[i][k] # 0 => h <= matrix[i][k]
    BY <1>3, Step5Least
  <1> DEFINE a == [i \in M!Index |-> IF row_mask[i] THEN -h ELSE 0]
             b == [k \in M!Index |-> IF col_mask[k] THEN 0 ELSE h]
  <1>5. a \in [M!Index -> Int] /\ b \in [M!Index -> Int]
    OBVIOUS
  <1>6. \A i, k \in M!Index : matrix[i][k] \in Int
    BY <1>3 DEF MatrixOK
  <1>7. \A i, k \in M!Index : matrix'[i][k] = matrix[i][k] - (a[i] + b[k])
    <2> SUFFICES ASSUME NEW i \in M!Index, NEW k \in M!Index PROVE matrix'[i][k] = matrix[i][k] - (a[i] + b[k])
      OBVIOUS
    <2>1. matrix'[i][k] = matrix[i][k] + (IF row_mask[i] THEN h ELSE 0) - (IF col_mask[k] THEN 0 ELSE h)
      BY <1>4
    <2>2. a[i] = (IF row_mask[i] THEN -h ELSE 0) /\ b[k] = (IF col_mask[k] THEN 0 ELSE h)
      OBVIOUS
    <2>3. matrix[i][k] \in Int /\ h \in Int
      BY <1>6
    <2> HIDE DEF a, b
    <2> QED BY <2>1, <2>2, <2>3
  <1>8. matrix' \in [M!Index -> [M!Index -> Int]]
    <2>1. \A i, k \in M!Index : matrix[i][k] + (IF row_mask[i] THEN h ELSE 0) - (IF col_mask[k] THEN 0 ELSE h) \in Int
      BY <1>6
    <2> QED BY <1>4, <2>1
  <1>9. \A i, k \in M!Index : ~row_mask[i] /\ ~col_mask[k] => matrix[i][k] # 0
    <2>1. AtStep5
      BY <1>1 DEF MarksInv
    <2> SUFFICES ASSUME NEW i \in M!Index, NEW k \in M!Index, ~row_mask[i], ~col_mask[k], matrix[i][k] = 0
                 PROVE  FALSE
      OBVIOUS
    <2>2. <<i, k>> \in M!UncoveredZeros
      BY DEF M!UncoveredZeros
    <2> QED BY <2>1, <2>2 DEF AtStep5
  <1>10. NotBelow(matrix')
    <2> SUFFICES ASSUME NoneBelow, NEW i \in M!Index, NEW k \in M!Index PROVE matrix'[i][k] >= 0
      BY DEF NotBelow
    <2>1. matrix'[i][k] = matrix[i][k] + (IF row_mask[i] THEN h ELSE 0) - (IF col_mask[k] THEN 0 ELSE h)
      BY <1>4
    <2>2. h >= 0 /\ matrix[i][k] >= 0 /\ matrix[i][k] \in Int
      BY <1>3, <1>4, <1>6 DEF MatrixOK, NotBelow
    <2>3. ~row_mask[i] /\ ~col_mask[k] => h <= matrix[i][k]
      BY <1>4, <1>9
    <2> QED BY <2>1, <2>2, <2>3
  <1>11. MatrixOK(matrix')
    <2>1. Priced(matrix')
      <3> HIDE DEF a, b
      <3> QED BY <1>3, <1>5, <1>7, <1>8, Repriced
    <2> QED BY <1>8, <1>10, <2>1 DEF MatrixOK
  <1>12. MatrixOK(matrix)'
    BY <1>1, <1>11, MatrixKept
  <1>13. \A i, k \in M!Index : mask[i][k] # "normal" => (row_mask[i] <=> ~col_mask[k])
    <2>1. MaskType(mask) /\ Covered(mask, row_mask, col_mask, {})
      BY <1>1 DEF MarksInv, Marked, AtStep5, AtStep3
    <2> QED BY <2>1 DEF MaskType, Covered
  <1>14. \A i, k \in M!Index : mask[i][k] # "normal" => matrix'[i][k] = 0
    <2> SUFFICES ASSUME NEW i \in M!Index, NEW k \in M!Index, mask[i][k] # "normal" PROVE matrix'[i][k] = 0
      OBVIOUS
    <2>1. matrix'[i][k] = matrix[i][k] + (IF row_mask[i] THEN h ELSE 0) - (IF col_mask[k] THEN 0 ELSE h)
      BY <1>4
    <2>2. matrix[i][k] = 0
      BY <1>3 DEF OnZeros
    <2>3. row_mask[i] <=> ~col_mask[k]
      BY <1>13
    <2> QED BY <2>1, <2>2, <2>3
  <1>15. OnZeros(mask, matrix)'
    BY <1>1, <1>2, <1>14 DEF OnZeros
  <1> QED BY <1>12, <1>15 DEF MatrixInv

-----------------------------------------------------------------------------
(* The invariant of DeepSORT's solver. *)

MunkresInv == CallOK /\ MarksInv /\ MatrixInv

(* A call starts with the matrix as it is given. *)
LEMMA MunkresInit ==
  ASSUME AssignmentInit
  PROVE  MunkresInv
  <1>1. step = "solve" /\ row = 0
    BY DEF AssignmentInit, M!Init
  <1>2. PICK s \in Shapes : \E c \in [0 .. s[1] - 1 -> [0 .. s[2] - 1 -> Costs(s)]] :
                 input = [rows |-> s[1], cols |-> s[2], c |-> c]
    BY DEF AssignmentInit, Init
  <1>3. PICK c \in [0 .. s[1] - 1 -> [0 .. s[2] - 1 -> Costs(s)]] :
                 input = [rows |-> s[1], cols |-> s[2], c |-> c]
    BY <1>2
  <1>4. input.rows = s[1] /\ input.cols = s[2] /\ input.c = c
    BY <1>3
  <1>5. InputOK
    BY <1>2, <1>4, ShapesAssumption DEF InputOK
  <1>6. ASSUME NEW i \in 0 .. input.rows - 1, NEW k \in 0 .. input.cols - 1
        PROVE  input.c[i][k] \in Int \union {NaN}
    <2>1. input.c[i][k] \in Costs(s)
      BY <1>3, <1>4
    <2>2. Costs(s) \subseteq Int \union {NaN}
      BY <1>2, CostsAssumption
    <2> QED BY <2>1, <2>2
  <1>7. CallOK
    BY <1>5, <1>6 DEF CallOK
  <1>8. MarksInv
    BY <1>1 DEF MarksInv
  <1>9. MatrixInv
    BY <1>1 DEF MatrixInv
  <1> QED BY <1>7, <1>8, <1>9 DEF MunkresInv

(* Every step of the solver keeps the invariant. *)
LEMMA MunkresStep ==
  ASSUME MunkresInv, M!Next
  PROVE  MunkresInv'
  <1>1. CallOK /\ InputOK /\ MarksInv /\ MatrixInv
    BY DEF MunkresInv, CallOK
  <1>2. M!Solve \/ M!Minimize \/ M!Step1 \/ M!Step2 \/ M!Step3 \/ M!Step4Extend \/ M!Step4Flip \/ M!Step5
    BY DEF M!Next
  <1>3. input' = input
    BY <1>2 DEF M!Solve, M!Minimize, M!Step1, M!Step2, M!Step3, M!Step4Extend, M!Step4Flip, M!Step5
  <1>4. CallOK'
    BY <1>1, <1>3, SameCall
  <1>5. MarksInv'
    BY <1>1, <1>2, SolveMarks, MinimizeMarks, Step1Marks, Step2Marks, Step3Marks, ExtendMarks, FlipMarks, Step5Marks
  <1>6. MatrixInv'
    BY <1>1, <1>2, LinesMatrix, MarkedZeros, Step5Matrix
  <1> QED BY <1>4, <1>5, <1>6 DEF MunkresInv

(* Nor does a step that changes nothing. *)
LEMMA MunkresStutter ==
  ASSUME MunkresInv, input' = input, UNCHANGED munkresVars
  PROVE  MunkresInv'
  <1>1. /\ step' = step /\ matrix' = matrix /\ mask' = mask /\ row_mask' = row_mask
        /\ col_mask' = col_mask /\ row' = row /\ seq' = seq
    BY DEF munkresVars
  <1>2. M!Index' = M!Index /\ M!size' = M!size /\ CallOK'
    BY SameIndex, SameCall DEF MunkresInv
  <1>3. MarksInv /\ MatrixInv
    BY DEF MunkresInv
  <1>4. Marked(mask) => Marked(mask)'
    BY <1>1, <1>2 DEF Marked, MaskType, StarsOnce
  <1>5. Clean => Clean'
    <2>1. M!None' = M!None
      BY <1>2 DEF M!None
    <2> QED BY <1>1, <2>1 DEF Clean
  <1>6. AtLines => AtLines'
    BY <1>1, <1>2, <1>5 DEF AtLines
  <1>7. NoPrime(mask) => NoPrime(mask)'
    BY <1>1, <1>2 DEF NoPrime
  <1>8. AtStep1 => AtStep1'
    BY <1>1, <1>2, <1>5, <1>7 DEF AtStep1
  <1>9. AtStep2 => AtStep2'
    BY <1>5, <1>7 DEF AtStep2
  <1>10. ASSUME NEW ord, NEW top, Ordered(mask, ord, top) PROVE Ordered(mask, ord, top)'
    BY <1>1, <1>2, <1>10 DEF Ordered
  <1>11. AtStep3 => AtStep3'
    <2> SUFFICES ASSUME AtStep3 PROVE AtStep3'
      OBVIOUS
    <2>1. Covered(mask, row_mask, col_mask, {})'
      BY <1>1, <1>2 DEF AtStep3, Covered
    <2>2. PICK ord, top : Ordered(mask, ord, top)
      BY DEF AtStep3
    <2>3. Ordered(mask, ord, top)'
      BY <1>10, <2>2
    <2> QED BY <2>1, <2>3 DEF AtStep3
  <1>12. AtStep4 => AtStep4'
    <2> SUFFICES ASSUME AtStep4 PROVE AtStep4'
      OBVIOUS
    <2>1. Covered(mask, row_mask, col_mask, {seq[1]})'
      BY <1>1, <1>2 DEF AtStep4, Covered
    <2>2. PICK ord, top : Ordered(mask, ord, top) /\ Alternates(seq, mask, ord)
      BY DEF AtStep4
    <2>3. Ordered(mask, ord, top)'
      BY <1>10, <2>2
    <2>4. Alternates(seq, mask, ord)'
      BY <1>1, <1>2, <2>2 DEF Alternates
    <2> QED BY <2>1, <2>3, <2>4 DEF AtStep4
  <1>13. AtStep5 => AtStep5'
    <2>1. M!UncoveredZeros' = M!UncoveredZeros
      BY <1>1, <1>2 DEF M!UncoveredZeros
    <2> QED BY <1>11, <2>1 DEF AtStep5
  <1>14. Finished => Finished'
    <2>1. M!Stars' = M!Stars
      BY <1>1, <1>2 DEF M!Stars
    <2> QED BY <1>2, <2>1 DEF Finished
  <1>15. MarksInv'
    BY <1>1, <1>3, <1>4, <1>6, <1>8, <1>9, <1>11, <1>12, <1>13, <1>14 DEF MarksInv
  <1>16. MatrixInv'
    <2> SUFFICES ASSUME step # "solve" PROVE (MatrixOK(matrix) /\ OnZeros(mask, matrix))'
      BY <1>1 DEF MatrixInv
    <2>1. MatrixOK(matrix) /\ OnZeros(mask, matrix)
      BY <1>3 DEF MatrixInv
    <2>2. MatrixOK(matrix)'
      BY <1>1, <2>1, MatrixKept
    <2>3. OnZeros(mask, matrix)'
      BY <1>1, <1>2, <2>1 DEF OnZeros
    <2> QED BY <2>2, <2>3
  <1> QED BY <1>2, <1>15, <1>16 DEF MunkresInv

DeepSortInv == solver = "munkres" => MunkresInv

(* Every association starts and stays within the invariant of its solver. *)
LEMMA MunkresInvariant == AssignmentSpec => []DeepSortInv
  <1>1. AssignmentInit => DeepSortInv
    BY MunkresInit DEF DeepSortInv
  <1>2. DeepSortInv /\ [AssignmentNext]_allVars => DeepSortInv'
    <2> SUFFICES ASSUME DeepSortInv, [AssignmentNext]_allVars PROVE DeepSortInv'
      OBVIOUS
    <2>1. CASE Lapjv
      BY <2>1 DEF Lapjv, DeepSortInv
    <2>2. CASE Munkres
      <3>1. solver = "munkres" /\ M!Next
        BY <2>2 DEF Munkres
      <3>2. MunkresInv'
        BY <3>1, MunkresStep DEF DeepSortInv
      <3> QED BY <3>2 DEF DeepSortInv
    <2>3. CASE UNCHANGED allVars
      <3>1. solver' = solver /\ UNCHANGED vars /\ UNCHANGED munkresVars
        BY <2>3 DEF allVars
      <3>2. input' = input
        BY <3>1 DEF vars
      <3> QED BY <3>1, <3>2, MunkresStutter DEF DeepSortInv
    <2>4. CASE Return
      <3>1. UNCHANGED allVars
        BY <2>4 DEF Return
      <3> QED BY <2>3, <3>1
    <2> QED BY <2>1, <2>2, <2>3, <2>4 DEF AssignmentNext
  <1> QED BY <1>1, <1>2, PTL DEF AssignmentSpec

-----------------------------------------------------------------------------
(* What the stars are when the solver is done. *)

(* The indices of the square matrix, permuted. *)
Permutes(g) == /\ g \in [M!Index -> M!Index]
               /\ \A i, r \in M!Index : g[i] = g[r] => i = r
               /\ \A k \in M!Index : \E i \in M!Index : g[i] = k

(* A one-to-one choice of lines is a permutation if it reaches them all. *)
LEMMA OneToOnePermutes ==
  ASSUME InputOK, NEW g \in [M!Index -> M!Index], \A i, r \in M!Index : g[i] = g[r] => i = r
  PROVE  Permutes(g)
  <1> DEFINE D == M!Index
  <1>1. IsFiniteSet(D)
    BY Square
  <1>2. g \in [D -> D] /\ \A i, r \in D : g[i] = g[r] => i = r
    OBVIOUS
  <1> HIDE DEF D
  <1>3. g \in Injection(D, D)
    BY <1>2 DEF Injection, IsInjective
  <1>4. g \in Surjection(D, D)
    BY <1>1, <1>3, FS_Injection
  <1>5. \A k \in D : \E i \in D : g[i] = k
    BY <1>4 DEF Surjection
  <1> QED BY <1>2, <1>5 DEF D, Permutes

(* Pairs of which no two share a line: each projection is one to one. *)
LEMMA ApartCount ==
  ASSUME NEW S, NEW T, NEW d \in {1, 2}, IsFiniteSet(T),
         \A p \in S : p[d] \in T, \A p, q \in S : p[d] = q[d] => p = q
  PROVE  /\ IsFiniteSet(S) /\ Cardinality(S) \in Nat /\ Cardinality(T) \in Nat
         /\ Cardinality(S) <= Cardinality(T)
         /\ Cardinality(S) = Cardinality(T) <=> \A e \in T : \E p \in S : p[d] = e
  <1> DEFINE f == [p \in S |-> p[d]]
  <1>1. f \in [S -> T] /\ \A p \in S : f[p] = p[d]
    OBVIOUS
  <1> HIDE DEF f
  <1>2. f \in Injection(S, T)
    BY <1>1 DEF Injection, IsInjective
  <1>3. /\ IsFiniteSet(S) /\ Cardinality(S) <= Cardinality(T)
        /\ Cardinality(S) = Cardinality(T) <=> f \in Surjection(S, T)
    BY <1>2, FS_Injection
  <1>4. f \in Surjection(S, T) <=> \A e \in T : \E p \in S : p[d] = e
    BY <1>1 DEF Surjection
  <1>5. Cardinality(S) \in Nat /\ Cardinality(T) \in Nat
    BY <1>3, FS_CardinalityType
  <1> QED BY <1>3, <1>4, <1>5

(* As many stars as lines: there is one in every row and every column. *)
LEMMA StarsPermute ==
  ASSUME InputOK, Marked(mask), Finished
  PROVE  \E g : /\ Permutes(g)
                /\ \A i, k \in M!Index : mask[i][k] = "star" <=> g[i] = k
  <1> DEFINE D == M!Index
             S == M!Stars
             g == [i \in D |-> CHOOSE k \in D : mask[i][k] = "star"]
  <1>1. \A i, k : <<i, k>> \in S <=> i \in D /\ k \in D /\ mask[i][k] = "star"
    BY DEF M!Stars
  <1>2. \A p \in S : p[1] \in D /\ p[2] \in D /\ p = <<p[1], p[2]>> /\ mask[p[1]][p[2]] = "star"
    BY DEF M!Stars
  <1>3. IsFiniteSet(D) /\ Cardinality(D) = M!size /\ M!size \in Nat
    BY Square
  <1>4. \A i, k, r, c \in D : mask[i][k] = "star" /\ mask[r][c] = "star" => (i = r <=> k = c)
    BY DEF Marked, StarsOnce
  <1>5. Cardinality(S) >= M!size
    BY DEF Finished
  <1> HIDE DEF D, S
  <1>6. \A p, q \in S : p[1] = q[1] => p = q
    <2> SUFFICES ASSUME NEW p \in S, NEW q \in S, p[1] = q[1] PROVE p = q
      OBVIOUS
    <2>1. p[2] = q[2]
      BY <1>2, <1>4
    <2> QED BY <1>2, <2>1
  <1>7. \A i \in D : \E p \in S : p[1] = i
    <2>1. \A p \in S : p[1] \in D
      BY <1>2
    <2>2. /\ Cardinality(S) \in Nat /\ Cardinality(S) <= Cardinality(D)
          /\ Cardinality(S) = Cardinality(D) <=> \A e \in D : \E p \in S : p[1] = e
      BY <1>3, <1>6, <2>1, ApartCount
    <2> QED BY <1>3, <1>5, <2>2
  <1>8. \A i \in D : g[i] \in D /\ mask[i][g[i]] = "star"
    BY <1>2, <1>7
  <1>9. g \in [D -> D]
    BY <1>8
  <1> HIDE DEF g
  <1>10. \A i, k \in D : mask[i][k] = "star" <=> g[i] = k
    BY <1>4, <1>8
  <1>11. \A i, r \in D : g[i] = g[r] => i = r
    BY <1>4, <1>8
  <1>12. Permutes(g)
    BY <1>9, <1>11, OneToOnePermutes DEF D
  <1> QED BY <1>10, <1>12 DEF D

(* The number of pairs in a largest matching. *)
Fewest == IF input.rows < input.cols THEN input.rows ELSE input.cols

(* The largest matchings, in the words of these proofs. *)
LEMMA FullIs ==
  ASSUME InputOK, NEW S
  PROVE  S \in M!FullMatchings <=>
            /\ S \in SUBSET M!Cells /\ Cardinality(S) = Fewest
            /\ \A p, q \in S : p # q => p[1] # q[1] /\ p[2] # q[2]
  <1>1. M!kSubset(Fewest, M!Cells) = {s \in SUBSET M!Cells : M!Cardinality(s) = Fewest}
    BY DEF M!kSubset
  <1>2. M!FullMatchings = {s \in M!kSubset(Fewest, M!Cells) : \A p, q \in s : p # q => p[1] # q[1] /\ p[2] # q[2]}
    BY DEF M!FullMatchings, Fewest
  <1>3. M!Cardinality(S) = Cardinality(S)
    BY MunkresCounts
  <1> QED BY <1>1, <1>2, <1>3

(* A matching with so many pairs uses all rows or all columns. *)
LEMMA FullUses ==
  ASSUME InputOK, NEW S \in M!FullMatchings
  PROVE  \/ \A i \in 0 .. input.rows - 1 : \E p \in S : p[1] = i
         \/ \A k \in 0 .. input.cols - 1 : \E p \in S : p[2] = k
  <1> DEFINE R == 0 .. input.rows - 1
             C == 0 .. input.cols - 1
  <1>1. /\ S \in SUBSET M!Cells /\ Cardinality(S) = Fewest
        /\ \A p, q \in S : p # q => p[1] # q[1] /\ p[2] # q[2]
    BY FullIs
  <1>2. \A p \in S : p[1] \in R /\ p[2] \in C
    BY <1>1, CellsOfMatrix
  <1>3. input.rows \in Nat \ {0} /\ input.cols \in Nat \ {0}
    BY DEF InputOK
  <1>4. IsFiniteSet(R) /\ Cardinality(R) = input.rows
    <2>1. 0 \in Int /\ input.rows - 1 \in Int
      BY <1>3
    <2>2. IsFiniteSet(R) /\ Cardinality(R) = IF 0 > input.rows - 1 THEN 0 ELSE (input.rows - 1) - 0 + 1
      BY <2>1, FS_Interval
    <2> HIDE DEF R
    <2> QED BY <1>3, <2>2
  <1>5. IsFiniteSet(C) /\ Cardinality(C) = input.cols
    <2>1. 0 \in Int /\ input.cols - 1 \in Int
      BY <1>3
    <2>2. IsFiniteSet(C) /\ Cardinality(C) = IF 0 > input.cols - 1 THEN 0 ELSE (input.cols - 1) - 0 + 1
      BY <2>1, FS_Interval
    <2> HIDE DEF C
    <2> QED BY <1>3, <2>2
  <1> HIDE DEF R, C
  <1>6. CASE Cardinality(S) = input.rows
    <2>1. Cardinality(S) = Cardinality(R) <=> \A e \in R : \E p \in S : p[1] = e
      BY <1>1, <1>2, <1>4, ApartCount
    <2> QED BY <1>4, <1>6, <2>1 DEF R
  <1>7. CASE Cardinality(S) = input.cols
    <2>1. Cardinality(S) = Cardinality(C) <=> \A e \in C : \E p \in S : p[2] = e
      BY <1>1, <1>2, <1>5, ApartCount
    <2> QED BY <1>5, <1>7, <2>1 DEF C
  <1> QED BY <1>1, <1>6, <1>7 DEF Fewest

(* What a permutation of the square matrix gives to tracks and detections. *)
PairsOf(g) == {p \in M!Cells : g[p[1]] = p[2]}

(* It is one of the largest matchings. *)
LEMMA PairsAreFull ==
  ASSUME InputOK, NEW g, Permutes(g)
  PROVE  PairsOf(g) \in M!FullMatchings
  <1> DEFINE R == 0 .. input.rows - 1
             C == 0 .. input.cols - 1
             S == PairsOf(g)
  <1>1. /\ g \in [M!Index -> M!Index] /\ \A i, r \in M!Index : g[i] = g[r] => i = r
        /\ \A k \in M!Index : \E i \in M!Index : g[i] = k
    BY DEF Permutes
  <1>2. /\ M!size \in Nat /\ input.rows <= M!size /\ input.cols <= M!size
        /\ M!size = input.rows \/ M!size = input.cols
        /\ input.rows \in Nat \ {0} /\ input.cols \in Nat \ {0}
        /\ M!Index = 0 .. M!size - 1
    BY Square DEF InputOK
  <1>3. \A p \in S : p[1] \in R /\ p[2] \in C /\ p[1] \in M!Index /\ p[2] \in M!Index /\ p = <<p[1], p[2]>> /\ g[p[1]] = p[2]
    BY CellsOfMatrix DEF PairsOf
  <1>4. \A i \in R, k \in C : g[i] = k => <<i, k>> \in S
    BY CellsOfMatrix DEF PairsOf
  <1>5. \A p, q \in S : (p[1] = q[1] => p = q) /\ (p[2] = q[2] => p = q)
    <2> SUFFICES ASSUME NEW p \in S, NEW q \in S, p[1] = q[1] \/ p[2] = q[2] PROVE p = q
      OBVIOUS
    <2>1. p[1] = q[1] /\ p[2] = q[2]
      BY <1>1, <1>3
    <2> QED BY <1>3, <2>1
  <1>6. IsFiniteSet(R) /\ Cardinality(R) = input.rows
    <2>1. 0 \in Int /\ input.rows - 1 \in Int
      BY <1>2
    <2>2. IsFiniteSet(R) /\ Cardinality(R) = IF 0 > input.rows - 1 THEN 0 ELSE (input.rows - 1) - 0 + 1
      BY <2>1, FS_Interval
    <2> HIDE DEF R
    <2> QED BY <1>2, <2>2
  <1>7. IsFiniteSet(C) /\ Cardinality(C) = input.cols
    <2>1. 0 \in Int /\ input.cols - 1 \in Int
      BY <1>2
    <2>2. IsFiniteSet(C) /\ Cardinality(C) = IF 0 > input.cols - 1 THEN 0 ELSE (input.cols - 1) - 0 + 1
      BY <2>1, FS_Interval
    <2> HIDE DEF C
    <2> QED BY <1>2, <2>2
  <1>8. R \in SUBSET M!Index /\ C \in SUBSET M!Index /\ (M!Index = R \/ M!Index = C)
    BY <1>2
  <1> HIDE DEF R, C, S
  <1>9. CASE M!size = input.cols
    <2>1. M!Index = C
      BY <1>2, <1>9 DEF C
    <2>2. \A i \in R : \E p \in S : p[1] = i
      <3> SUFFICES ASSUME NEW i \in R PROVE \E p \in S : p[1] = i
        OBVIOUS
      <3>1. g[i] \in C
        BY <1>1, <1>8, <2>1
      <3>2. <<i, g[i]>> \in S
        BY <1>4, <3>1
      <3> QED BY <3>2
    <2>3. Cardinality(S) = Cardinality(R) <=> \A e \in R : \E p \in S : p[1] = e
      BY <1>3, <1>5, <1>6, ApartCount
    <2>4. Cardinality(S) = Fewest
      BY <1>2, <1>6, <1>9, <2>2, <2>3 DEF Fewest
    <2> QED BY <1>5, <2>4, FullIs DEF S, PairsOf
  <1>10. CASE M!size = input.rows
    <2>1. M!Index = R
      BY <1>2, <1>10 DEF R
    <2>2. \A k \in C : \E p \in S : p[2] = k
      <3> SUFFICES ASSUME NEW k \in C PROVE \E p \in S : p[2] = k
        OBVIOUS
      <3>1. PICK i \in R : g[i] = k
        BY <1>1, <1>8, <2>1
      <3>2. <<i, k>> \in S
        BY <1>4, <3>1
      <3> QED BY <3>2
    <2>3. Cardinality(S) = Cardinality(C) <=> \A e \in C : \E p \in S : p[2] = e
      BY <1>3, <1>5, <1>7, ApartCount
    <2>4. Cardinality(S) = Fewest
      BY <1>2, <1>7, <1>10, <2>2, <2>3 DEF Fewest
    <2> QED BY <1>5, <2>4, FullIs DEF S, PairsOf
  <1> QED BY <1>2, <1>9, <1>10

(* The pairs that the solver returns are the stars within the costs. *)
LEMMA DoneMunkres ==
  ASSUME CallOK, MarksInv, step = "done"
  PROVE  \E g : /\ Permutes(g) /\ M!Pairs = PairsOf(g)
                /\ \A i \in M!Index : mask[i][g[i]] = "star"
  <1>1. InputOK /\ Marked(mask) /\ Finished
    BY DEF CallOK, MarksInv
  <1>2. PICK g : Permutes(g) /\ \A i, k \in M!Index : mask[i][k] = "star" <=> g[i] = k
    BY <1>1, StarsPermute
  <1>3. \A i \in M!Index : g[i] \in M!Index
    BY <1>2 DEF Permutes
  <1>4. \A p \in M!Cells : p[1] \in M!Index /\ p[2] \in M!Index
    BY <1>1, CellsOfMatrix
  <1>5. M!Cells \in SUBSET (M!Index \X M!Index)
    BY <1>1, CellsOfMatrix
  <1>6. M!Pairs = PairsOf(g)
    BY <1>2, <1>4, <1>5 DEF M!Pairs, M!Stars, PairsOf
  <1> QED BY <1>2, <1>3, <1>6

(* linear_assignment.cpp 78-109, munkres.h: whatever the costs are, the     *)
(* solver returns as many pairs as the shorter side of the matrix has lines *)
(* and no track or detection twice; those that are kept cost no more than   *)
(* max_distance.                                                            *)
MunkresMatching ==
    solver = "munkres" /\ step = "done" =>
       /\ M!Pairs \in M!FullMatchings
       /\ \A p \in M!matches : M!Cost(p[1], p[2]) <= CostLimit

(* It follows from the stars being as many as the lines. *)
LEMMA KeptWithin ==
  ASSUME CallOK, MarksInv, step = "done"
  PROVE  /\ M!Pairs \in M!FullMatchings
         /\ \A p \in M!matches : M!Cost(p[1], p[2]) <= CostLimit
  <1>1. InputOK
    BY DEF CallOK
  <1>2. M!Pairs \in M!FullMatchings
    BY <1>1, DoneMunkres, PairsAreFull
  <1>3. ASSUME NEW p \in M!matches PROVE M!Cost(p[1], p[2]) <= CostLimit
    <2>1. p \in M!Cells /\ (M!Capped(p[1], p[2]) = NaN \/ M!Capped(p[1], p[2]) <= CostLimit)
      BY DEF M!matches, M!Pairs
    <2>2. p[1] \in 0 .. input.rows - 1 /\ p[2] \in 0 .. input.cols - 1
      BY <1>1, <2>1, CellsOfMatrix
    <2> QED BY <2>1, <2>2, CostIs
  <1> QED BY <1>2, <1>3

(* This holds of every matrix, costs below zero included. *)
THEOREM MunkresMatches == AssignmentSpec => []MunkresMatching
  <1>1. DeepSortInv => MunkresMatching
    BY KeptWithin DEF DeepSortInv, MunkresInv, MunkresMatching
  <1> QED BY <1>1, MunkresInvariant, PTL

-----------------------------------------------------------------------------
(* What a matching costs DeepSORT. *)

(* The costs of the pairs in s, which are pairs of f, row by row. *)
PairCosts(f, s) == [i \in Index |-> IF <<i, f[i]>> \in s THEN M!Cost(i, f[i]) ELSE 0]

(* There is room for the square matrix in the extended one of Lapjv. *)
LEMMA Room ==
  ASSUME InputOK
  PROVE  SizeOK /\ \A i \in M!Index : i \in Index
  <1>1. /\ M!size \in Nat /\ (M!size = input.rows \/ M!size = input.cols)
        /\ M!Index = 0 .. M!size - 1 /\ input.rows \in Nat \ {0} /\ input.cols \in Nat \ {0}
    BY Square DEF InputOK
  <1>2. n = input.rows + input.cols
    BY DEF n
  <1>3. SizeOK
    BY <1>1, <1>2 DEF SizeOK
  <1>4. Index = 0 .. n - 1
    BY <1>3, Positions
  <1> HIDE DEF n
  <1>5. \A i \in M!Index : i \in Index
    BY <1>1, <1>2, <1>4
  <1> QED BY <1>3, <1>5

(* The sum of TotalCost is the sum of these terms. *)
LEMMA TotalPicked ==
  ASSUME InputOK, NEW f, NEW T, IsFiniteSet(T),
         \A p \in T : p[1] \in Index /\ p = <<p[1], f[p[1]]>> /\ M!Cost(p[1], p[2]) \in Int
  PROVE  /\ PairCosts(f, T) \in [Index -> Int]
         /\ M!TotalCost(T) = SumOf(PairCosts(f, T))
  <1> SizeOK
    BY Room
  <1> DEFINE Any(s) == CHOOSE i \in s : TRUE
             Term(p) == M!Cost(p[1], p[2])
             Rec(h) == h = [s \in SUBSET T |-> IF s = {} THEN 0 ELSE Term(Any(s)) + h[s \ {Any(s)}]]
             iter == CHOOSE h : Rec(h)
             F == [s \in SUBSET T |-> SumOf(PairCosts(f, s))]
  <1>1. M!TotalCost(T) = iter[T]
    BY DEF M!TotalCost, M!MapThenSumSet, M!MapThenFoldSet
  <1>2. ASSUME NEW s \in SUBSET T
        PROVE  /\ PairCosts(f, s) \in [Index -> Int]
               /\ \A k \in Index : PairCosts(f, s)[k] = IF <<k, f[k]>> \in s THEN M!Cost(k, f[k]) ELSE 0
    <2>1. ASSUME NEW k \in Index, <<k, f[k]>> \in s PROVE M!Cost(k, f[k]) \in Int
      BY <2>1
    <2> QED BY <2>1 DEF PairCosts
  <1>3. ASSUME NEW s \in SUBSET T, s # {}
        PROVE  /\ Any(s) \in s /\ s \ {Any(s)} \in SUBSET T
               /\ SumOf(PairCosts(f, s)) = Term(Any(s)) + SumOf(PairCosts(f, s \ {Any(s)}))
    <2> DEFINE p == Any(s)
               r == s \ {p}
               e == Term(p)
               i == p[1]
               b == Repeated({i}, e)
    <2>1. p \in s /\ i \in Index /\ p = <<i, f[i]>> /\ r \in SUBSET T /\ e \in Int /\ e = M!Cost(i, f[i])
      <3>1. p \in s
        BY <1>3
      <3>2. p[1] \in Index /\ p = <<p[1], f[p[1]]>> /\ M!Cost(p[1], p[2]) \in Int
        BY <3>1
      <3> HIDE DEF p
      <3>3. p[2] = f[p[1]]
        BY <3>2
      <3> QED BY <3>1, <3>2, <3>3
    <2>2. b \in [Index -> Int] /\ \A k \in Index : b[k] = IF k = i THEN e ELSE 0
      <3> HIDE DEF e, i
      <3> QED BY <2>1 DEF Repeated
    <2>3. \A q : q \in s <=> (q \in r \/ q = p)
      BY <2>1
    <2>4. p \notin r
      OBVIOUS
    <2> HIDE DEF p, r, b, e, i
    <2>5. SumOf(b) = e
      BY <2>1, <2>2, SumSingle
    <2>6. /\ PairCosts(f, s) \in [Index -> Int] /\ PairCosts(f, r) \in [Index -> Int]
          /\ \A k \in Index : PairCosts(f, s)[k] = (IF <<k, f[k]>> \in s THEN M!Cost(k, f[k]) ELSE 0)
                               /\ PairCosts(f, r)[k] = (IF <<k, f[k]>> \in r THEN M!Cost(k, f[k]) ELSE 0)
      BY <1>2, <2>1
    <2>7. \A k \in Index : PairCosts(f, s)[k] = b[k] + PairCosts(f, r)[k]
      <3> SUFFICES ASSUME NEW k \in Index PROVE PairCosts(f, s)[k] = b[k] + PairCosts(f, r)[k]
        OBVIOUS
      <3>1. CASE k = i
        <4>1. PairCosts(f, s)[k] = e /\ PairCosts(f, r)[k] = 0 /\ b[k] = e
          BY <2>1, <2>2, <2>4, <2>6, <3>1
        <4> QED BY <2>1, <4>1
      <3>2. CASE k # i
        <4>1. <<k, f[k]>> # p
          BY <2>1, <3>2
        <4>2. PairCosts(f, r)[k] \in Int /\ b[k] = 0 /\ PairCosts(f, s)[k] = PairCosts(f, r)[k]
          BY <2>2, <2>3, <2>6, <3>2, <4>1
        <4> QED BY <4>2
      <3> QED BY <3>1, <3>2
    <2>8. SumOf(PairCosts(f, s)) = SumOf(b) + SumOf(PairCosts(f, r))
      BY <2>2, <2>6, <2>7, SumAdds
    <2> QED BY <2>1, <2>5, <2>8 DEF p, r, e
  <1>4. SumOf(PairCosts(f, {})) = 0
    <2>1. {} \in SUBSET T
      OBVIOUS
    <2> QED BY <1>2, <2>1, SumNothing
  <1> HIDE DEF Term, Any
  <1>5. Rec(F)
    <2>1. ASSUME NEW s \in SUBSET T
          PROVE  F[s] = IF s = {} THEN 0 ELSE Term(Any(s)) + F[s \ {Any(s)}]
      BY <1>3, <1>4
    <2>2. F = [s \in SUBSET T |-> F[s]]
      OBVIOUS
    <2> HIDE DEF F
    <2> QED BY <2>1, <2>2
  <1>6. Rec(iter)
    <2> HIDE DEF Rec, F
    <2> QED BY <1>5
  <1> HIDE DEF iter
  <1>7. \A s \in SUBSET T : iter[s] = IF s = {} THEN 0 ELSE Term(Any(s)) + iter[s \ {Any(s)}]
    BY <1>6
  <1>8. \A s \in SUBSET T : IsFiniteSet(s) /\ Cardinality(s) \in Nat
    BY FS_Subset, FS_CardinalityType
  <1> DEFINE m == Cardinality(T)
             G == {k \in 0 .. m : \A s \in SUBSET T : Cardinality(s) = k => iter[s] = SumOf(PairCosts(f, s))}
  <1>9. m \in Nat
    BY <1>8
  <1>10. 0 \in G
    <2>1. ASSUME NEW s \in SUBSET T, Cardinality(s) = 0 PROVE iter[s] = SumOf(PairCosts(f, s))
      <3>1. s = {}
        BY <1>8, <2>1, FS_EmptySet
      <3> QED BY <1>4, <1>7, <3>1
    <2> HIDE DEF m
    <2> QED BY <1>9, <2>1
  <1>11. ASSUME NEW k \in 0 + 1 .. m, k - 1 \in G PROVE k \in G
    <2>1. ASSUME NEW s \in SUBSET T, Cardinality(s) = k PROVE iter[s] = SumOf(PairCosts(f, s))
      <3>1. s # {}
        BY <2>1, FS_EmptySet
      <3>2. Any(s) \in s /\ s \ {Any(s)} \in SUBSET T
            /\ SumOf(PairCosts(f, s)) = Term(Any(s)) + SumOf(PairCosts(f, s \ {Any(s)}))
        BY <1>3, <3>1
      <3>3. Cardinality(s \ {Any(s)}) = k - 1
        BY <1>8, <2>1, <3>2, FS_RemoveElement
      <3>4. iter[s \ {Any(s)}] = SumOf(PairCosts(f, s \ {Any(s)}))
        BY <1>11, <3>2, <3>3
      <3>5. iter[s] = Term(Any(s)) + iter[s \ {Any(s)}]
        BY <1>7, <3>1
      <3> QED BY <3>2, <3>4, <3>5
    <2>2. k \in 0 .. m
      <3> HIDE DEF m
      <3> QED BY <1>9
    <2> QED BY <2>1, <2>2
  <1>12. m \in G
    <2> HIDE DEF G, m
    <2>1. 0 \in Int /\ m \in Int /\ m \in 0 .. m
      BY <1>9
    <2> QED BY <1>10, <1>11, <2>1, IntervalInduction DEF Inductive
  <1>13. T \in SUBSET T /\ Cardinality(T) = m
    OBVIOUS
  <1>14. iter[T] = SumOf(PairCosts(f, T))
    <2> HIDE DEF m
    <2> QED BY <1>12, <1>13
  <1> QED BY <1>1, <1>2, <1>13, <1>14

(* The square costs on a permutation, row by row. *)
AlongSquare(g) == [i \in Index |-> IF i \in M!Index THEN M!Squared[i][g[i]] ELSE 0]

(* A permutation that gives tracks and detections a largest matching costs  *)
(* what the matching does and the padding of the lines that are left.       *)
LEMMA SquareTotal ==
  ASSUME CallOK, NEW g, Permutes(g), PairsOf(g) \in M!FullMatchings
  PROVE  /\ AlongSquare(g) \in [Index -> Int]
         /\ SumOf(AlongSquare(g)) = M!TotalCost(PairsOf(g)) + M!mmax * (M!size - Fewest)
         /\ M!TotalCost(PairsOf(g)) \in Int
  <1> DEFINE S == PairsOf(g)
             Given == {i \in M!Index : <<i, g[i]>> \in S}
             Left == M!Index \ Given
             w == PairCosts(g, S)
             b == Repeated(Left, M!mmax)
  <1>1. InputOK /\ SizeOK
    BY Room DEF CallOK
  <1>2. g \in [M!Index -> M!Index] /\ \A i, r \in M!Index : g[i] = g[r] => i = r
    BY DEF Permutes
  <1>3. /\ IsFiniteSet(S) /\ Cardinality(S) = Fewest
        /\ \A p \in S : /\ p[1] \in M!Index /\ p[1] \in Index /\ p = <<p[1], g[p[1]]>>
                        /\ M!Cost(p[1], p[2]) \in Int
    <2>1. S \in SUBSET M!Cells /\ Cardinality(S) = Fewest
      BY <1>1, FullIs
    <2>2. IsFiniteSet(S)
      BY <1>1, <2>1, CellsOfMatrix
    <2>3. \A p \in S : p \in M!Cells /\ p[1] \in M!Index /\ p[2] \in M!Index /\ p = <<p[1], p[2]>> /\ g[p[1]] = p[2]
      BY <1>1, CellsOfMatrix DEF PairsOf
    <2>4. \A p \in S : p[1] \in 0 .. input.rows - 1 /\ p[2] \in 0 .. input.cols - 1
      BY <1>1, <2>3, CellsOfMatrix
    <2>5. \A p \in S : M!Cost(p[1], p[2]) \in Int
      BY <2>4, CostIs
    <2>6. \A p \in S : p[1] \in Index
      BY <1>1, <2>3, Room
    <2> HIDE DEF S
    <2> QED BY <2>1, <2>2, <2>3, <2>5, <2>6
  <1>4. \A i \in M!Index : <<i, g[i]>> \in S <=> <<i, g[i]>> \in M!Cells
    BY DEF PairsOf
  <1> HIDE DEF S
  <1>5. w \in [Index -> Int] /\ M!TotalCost(S) = SumOf(w)
    BY <1>1, <1>3, TotalPicked
  <1>6. Cardinality(Left) = M!size - Fewest /\ Left \in SUBSET Index
    <2> DEFINE f == [p \in S |-> p[1]]
    <2>1. f \in Bijection(S, Given)
      <3>1. \A p \in S : f[p] \in Given
        BY <1>3
      <3>2. \A p, q \in S : f[p] = f[q] => p = q
        BY <1>3
      <3>3. \A i \in Given : f[<<i, g[i]>>] = i /\ <<i, g[i]>> \in S
        OBVIOUS
      <3>4. f \in [S -> Given]
        BY <3>1
      <3> HIDE DEF f, Given
      <3>5. f \in Injection(S, Given)
        BY <3>2, <3>4 DEF Injection, IsInjective
      <3>6. f \in Surjection(S, Given)
        BY <3>3, <3>4 DEF Surjection
      <3> QED BY <3>5, <3>6 DEF Bijection
    <2>2. IsFiniteSet(Given) /\ Cardinality(Given) = Fewest
      <3> HIDE DEF f, Given
      <3>1. ExistsBijection(S, Given)
        BY <2>1 DEF ExistsBijection
      <3> QED BY <1>3, <3>1, FS_Bijection
    <2>3. IsFiniteSet(M!Index) /\ Cardinality(M!Index) = M!size /\ M!size \in Nat
      BY <1>1, Square
    <2>4. Given \in SUBSET M!Index /\ M!Index \intersect Given = Given
      OBVIOUS
    <2> HIDE DEF Given, f
    <2>5. Cardinality(M!Index \ Given) = Cardinality(M!Index) - Cardinality(M!Index \intersect Given)
      BY <2>3, FS_Difference
    <2>6. Left \in SUBSET Index
      BY <1>1, Room
    <2> QED BY <2>2, <2>3, <2>4, <2>5, <2>6
  <1>7. M!mmax \in Int
    BY SquaredIs
  <1>8. b \in [Index -> Int] /\ SumOf(b) = M!mmax * (M!size - Fewest)
    <2> HIDE DEF Left
    <2> QED BY <1>1, <1>6, <1>7, SumRepeated
  <1>9. \A i \in Index : b[i] = IF i \in Left THEN M!mmax ELSE 0
    BY DEF Repeated
  <1>10. \A i \in Index : w[i] = IF <<i, g[i]>> \in S THEN M!Cost(i, g[i]) ELSE 0
    BY DEF PairCosts
  <1> HIDE DEF w, b
  <1>11. ASSUME NEW i \in Index PROVE AlongSquare(g)[i] = w[i] + b[i]
    <2>1. w[i] \in Int /\ b[i] \in Int
      BY <1>5, <1>8
    <2>2. AlongSquare(g)[i] = IF i \in M!Index THEN M!Squared[i][g[i]] ELSE 0
      BY DEF AlongSquare
    <2>3. CASE i \in M!Index /\ <<i, g[i]>> \in S
      <3>1. M!Squared[i][g[i]] = M!Cost(i, g[i])
        BY <1>2, <1>4, <2>3, SquaredIs
      <3>2. w[i] = M!Cost(i, g[i]) /\ b[i] = 0
        BY <1>9, <1>10, <2>3
      <3> QED BY <2>1, <2>2, <2>3, <3>1, <3>2
    <2>4. CASE i \in M!Index /\ <<i, g[i]>> \notin S
      <3>1. M!Squared[i][g[i]] = M!mmax
        BY <1>2, <1>4, <2>4, SquaredIs
      <3>2. w[i] = 0 /\ b[i] = M!mmax
        BY <1>9, <1>10, <2>4
      <3> QED BY <2>1, <2>2, <2>4, <3>1, <3>2
    <2>5. CASE i \notin M!Index
      <3>1. <<i, g[i]>> \notin S
        BY <1>3, <2>5
      <3>2. w[i] = 0 /\ b[i] = 0
        BY <1>9, <1>10, <2>5, <3>1
      <3> QED BY <2>2, <2>5, <3>2
    <2> QED BY <2>3, <2>4, <2>5
  <1>12. AlongSquare(g) \in [Index -> Int]
    <2>1. \A i \in Index : w[i] + b[i] \in Int
      BY <1>5, <1>8
    <2>2. AlongSquare(g) = [i \in Index |-> AlongSquare(g)[i]]
      BY DEF AlongSquare
    <2> QED BY <1>11, <2>1, <2>2
  <1>13. SumOf(AlongSquare(g)) = SumOf(w) + SumOf(b)
    BY <1>1, <1>5, <1>8, <1>11, <1>12, SumAdds
  <1>14. SumOf(w) \in Int
    BY <1>1, <1>5, PartialAdds
  <1> QED BY <1>5, <1>8, <1>12, <1>13, <1>14 DEF S

(* Prices of rows and columns, and nothing outside the square matrix. *)
Padded(a) == [i \in Index |-> IF i \in M!Index THEN a[i] ELSE 0]
Widened(g) == [i \in Index |-> IF i \in M!Index THEN g[i] ELSE i]

(* A permutation collects the price of every row and every column. *)
LEMMA PricesCollected ==
  ASSUME InputOK, NEW g, Permutes(g), NEW a \in [M!Index -> Int], NEW b \in [M!Index -> Int]
  PROVE  LET w == [i \in Index |-> IF i \in M!Index THEN a[i] + b[g[i]] ELSE 0]
         IN  w \in [Index -> Int] /\ SumOf(w) = SumOf(Padded(a)) + SumOf(Padded(b))
  <1> DEFINE w == [i \in Index |-> IF i \in M!Index THEN a[i] + b[g[i]] ELSE 0]
             h == Widened(g)
             A == Padded(a)
             B == Padded(b)
             u == [i \in Index |-> B[h[i]]]
  <1>1. SizeOK /\ \A i \in M!Index : i \in Index
    BY Room
  <1>2. /\ g \in [M!Index -> M!Index] /\ \A i, r \in M!Index : g[i] = g[r] => i = r
        /\ \A k \in M!Index : \E i \in M!Index : g[i] = k
    BY DEF Permutes
  <1>3. /\ \A i \in M!Index : h[i] = g[i] /\ A[i] = a[i] /\ B[i] = b[i]
        /\ \A i \in Index : i \notin M!Index => h[i] = i /\ A[i] = 0 /\ B[i] = 0
        /\ A \in [Index -> Int] /\ B \in [Index -> Int]
    BY <1>1 DEF Widened, Padded
  <1>4. Perm(h)
    <2>1. h = [i \in Index |-> h[i]]
      BY DEF Widened
    <2> HIDE DEF h
    <2>2. h \in [Index -> Index]
      <3>1. \A i \in Index : h[i] \in Index
        BY <1>1, <1>2, <1>3
      <3> HIDE DEF Index
      <3> QED BY <2>1, <3>1
    <2>3. \A i, r \in Index : h[i] = h[r] => i = r
      BY <1>2, <1>3
    <2>4. \A k \in Index : \E i \in Index : h[i] = k
      BY <1>1, <1>2, <1>3
    <2> QED BY <2>2, <2>3, <2>4 DEF Perm
  <1> HIDE DEF h, A, B
  <1>5. \A i \in Index : h[i] \in Index
    BY <1>4 DEF Perm
  <1>6. u \in [Index -> Int] /\ \A i \in Index : u[i] = B[h[i]]
    BY <1>3, <1>5
  <1>7. w \in [Index -> Int]
    BY <1>2
  <1>8. \A i \in Index : w[i] = A[i] + u[i]
    <2> SUFFICES ASSUME NEW i \in Index PROVE w[i] = A[i] + u[i]
      OBVIOUS
    <2>1. CASE i \in M!Index
      <3>1. w[i] = a[i] + b[g[i]] /\ A[i] = a[i] /\ u[i] = b[g[i]]
        BY <1>2, <1>3, <1>6, <2>1
      <3> HIDE DEF w, u
      <3> QED BY <3>1
    <2>2. CASE i \notin M!Index
      <3>1. w[i] = 0 /\ A[i] = 0 /\ u[i] = 0
        BY <1>3, <1>6, <2>2
      <3> HIDE DEF w, u
      <3> QED BY <3>1
    <2> QED BY <2>1, <2>2
  <1> HIDE DEF w, u
  <1>9. SumOf(w) = SumOf(A) + SumOf(u)
    BY <1>1, <1>3, <1>6, <1>7, <1>8, SumAdds
  <1>10. SumOf(u) = SumOf(B)
    BY <1>1, <1>3, <1>4, <1>6, SumPermuted
  <1> QED BY <1>7, <1>9, <1>10 DEF w, A, B

(* Every largest matching is what some permutation gives. *)
LEMMA FullExtends ==
  ASSUME InputOK, NEW S \in M!FullMatchings
  PROVE  \E h : Permutes(h) /\ PairsOf(h) = S
  <1> DEFINE D == M!Index
             Rows == {i \in D : \E p \in S : p[1] = i}
             Cols == {k \in D : \E p \in S : p[2] = k}
  <1>1. /\ S \in SUBSET M!Cells
        /\ \A p, q \in S : p # q => p[1] # q[1] /\ p[2] # q[2]
    BY FullIs
  <1>2. /\ \A p \in M!Cells : p[1] \in D /\ p[2] \in D /\ p = <<p[1], p[2]>>
                              /\ p[1] \in 0 .. input.rows - 1 /\ p[2] \in 0 .. input.cols - 1
        /\ \A i, k : <<i, k>> \in S => <<i, k>> \in M!Cells
    BY <1>1, CellsOfMatrix
  <1>3. \A p \in S : p[1] \in Rows /\ p[2] \in Cols /\ p = <<p[1], p[2]>>
    BY <1>1, <1>2
  <1>4. IsFiniteSet(D) /\ IsFiniteSet(Rows) /\ IsFiniteSet(Cols) /\ Rows \in SUBSET D /\ Cols \in SUBSET D
    <2>1. IsFiniteSet(D)
      BY Square
    <2>2. Rows \in SUBSET D /\ Cols \in SUBSET D
      OBVIOUS
    <2> HIDE DEF D, Rows, Cols
    <2> QED BY <2>1, <2>2, FS_Subset
  <1>5. /\ \A i \in Rows : \E p \in S : p[1] = i
        /\ \A k \in Cols : \E p \in S : p[2] = k
    OBVIOUS
  <1> HIDE DEF D, Rows, Cols
  <1>6. Cardinality(Rows) = Cardinality(Cols)
    <2>1. \A p, q \in S : (p[1] = q[1] => p = q) /\ (p[2] = q[2] => p = q)
      BY <1>1
    <2>2. Cardinality(S) = Cardinality(Rows) <=> \A e \in Rows : \E p \in S : p[1] = e
      BY <1>3, <1>4, <2>1, ApartCount
    <2>3. Cardinality(S) = Cardinality(Cols) <=> \A e \in Cols : \E p \in S : p[2] = e
      BY <1>3, <1>4, <2>1, ApartCount
    <2> QED BY <1>5, <2>2, <2>3
  <1>7. PICK b \in Bijection(D \ Rows, D \ Cols) : TRUE
    <2>1. /\ IsFiniteSet(D \ Rows) /\ Cardinality(D \ Rows) = Cardinality(D) - Cardinality(D \intersect Rows)
          /\ IsFiniteSet(D \ Cols) /\ Cardinality(D \ Cols) = Cardinality(D) - Cardinality(D \intersect Cols)
      BY <1>4, FS_Difference
    <2>2. D \intersect Rows = Rows /\ D \intersect Cols = Cols
      BY <1>4
    <2>3. Cardinality(D \ Rows) = Cardinality(D \ Cols)
      BY <1>6, <2>1, <2>2
    <2>4. ExistsBijection(D \ Rows, D \ Cols)
      BY <2>1, <2>3, FS_SameCardinalityBij
    <2> QED BY <2>4 DEF ExistsBijection
  <1>8. \A i \in D \ Rows : b[i] \in D \ Cols
    BY <1>7 DEF Bijection, Injection
  <1>9. \A i, r \in D \ Rows : b[i] = b[r] => i = r
    BY <1>7 DEF Bijection, Injection, IsInjective
  <1> DEFINE c == [i \in Rows |-> CHOOSE k \in Cols : <<i, k>> \in S]
             h == [i \in D |-> IF i \in Rows THEN c[i] ELSE b[i]]
  <1>10. ASSUME NEW i \in Rows PROVE c[i] \in Cols /\ <<i, c[i]>> \in S
    <2>1. PICK p \in S : p[1] = i
      BY <1>5
    <2>2. p[2] \in Cols /\ <<i, p[2]>> \in S
      BY <1>3, <2>1
    <2> QED BY <2>2
  <1>11. \A i, r \in Rows : c[i] = c[r] => i = r
    <2> SUFFICES ASSUME NEW i \in Rows, NEW r \in Rows, c[i] = c[r] PROVE i = r
      OBVIOUS
    <2> DEFINE p == <<i, c[i]>>
               q == <<r, c[r]>>
    <2>1. p \in S /\ q \in S /\ p[2] = q[2] /\ p[1] = i /\ q[1] = r
      <3>1. <<i, c[i]>> \in S /\ <<r, c[r]>> \in S
        BY <1>10
      <3> HIDE DEF c
      <3> QED BY <3>1
    <2> HIDE DEF p, q, c
    <2> QED BY <1>1, <2>1
  <1> HIDE DEF c
  <1>12. /\ \A i \in Rows : h[i] = c[i]
         /\ \A i \in D \ Rows : h[i] = b[i]
    BY <1>4
  <1>13. h \in [D -> D]
    BY <1>4, <1>8, <1>10
  <1> HIDE DEF h
  <1>14. \A i, r \in D : h[i] = h[r] => i = r
    <2> SUFFICES ASSUME NEW i \in D, NEW r \in D, h[i] = h[r] PROVE i = r
      OBVIOUS
    <2>1. CASE i \in Rows /\ r \in Rows
      BY <1>11, <1>12, <2>1
    <2>2. CASE i \notin Rows /\ r \notin Rows
      BY <1>9, <1>12, <2>2
    <2>3. CASE (i \in Rows /\ r \notin Rows) \/ (i \notin Rows /\ r \in Rows)
      BY <1>8, <1>10, <1>12, <2>3
    <2> QED BY <2>1, <2>2, <2>3
  <1>15. Permutes(h)
    BY <1>13, <1>14, OneToOnePermutes DEF D
  <1>16. ASSUME NEW p \in S PROVE p \in PairsOf(h)
    <2>1. p[1] \in Rows /\ p \in M!Cells
      BY <1>1, <1>3
    <2> DEFINE q == <<p[1], c[p[1]]>>
    <2>2. q \in S /\ q[1] = p[1] /\ q[2] = c[p[1]]
      BY <1>10, <2>1
    <2> HIDE DEF q
    <2>3. q = p
      BY <1>1, <2>2
    <2>4. h[p[1]] = p[2]
      BY <1>12, <2>1, <2>2, <2>3
    <2> QED BY <2>1, <2>4 DEF PairsOf
  <1>17. ASSUME NEW p \in PairsOf(h) PROVE p \in S
    <2>1. /\ p \in M!Cells /\ h[p[1]] = p[2] /\ p[1] \in D /\ p[2] \in D /\ p = <<p[1], p[2]>>
          /\ p[1] \in 0 .. input.rows - 1 /\ p[2] \in 0 .. input.cols - 1
      BY <1>2 DEF PairsOf
    <2>2. CASE p[1] \in Rows
      BY <1>10, <1>12, <2>1, <2>2
    <2>3. CASE p[1] \notin Rows
      <3>1. p[2] \notin Cols
        BY <1>8, <1>12, <2>1, <2>3
      <3>2. \/ \E q \in S : q[1] = p[1]
            \/ \E q \in S : q[2] = p[2]
        BY <2>1, FullUses
      <3> QED BY <1>3, <2>3, <3>1, <3>2
    <2> QED BY <2>2, <2>3
  <1>18. PairsOf(h) = S
    BY <1>16, <1>17
  <1> QED BY <1>15, <1>18

(* No largest matching costs less than the stars do: prices make every cell  *)
(* of the matrix worth zero or more, and the stars worth zero.               *)
LEMMA CheapestStars ==
  ASSUME MunkresInv, NoneBelow, step = "done", NEW S \in M!FullMatchings
  PROVE  /\ M!TotalCost(M!Pairs) \in Int /\ M!TotalCost(S) \in Int
         /\ M!TotalCost(M!Pairs) <= M!TotalCost(S)
  <1>1. CallOK /\ InputOK /\ MarksInv /\ MatrixOK(matrix) /\ OnZeros(mask, matrix) /\ SizeOK
    <2>1. CallOK /\ InputOK /\ MarksInv /\ MatrixInv
      BY DEF MunkresInv, CallOK
    <2> QED BY <2>1, Room DEF MatrixInv
  <1>2. PICK g : Permutes(g) /\ M!Pairs = PairsOf(g) /\ \A i \in M!Index : mask[i][g[i]] = "star"
    BY <1>1, DoneMunkres
  <1>3. PICK h : Permutes(h) /\ PairsOf(h) = S
    BY <1>1, FullExtends
  <1>4. PairsOf(g) \in M!FullMatchings
    BY <1>1, <1>2, PairsAreFull
  <1>5. PICK a, b \in [M!Index -> Int] : \A i, k \in M!Index : matrix[i][k] = M!Squared[i][k] - (a[i] + b[k])
    BY <1>1 DEF MatrixOK, Priced
  <1> DEFINE wg == [i \in Index |-> IF i \in M!Index THEN a[i] + b[g[i]] ELSE 0]
             wh == [i \in Index |-> IF i \in M!Index THEN a[i] + b[h[i]] ELSE 0]
  <1>6. wg \in [Index -> Int] /\ wh \in [Index -> Int] /\ SumOf(wg) = SumOf(wh)
    BY <1>1, <1>2, <1>3, PricesCollected
  <1>7. \A i \in M!Index : g[i] \in M!Index /\ h[i] \in M!Index
    BY <1>2, <1>3 DEF Permutes
  <1>8. \A i, k \in M!Index : matrix[i][k] \in Int /\ M!Squared[i][k] \in Int /\ matrix[i][k] >= 0
    BY <1>1, SquaredIs DEF MatrixOK, NotBelow
  <1>9. ASSUME NEW i \in Index
        PROVE  AlongSquare(g)[i] <= wg[i] /\ wh[i] <= AlongSquare(h)[i]
    <2>1. CASE i \in M!Index
      <3>1. AlongSquare(g)[i] = M!Squared[i][g[i]] /\ wg[i] = a[i] + b[g[i]]
            /\ AlongSquare(h)[i] = M!Squared[i][h[i]] /\ wh[i] = a[i] + b[h[i]]
        BY <2>1 DEF AlongSquare
      <3>2. matrix[i][g[i]] = 0
        BY <1>1, <1>2, <1>7, <2>1 DEF OnZeros
      <3>3. /\ matrix[i][g[i]] = M!Squared[i][g[i]] - (a[i] + b[g[i]])
            /\ matrix[i][h[i]] = M!Squared[i][h[i]] - (a[i] + b[h[i]])
            /\ matrix[i][h[i]] >= 0
            /\ M!Squared[i][g[i]] \in Int /\ M!Squared[i][h[i]] \in Int
            /\ a[i] \in Int /\ b[g[i]] \in Int /\ b[h[i]] \in Int
        BY <1>5, <1>7, <1>8, <2>1
      <3> HIDE DEF wg, wh
      <3> QED BY <3>1, <3>2, <3>3
    <2>2. CASE i \notin M!Index
      <3>1. AlongSquare(g)[i] = 0 /\ wg[i] = 0 /\ AlongSquare(h)[i] = 0 /\ wh[i] = 0
        BY <2>2 DEF AlongSquare
      <3> HIDE DEF wg, wh
      <3> QED BY <3>1
    <2> QED BY <2>1, <2>2
  <1>10. /\ AlongSquare(g) \in [Index -> Int] /\ AlongSquare(h) \in [Index -> Int]
         /\ SumOf(AlongSquare(g)) = M!TotalCost(M!Pairs) + M!mmax * (M!size - Fewest)
         /\ SumOf(AlongSquare(h)) = M!TotalCost(S) + M!mmax * (M!size - Fewest)
         /\ M!TotalCost(M!Pairs) \in Int /\ M!TotalCost(S) \in Int
    <2>1. /\ AlongSquare(g) \in [Index -> Int]
          /\ SumOf(AlongSquare(g)) = M!TotalCost(M!Pairs) + M!mmax * (M!size - Fewest)
          /\ M!TotalCost(M!Pairs) \in Int
      BY <1>1, <1>2, <1>4, SquareTotal
    <2>2. /\ AlongSquare(h) \in [Index -> Int]
          /\ SumOf(AlongSquare(h)) = M!TotalCost(S) + M!mmax * (M!size - Fewest)
          /\ M!TotalCost(S) \in Int
      BY <1>1, <1>3, SquareTotal
    <2> QED BY <2>1, <2>2
  <1> HIDE DEF wg, wh
  <1>11. SumOf(AlongSquare(g)) <= SumOf(wg) /\ SumOf(wh) <= SumOf(AlongSquare(h))
    BY <1>1, <1>6, <1>9, <1>10, SumGrows
  <1>12. SumOf(wg) \in Int
    BY <1>1, <1>6, PartialAdds
  <1> DEFINE pad == M!mmax * (M!size - Fewest)
  <1>13. pad \in Int
    <2>1. M!mmax \in Int /\ M!size \in Int /\ Fewest \in Int
      BY <1>1, Square, SquaredIs DEF Fewest, InputOK
    <2> QED BY <2>1
  <1> HIDE DEF pad
  <1>14. /\ SumOf(AlongSquare(g)) = M!TotalCost(M!Pairs) + pad
         /\ SumOf(AlongSquare(h)) = M!TotalCost(S) + pad
    BY <1>10 DEF pad
  <1> QED BY <1>6, <1>10, <1>11, <1>12, <1>13, <1>14

(* linear_assignment.cpp 78-109, munkres.h: for every matrix of              *)
(* distances of which none is below zero, NaN and rectangular ones included, *)
(* the solver returns a largest matching and no other one is cheaper.        *)
THEOREM MunkresIsOptimal == AssignmentSpec => [](NoneBelow => MunkresOptimal)
  <1>1. DeepSortInv => (NoneBelow => MunkresOptimal)
    <2> SUFFICES ASSUME DeepSortInv, NoneBelow, solver = "munkres", step = "done"
                 PROVE  M!MunkresOptimal
      BY DEF MunkresOptimal, M!MunkresOptimal
    <2>1. MunkresInv /\ CallOK /\ InputOK /\ MarksInv
      BY DEF DeepSortInv, MunkresInv, CallOK
    <2>2. M!Pairs \in M!FullMatchings /\ \A p \in M!matches : M!Cost(p[1], p[2]) <= CostLimit
      BY <2>1, KeptWithin
    <2>3. M!Rounding \in Nat
      <3> DEFINE B == {p \in M!Cells : M!Cost(p[1], p[2]) < 0}
      <3>1. B \in SUBSET (M!Index \X M!Index)
        BY <2>1, CellsOfMatrix
      <3>2. Cardinality(B) \in Nat
        <4> HIDE DEF B
        <4> QED BY <2>1, <3>1, CellsOfMatrix
      <3>3. M!Rounding = Cardinality(B)
        BY MunkresCounts DEF M!Rounding
      <3> QED BY <3>2, <3>3
    <2>4. \A S \in M!FullMatchings : M!TotalCost(M!Pairs) <= M!TotalCost(S) + M!Rounding
      <3> SUFFICES ASSUME NEW S \in M!FullMatchings
                   PROVE  M!TotalCost(M!Pairs) <= M!TotalCost(S) + M!Rounding
        OBVIOUS
      <3>1. /\ M!TotalCost(M!Pairs) \in Int /\ M!TotalCost(S) \in Int
            /\ M!TotalCost(M!Pairs) <= M!TotalCost(S)
        BY <2>1, CheapestStars
      <3> QED BY <2>3, <3>1
    <2> QED BY <2>2, <2>4 DEF M!MunkresOptimal
  <1> QED BY <1>1, MunkresInvariant, PTL

=============================================================================
