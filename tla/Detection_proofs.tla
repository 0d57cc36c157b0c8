--------------------------- MODULE Detection_proofs ---------------------------
EXTENDS Detection, FiniteSetTheorems, SequenceTheorems, NaturalsInduction, WellFoundedInduction, TLAPS

-----------------------------------------------------------------------------
(* Least and greatest elements, and the positions a filter keeps. *)

(* A set of naturals that is not empty has a least element. *)
LEMMA LeastExists ==
  ASSUME NEW S \in SUBSET Nat, S # {}
  PROVE  \E x \in S : \A y \in S : x <= y
  <1> DEFINE Less == {p \in Nat \X Nat : p[1] < p[2]}
  <1>1. IsWellFoundedOn(Less, Nat)
    BY NatLessThanWellFounded, Zenon DEF OpToRel
  <1>2. PICK x \in S : \A y \in S : ~ (<<y, x>> \in Less)
    <2> HIDE DEF Less
    <2> QED BY <1>1, WFMin, Zenon
  <1>3. ASSUME NEW y \in S PROVE x <= y
    <2>1. x \in Nat /\ y \in Nat /\ <<y, x>> \notin Less
      BY <1>2
    <2>2. ~(y < x)
      BY <2>1
    <2> QED BY <2>1, <2>2
  <1> QED BY <1>3

(* Min is that element. *)
LEMMA MinIsLeast ==
  ASSUME NEW S \in SUBSET Nat, S # {}
  PROVE  Min(S) \in S /\ \A y \in S : Min(S) <= y
BY LeastExists DEF Min

(* A set of naturals with a bound has a greatest element, and Max is it. *)
LEMMA MaxIsGreatest ==
  ASSUME NEW S \in SUBSET Nat, S # {}, NEW n \in Nat, \A y \in S : y <= n
  PROVE  Max(S) \in S /\ \A y \in S : Max(S) >= y
  <1> DEFINE T == {n - y : y \in S}
  <1>1. T \in SUBSET Nat /\ T # {}
    <2>1. \A y \in S : y \in Nat /\ y <= n /\ n - y \in Nat
      OBVIOUS
    <2> QED BY <2>1
  <1>2. PICK t \in T : \A u \in T : t <= u
    BY <1>1, LeastExists
  <1>3. PICK x \in S : t = n - x
    OBVIOUS
  <1>4. \A y \in S : x >= y
    <2> SUFFICES ASSUME NEW y \in S PROVE x >= y
      OBVIOUS
    <2>1. n - y \in T /\ x \in Nat /\ y \in Nat
      OBVIOUS
    <2>2. n - x <= n - y
      BY <1>2, <1>3, <2>1
    <2> QED BY <2>1, <2>2
  <1> QED BY <1>3, <1>4 DEF Max

(* The k-th position kept is a position that is kept. *)
LEMMA KthIsKept ==
  ASSUME NEW n \in Nat, NEW S \in SUBSET (1 .. n), NEW k \in 1 .. Cardinality(S)
  PROVE  Kth(S, k) \in S /\ Cardinality({j \in S : j < Kth(S, k)}) = k - 1
  <1> DEFINE Below(i) == {j \in S : j < i}
             c == Cardinality(S)
             f == [i \in S |-> Cardinality(Below(i)) + 1]
  <1>1. IsFiniteSet(S) /\ c \in Nat
    <2>1. IsFiniteSet(1 .. n)
      BY FS_Interval
    <2>2. IsFiniteSet(S)
      BY <2>1, FS_Subset
    <2> QED BY <2>2, FS_CardinalityType
  <1>2. ASSUME NEW i \in S
        PROVE  IsFiniteSet(Below(i)) /\ Cardinality(Below(i)) \in Nat /\ Cardinality(Below(i)) < c
    <2>1. IsFiniteSet(Below(i)) /\ Cardinality(Below(i)) <= c
      BY <1>1, FS_Subset
    <2>2. i \notin Below(i) /\ i \in S /\ i \in 1 .. n
      OBVIOUS
    <2>3. c # Cardinality(Below(i))
      <3>1. Below(i) \in SUBSET S /\ Below(i) # S
        BY <2>2
      <3> HIDE DEF Below
      <3> QED BY <1>1, <3>1, FS_Subset
    <2> QED BY <1>1, <2>1, <2>3, FS_CardinalityType
  <1>3. ASSUME NEW i \in S, NEW j \in S, i < j
        PROVE  Cardinality(Below(i)) < Cardinality(Below(j))
    <2>1. Below(i) \subseteq Below(j) /\ i \in Below(j) /\ i \notin Below(i)
      <3>1. i \in Int /\ j \in Int
        OBVIOUS
      <3>2. ASSUME NEW x \in S, x < i PROVE x < j
        <4>1. x \in Int
          OBVIOUS
        <4> QED BY <1>3, <3>1, <3>2, <4>1
      <3>3. ~(i < i)
        BY <3>1
      <3>4. Below(i) \subseteq Below(j)
        BY <3>2
      <3>5. i \in Below(j)
        BY <1>3
      <3> QED BY <3>3, <3>4, <3>5
    <2>2. Below(i) \in SUBSET Below(j) /\ Below(i) # Below(j)
      BY <2>1
    <2> HIDE DEF Below
    <2>3. Cardinality(Below(i)) <= Cardinality(Below(j)) /\ Cardinality(Below(i)) # Cardinality(Below(j))
      BY <1>2, <2>2, FS_Subset
    <2> QED BY <1>2, <2>3
  <1>4. f \in Injection(S, 1 .. c)
    <2>1. f \in [S -> 1 .. c]
      BY <1>1, <1>2
    <2>2. ASSUME NEW i \in S, NEW j \in S, f[i] = f[j] PROVE i = j
      <3>1. Cardinality(Below(i)) = Cardinality(Below(j))
        BY <1>2, <2>2
      <3> HIDE DEF Below
      <3> QED BY <1>2, <1>3, <3>1
    <2> QED BY <2>1, <2>2 DEF Injection, IsInjective
  <1>5. f \in Surjection(S, 1 .. c)
    <2>1. IsFiniteSet(1 .. c) /\ Cardinality(1 .. c) = c
      BY <1>1, FS_Interval
    <2> HIDE DEF f, c
    <2> QED BY <1>4, <2>1, FS_Injection DEF c
  <1>6. PICK i \in S : f[i] = k
    BY <1>5 DEF Surjection
  <1>7. Cardinality(Below(i)) = k - 1
    BY <1>2, <1>6
  <1> QED BY <1>7 DEF Kth

(* Before the first position that is left out, the k-th is k. *)
LEMMA KthOfPrefix ==
  ASSUME NEW n \in Nat, NEW a \in Nat, NEW S \in SUBSET (a + 1 .. n), NEW k \in Nat \ {0},
         \A j \in a + 1 .. a + k : j \in S
  PROVE  /\ k <= Cardinality(S) /\ Cardinality(S) <= n - a
         /\ Kth(S, k) = a + k
  <1>0. \A i \in S : i \in Int
    OBVIOUS
  <1>1. IsFiniteSet(S) /\ Cardinality(S) \in Nat /\ Cardinality(S) <= n - a
    <2>1. IsFiniteSet(a + 1 .. n) /\ Cardinality(a + 1 .. n) = IF a + 1 > n THEN 0 ELSE n - a
      BY FS_Interval
    <2>2. IsFiniteSet(S) /\ Cardinality(S) <= Cardinality(a + 1 .. n)
      BY <2>1, FS_Subset
    <2>3. a + k \in S
      OBVIOUS
    <2>4. a + k <= n /\ a + 1 <= n
      BY <2>3
    <2> QED BY <2>1, <2>2, <2>4, FS_CardinalityType
  <1> DEFINE Below(i) == {j \in S : j < i}
  <1>2. Cardinality(Below(a + k)) = k - 1
    <2>1. ASSUME NEW j PROVE j \in Below(a + k) <=> j \in a + 1 .. a + k - 1
      <3>1. CASE j \in S
        <4>1. j \in Int /\ j >= a + 1
          BY <3>1
        <4> QED BY <3>1, <4>1
      <3>2. CASE j \notin S
        <4>1. j \notin a + 1 .. a + k
          BY <3>2
        <4> QED BY <3>2, <4>1
      <3> QED BY <3>1, <3>2
    <2>2. Below(a + k) = a + 1 .. a + k - 1
      BY <2>1
    <2>3. Cardinality(a + 1 .. a + k - 1) = k - 1
      <3>1. Cardinality(a + 1 .. a + k - 1)
              = IF a + 1 > a + k - 1 THEN 0 ELSE (a + k - 1) - (a + 1) + 1
        BY FS_Interval
      <3> QED BY <3>1
    <2> QED BY <2>2, <2>3
  <1>3. k <= Cardinality(S)
    <2>1. a + 1 .. a + k \in SUBSET S
      OBVIOUS
    <2>2. Cardinality(a + 1 .. a + k) = IF a + 1 > a + k THEN 0 ELSE a + k - (a + 1) + 1
      BY FS_Interval
    <2> QED BY <1>1, <2>1, <2>2, FS_Subset
  <1>4. a + k \in S
    OBVIOUS
  <1>5. Kth(S, k) \in S /\ Cardinality(Below(Kth(S, k))) = k - 1
    BY <1>2, <1>4 DEF Kth
  <1>6. ASSUME NEW i \in S, NEW j \in S, i < j
        PROVE  Cardinality(Below(i)) # Cardinality(Below(j))
    <2>1. Below(i) \in SUBSET Below(j) /\ Below(i) # Below(j)
      <3>1. i \in Int /\ j \in Int /\ Below(i) \in SUBSET Below(j)
        <4>1. i \in Int /\ j \in Int
          BY <1>0
        <4>2. ASSUME NEW x \in S, x < i PROVE x < j
          <5>1. x \in Int
            BY <1>0
          <5> QED BY <1>6, <4>1, <4>2, <5>1
        <4> QED BY <4>1, <4>2
      <3>2. i \in Below(j) /\ i \notin Below(i)
        BY <1>6
      <3> QED BY <3>1, <3>2
    <2>2. IsFiniteSet(Below(j))
      BY <1>1, FS_Subset
    <2> HIDE DEF Below
    <2> QED BY <2>1, <2>2, FS_Subset
  <1> HIDE DEF Below
  <1>7. Kth(S, k) \in Int /\ a + k \in Int
    <2>1. Kth(S, k) \in S
      BY <1>5
    <2>2. Kth(S, k) \in Int
      BY <1>0, <2>1, Zenon
    <2> QED BY <2>2
  <1> QED BY <1>1, <1>2, <1>3, <1>4, <1>5, <1>6, <1>7

-----------------------------------------------------------------------------
(* Decoding *)

Rect == [x : Int, y : Int, w : Int, h : Int]
Cells == [conf : Int, probs : [Classes -> Int], box : Rect]
Candidates == [box : Rect, class : Classes, prob : Int]

(* The class a cell is given is one of the table's. *)
LEMMA MaxClassIsClass ==
  ASSUME NEW cell \in Cells
  PROVE  maxClassId(cell) \in Classes
  <1> DEFINE p == cell.probs
             Dominated(c) == {d \in Classes : p[d] <= p[c]}
             sizes == {Cardinality(Dominated(c)) : c \in Classes}
  <1>1. ClassNum \in Nat \ {0} /\ p \in [Classes -> Int]
    BY PostProcessAssumption DEF Cells
  <1>2. IsFiniteSet(Classes) /\ Cardinality(Classes) \in Nat
    <2>1. IsFiniteSet(Classes)
      BY <1>1, FS_Interval DEF Classes
    <2> QED BY <2>1, FS_CardinalityType
  <1>3. ASSUME NEW c \in Classes
        PROVE  /\ IsFiniteSet(Dominated(c)) /\ Cardinality(Dominated(c)) \in Nat
               /\ Cardinality(Dominated(c)) <= Cardinality(Classes)
    <2>1. Dominated(c) \in SUBSET Classes
      OBVIOUS
    <2> HIDE DEF Dominated
    <2> QED BY <1>2, <2>1, FS_Subset, FS_CardinalityType
  <1>4. PICK c \in Classes : \A d \in Classes :
           Cardinality(Dominated(c)) >= Cardinality(Dominated(d))
    <2> HIDE DEF Dominated
    <2>1. sizes \in SUBSET Nat /\ \A y \in sizes : y <= Cardinality(Classes)
      BY <1>3
    <2>2. sizes # {}
      <3>1. 1 \in Classes
        BY <1>1 DEF Classes
      <3> QED BY <3>1
    <2>3. Max(sizes) \in sizes /\ \A y \in sizes : Max(sizes) >= y
      <3> HIDE DEF sizes
      <3> QED BY <1>2, <2>1, <2>2, MaxIsGreatest
    <2>4. PICK c \in Classes : Max(sizes) = Cardinality(Dominated(c))
      BY <2>3
    <2>5. \A d \in Classes : Cardinality(Dominated(d)) \in sizes
      OBVIOUS
    <2> HIDE DEF sizes
    <2> QED BY <2>3, <2>4, <2>5
  <1>5. ASSUME NEW d \in Classes PROVE p[d] <= p[c]
    <2>1. p[d] \in Int /\ p[c] \in Int
      BY <1>1
    <2>2. SUFFICES ASSUME p[c] < p[d] PROVE FALSE
      BY <2>1
    <2>3. ASSUME NEW x \in Classes, p[x] <= p[c] PROVE p[x] <= p[d]
      <3>1. p[x] \in Int
        BY <1>1
      <3> QED BY <2>1, <2>2, <2>3, <3>1
    <2>4. Dominated(c) \in SUBSET Dominated(d)
      BY <2>3
    <2>5. d \in Dominated(d) /\ d \notin Dominated(c)
      BY <2>1, <2>2
    <2> HIDE DEF Dominated
    <2>6. Dominated(c) # Dominated(d)
      BY <2>5
    <2>7. Cardinality(Dominated(c)) <= Cardinality(Dominated(d))
          /\ Cardinality(Dominated(c)) # Cardinality(Dominated(d))
      BY <1>3, <2>4, <2>6, FS_Subset
    <2> QED BY <1>3, <1>4, <2>7
  <1> DEFINE best == {e \in Classes : \A d \in Classes : p[d] <= p[e]}
  <1>6. best \in SUBSET Nat /\ best # {} /\ best \subseteq Classes
    <2>1. c \in best
      BY <1>5
    <2> QED BY <1>1, <2>1 DEF Classes
  <1>7. Min(best) \in best
    <2> HIDE DEF best
    <2> QED BY <1>6, MinIsLeast
  <1>8. maxClassId(cell) = Min(best)
    BY DEF maxClassId
  <1> HIDE DEF best
  <1> QED BY <1>6, <1>7, <1>8

(* What process() keeps of a head are candidates. *)
LEMMA ProcessType ==
  ASSUME NEW head \in [zp : Int, scale : Nat \ {0}, cells : Seq(Cells)]
  PROVE  process(head) \in Seq(Candidates)
  <1> DEFINE valid == {i \in DOMAIN head.cells : IsValid(head.cells[i], head)}
             Of(cell) ==
               [box |-> cell.box, class |-> maxClassId(cell),
                prob |-> deqnt_affine_to_f32(cell.probs[maxClassId(cell)], head)
                           * deqnt_affine_to_f32(cell.conf, head)]
             m == Cardinality(valid)
             n == Len(head.cells)
  <1>1. n \in Nat /\ valid \in SUBSET (1 .. n) /\ head.cells \in Seq(Cells)
    OBVIOUS
  <1>2. m \in Nat
    <2>1. IsFiniteSet(1 .. n)
      BY <1>1, FS_Interval
    <2> HIDE DEF n, valid
    <2> QED BY <1>1, <2>1, FS_Subset, FS_CardinalityType
  <1>3. ASSUME NEW k \in 1 .. m PROVE head.cells[Kth(valid, k)] \in Cells
    <2>1. Kth(valid, k) \in valid
      <3> HIDE DEF n, valid
      <3> QED BY <1>1, KthIsKept
    <2> QED BY <2>1
  <1>4. ASSUME NEW cell \in Cells PROVE Of(cell) \in Candidates
    <2>1. maxClassId(cell) \in Classes
      BY MaxClassIsClass
    <2>2. cell.probs[maxClassId(cell)] \in Int /\ cell.conf \in Int /\ cell.box \in Rect
      BY <2>1 DEF Cells
    <2>3. ASSUME NEW q \in Int PROVE deqnt_affine_to_f32(q, head) \in Int
      <3>1. head.zp \in Int /\ head.scale \in Int
        OBVIOUS
      <3>2. q - head.zp \in Int
        BY <3>1
      <3> QED BY <3>1, <3>2 DEF deqnt_affine_to_f32
    <2> DEFINE a == deqnt_affine_to_f32(cell.probs[maxClassId(cell)], head)
               b == deqnt_affine_to_f32(cell.conf, head)
    <2>4. a \in Int /\ b \in Int
      BY <2>2, <2>3
    <2>5. a * b \in Int
      <3> HIDE DEF a, b
      <3> QED BY <2>4
    <2> HIDE DEF a, b
    <2>6. Of(cell) = [box |-> cell.box, class |-> maxClassId(cell), prob |-> a * b]
      BY DEF a, b
    <2> HIDE DEF Of
    <2> QED BY <2>1, <2>2, <2>5, <2>6 DEF Candidates
  <1>5. process(head) = [k \in 1 .. m |-> Of(head.cells[Kth(valid, k)])]
    BY DEF process, Selected
  <1>6. \A k \in 1 .. m : Of(head.cells[Kth(valid, k)]) \in Candidates
    <2> HIDE DEF Of, m, valid
    <2> QED BY <1>3, <1>4
  <1> HIDE DEF Of, m, valid
  <1> QED BY <1>2, <1>5, <1>6

-----------------------------------------------------------------------------
(***************************************************************************)
(* The invariant of one worker's job j.                                     *)
(***************************************************************************)

Results == [src : Nat, class : Classes, prop : Int,
            left : Int, top : Int, right : Int, bottom : Int]

Ranges == [left : Nat, right : Nat, low : Nat, high : Nat, key : Int, index : Nat]

Jobs == [pc : {"enter", "load", "decode", "sort", "nms", "emit", "done", "crashed"},
         heads : Heads, line : Nat, dets : Seq(Candidates), probs : Seq(Int),
         order : Seq(Nat), ranges : Seq(Nat \X Nat), range : Ranges,
         left : SUBSET Nat, group : Seq(Results)]

(* The arrays p and o hold every candidate of d once, with its score: one   *)
(* per position outside hole, the others in hand.                           *)
Holds(d, p, o, hole, hand) ==
    /\ hand \subseteq DOMAIN d
    /\ \A i \in DOMAIN d \ hole : o[i] \in DOMAIN d \ hand /\ p[i] = d[o[i]].prob
    /\ \A i, k \in DOMAIN d \ hole : o[i] = o[k] => i = k
    /\ \A n \in DOMAIN d \ hand : \E i \in DOMAIN d \ hole : o[i] = n

(* Two positions that lie in one of the parts still to be sorted. *)
Together(ranges, i, k) ==
    \E a \in DOMAIN ranges : ranges[a][1] <= i /\ k <= ranges[a][2]

(* The parts still to be sorted, from left to right, after position e. *)
PartsAfter(ranges, e, n) ==
    /\ \A a \in DOMAIN ranges : e < ranges[a][1] /\ ranges[a][2] <= n
    /\ \A a, b \in DOMAIN ranges : a < b => ranges[a][2] < ranges[b][1]

(* At positions S the array descends except within a part. *)
Descends(p, ranges, S) ==
    \A i, k \in S : i < k => p[i] >= p[k] \/ Together(ranges, i, k)

(* Between two calls. *)
BetweenCalls(d, p, o, ranges) ==
    /\ PartsAfter(ranges, 0, Len(d))
    /\ Holds(d, p, o, {}, {})
    /\ Descends(p, ranges, 1 .. Len(d))

(* During a call on the part l .. h with the hole at low: left of it        *)
(* nothing is smaller than the key, right of high nothing is larger, and    *)
(* what is outside the part stays above or below all of it.                 *)
Split(p, l, h, low, high, key, n) ==
    /\ \A i \in 1 .. low - 1 : p[i] >= key
    /\ \A k \in high + 1 .. n : p[k] <= key
    /\ \A i \in 1 .. l - 1 : \A k \in l .. h : p[i] >= p[k]
    /\ \A i \in l .. h : \A k \in h + 1 .. n : p[i] >= p[k]

DuringCall(d, p, o, ranges, r) ==
    /\ 1 <= r.left /\ r.left <= r.low /\ r.low <= r.high /\ r.high <= r.right /\ r.right <= Len(d)
    /\ PartsAfter(ranges, r.right, Len(d))
    /\ Holds(d, p, o, {r.low}, {r.index})
    /\ r.key = d[r.index].prob
    /\ Split(p, r.left, r.right, r.low, r.high, r.key, Len(d))
    /\ Descends(p, ranges, (1 .. Len(d)) \ (r.left .. r.right))

SortInv(j) ==
    LET n == Len(j.dets)
    IN  /\ n > 0 /\ Len(j.probs) = n /\ Len(j.order) = n /\ j.group = <<>>
        /\ IF j.range = NoRange THEN BetweenCalls(j.dets, j.probs, j.order, j.ranges)
           ELSE DuringCall(j.dets, j.probs, j.order, j.ranges, j.range)

(* No candidate at one of the positions overlaps one behind it. *)
Apart(d, o, positions) ==
    \A i \in positions : \A k \in 1 .. Len(d) :
        i < k /\ o[i] # 0 /\ o[k] # 0 => ~Overlap(d[o[i]].box, d[o[k]].box)

(* After the sort: scores descend; a candidate is at one position, or one   *)
(* at least as good overlaps it.                                            *)
Ranked(d, p, o) ==
    LET n == Len(d)
    IN  /\ \A i, k \in 1 .. n : i < k => p[i] >= p[k]
        /\ \A i \in 1 .. n : o[i] # 0 => o[i] \in 1 .. n /\ p[i] = d[o[i]].prob
        /\ \A i, k \in 1 .. n : o[i] # 0 /\ o[i] = o[k] => i = k
        /\ \A m \in 1 .. n :
              \/ \E i \in 1 .. n : o[i] = m
              \/ \E q \in (1 .. n) \ {m} :
                    d[q].prob >= d[m].prob /\ Overlap(d[q].box, d[m].box)

RankedInv(j) ==
    LET n == Len(j.dets)
    IN  /\ n > 0 /\ Len(j.probs) = n /\ Len(j.order) = n /\ j.left \subseteq 1 .. n
        /\ Ranked(j.dets, j.probs, j.order)

NmsInv(j) == /\ RankedInv(j) /\ j.group = <<>>
             /\ Apart(j.dets, j.order, (1 .. Len(j.dets)) \ j.left)

(* While results are written: g are the survivors before all in left. *)
Written(d, p, o, left, g) ==
    /\ \A i \in left : o[i] # 0
    /\ \A i \in 1 .. Len(d) : o[i] # 0 => i \in left \/ \E a \in 1 .. Len(g) : g[a].src = o[i]
    /\ \A a \in 1 .. Len(g) : \E q \in 1 .. Len(d) :
          /\ g[a].src = o[q] /\ o[q] # 0
          /\ g[a].prop = p[q] /\ g[a].class = d[o[q]].class
          /\ \A i \in left : q < i
    /\ \A a, b \in 1 .. Len(g) : a < b => g[a].prop >= g[b].prop /\ g[a].src # g[b].src

EmitInv(j) == /\ RankedInv(j) /\ Apart(j.dets, j.order, 1 .. Len(j.dets))
              /\ Written(j.dets, j.probs, j.order, j.left, j.group)

JobInv(j) ==
    /\ j \in Jobs
    /\ j.pc \in {"enter", "load", "decode"} =>
          j.dets = <<>> /\ j.group = <<>> /\ j.range = NoRange
    /\ j.pc = "sort" => SortInv(j)
    /\ j.pc = "nms" => NmsInv(j)
    /\ j.pc \in {"emit", "crashed"} => EmitInv(j)
    /\ j.pc = "crashed" => j.left # {}
    /\ j.pc = "done" =>
          \/ j.dets = <<>> /\ j.group = <<>>
          \/ EmitInv(j) /\ (j.left = {} \/ Len(j.group) = MaxResults)

JobsInv == job = [w \in Workers |-> job[w]] /\ \A w \in Workers : JobInv(job[w])

(* What a worker may rely on: once the flag is set every label the file has *)
(* is in the table, and nobody decodes before that.                         *)
LabelInv ==
    /\ init \in {-1, 0} /\ lines \in Nat /\ labels \in [Classes -> BOOLEAN]
    /\ init = 0 => \A c \in Classes : c <= lines => labels[c]
    /\ \A w \in Workers :
          /\ job[w].pc \notin {"enter", "load"} => init = 0
          /\ job[w].pc = "enter" => job[w].line = 0
          /\ job[w].pc = "load" => \A c \in Classes : c <= job[w].line => labels[c]

PostInv == JobsInv /\ LabelInv /\ LabelsReadyForAll

-----------------------------------------------------------------------------
(* Arrays *)

(* A typed array stays one when an element is replaced. *)
LEMMA ArrayExcept ==
  ASSUME NEW S, NEW s \in Seq(S), NEW i \in 1 .. Len(s), NEW v \in S
  PROVE  LET t == [s EXCEPT ![i] = v]
         IN  /\ t \in Seq(S) /\ Len(t) = Len(s) /\ t[i] = v
             /\ \A k \in 1 .. Len(s) : k # i => t[k] = s[k]
  OBVIOUS

(* A function on 1 .. n is an array of length n. *)
LEMMA ArrayOf ==
  ASSUME NEW S, NEW n \in Nat, NEW f \in [1 .. n -> S]
  PROVE  f \in Seq(S) /\ Len(f) = n
  OBVIOUS

(* Filling the hole from another position makes that one the hole. *)
LEMMA HoldsMove ==
  ASSUME NEW d \in Seq(Candidates), NEW p \in Seq(Int), NEW o \in Seq(Nat),
         Len(p) = Len(d), Len(o) = Len(d),
         NEW a \in 1 .. Len(d), NEW b \in 1 .. Len(d), NEW hand,
         Holds(d, p, o, {a}, hand)
  PROVE  Holds(d, Moved(p, b, a), Moved(o, b, a), {b}, hand)
  <1> DEFINE p2 == Moved(p, b, a)
             o2 == Moved(o, b, a)
  <1>1. p2[a] = p[b] /\ o2[a] = o[b] /\ p[b] \in Int /\ o[b] \in Nat
    BY DEF Moved
  <1>2. \A k \in 1 .. Len(d) : k # a => p2[k] = p[k] /\ o2[k] = o[k]
    BY DEF Moved
  <1> HIDE DEF p2, o2
  <1>3. DOMAIN d = 1 .. Len(d)
    OBVIOUS
  <1>4. CASE a = b
    <2>1. \A k \in 1 .. Len(d) : p2[k] = p[k] /\ o2[k] = o[k]
      BY <1>1, <1>2, <1>4
    <2>2. Holds(d, p2, o2, {b}, hand)
      BY <1>3, <1>4, <2>1 DEF Holds
    <2> QED BY <2>2 DEF p2, o2
  <1>6. \A i \in DOMAIN d \ {a} : o[i] \in DOMAIN d \ hand /\ p[i] = d[o[i]].prob
    BY DEF Holds
  <1>7. \A i, k \in DOMAIN d \ {a} : o[i] = o[k] => i = k
    BY DEF Holds
  <1>5. CASE a # b
    <2>1. ASSUME NEW i \in DOMAIN d \ {b}
          PROVE  o2[i] \in DOMAIN d \ hand /\ p2[i] = d[o2[i]].prob
      <3>1. CASE i = a
        BY <1>1, <1>3, <1>5, <1>6, <3>1
      <3>2. CASE i # a
        <4>1. i \in DOMAIN d \ {a} /\ o2[i] = o[i] /\ p2[i] = p[i]
          BY <1>2, <1>3, <3>2
        <4> QED BY <1>6, <4>1
      <3> QED BY <3>1, <3>2
    <2>2. ASSUME NEW i \in DOMAIN d \ {b}, NEW k \in DOMAIN d \ {b}, o2[i] = o2[k]
          PROVE  i = k
      <3> DEFINE From(x) == IF x = a THEN b ELSE x
      <3>1. ASSUME NEW x \in DOMAIN d \ {b}
            PROVE  From(x) \in DOMAIN d \ {a} /\ o2[x] = o[From(x)]
        BY <1>1, <1>2, <1>3, <1>5
      <3>2. From(i) = From(k)
        BY <1>7, <2>2, <3>1
      <3> QED BY <3>2
    <2>3. ASSUME NEW n \in DOMAIN d \ hand PROVE \E i \in DOMAIN d \ {b} : o2[i] = n
      <3>1. PICK i \in DOMAIN d \ {a} : o[i] = n
        BY DEF Holds
      <3>2. CASE i = b
        BY <1>1, <1>3, <1>5, <3>1, <3>2
      <3>3. CASE i # b
        BY <1>2, <1>3, <3>1, <3>3
      <3> QED BY <3>2, <3>3
    <2>4. Holds(d, p2, o2, {b}, hand)
      BY <2>1, <2>2, <2>3 DEF Holds
    <2> QED BY <2>4 DEF p2, o2
  <1> QED BY <1>4, <1>5

(* Taking the candidate at a out of the arrays. *)
LEMMA HoldsTake ==
  ASSUME NEW d \in Seq(Candidates), NEW p \in Seq(Int), NEW o \in Seq(Nat),
         NEW a \in 1 .. Len(d), Holds(d, p, o, {}, {})
  PROVE  Holds(d, p, o, {a}, {o[a]}) /\ p[a] = d[o[a]].prob /\ o[a] \in 1 .. Len(d)
  <1>1. DOMAIN d = 1 .. Len(d)
    OBVIOUS
  <1>2. o[a] \in DOMAIN d /\ p[a] = d[o[a]].prob
    BY <1>1 DEF Holds
  <1>3. ASSUME NEW n \in DOMAIN d \ {o[a]} PROVE \E i \in DOMAIN d \ {a} : o[i] = n
    BY <1>1 DEF Holds
  <1>4. ASSUME NEW i \in DOMAIN d \ {a}
        PROVE  o[i] \in DOMAIN d \ {o[a]} /\ p[i] = d[o[i]].prob
    BY <1>1 DEF Holds
  <1> QED BY <1>1, <1>2, <1>3, <1>4 DEF Holds

(* Putting it back into the hole. *)
LEMMA HoldsPut ==
  ASSUME NEW d \in Seq(Candidates), NEW p \in Seq(Int), NEW o \in Seq(Nat),
         Len(p) = Len(d), Len(o) = Len(d),
         NEW a \in 1 .. Len(d), NEW x, Holds(d, p, o, {a}, {x})
  PROVE  Holds(d, [p EXCEPT ![a] = d[x].prob], [o EXCEPT ![a] = x], {}, {})
  <1> DEFINE p2 == [p EXCEPT ![a] = d[x].prob]
             o2 == [o EXCEPT ![a] = x]
  <1>1. DOMAIN d = 1 .. Len(d) /\ x \in DOMAIN d
    BY DEF Holds
  <1>2. p2[a] = d[x].prob /\ o2[a] = x
    OBVIOUS
  <1>3. \A k \in 1 .. Len(d) : k # a => p2[k] = p[k] /\ o2[k] = o[k]
    OBVIOUS
  <1> HIDE DEF p2, o2
  <1>8. \A i \in DOMAIN d \ {a} : o[i] \in DOMAIN d \ {x} /\ p[i] = d[o[i]].prob
    BY DEF Holds
  <1>9. \A i, k \in DOMAIN d \ {a} : o[i] = o[k] => i = k
    BY DEF Holds
  <1>10. ASSUME NEW i \in DOMAIN d, i # a
         PROVE  o2[i] \in DOMAIN d \ {x} /\ p2[i] = d[o2[i]].prob /\ o2[i] = o[i]
    <2>1. i \in DOMAIN d \ {a} /\ o2[i] = o[i] /\ p2[i] = p[i]
      BY <1>1, <1>3, <1>10
    <2> QED BY <1>8, <2>1
  <1>4. ASSUME NEW i \in DOMAIN d PROVE o2[i] \in DOMAIN d /\ p2[i] = d[o2[i]].prob
    BY <1>1, <1>2, <1>10
  <1>5. ASSUME NEW i \in DOMAIN d, NEW k \in DOMAIN d, o2[i] = o2[k] PROVE i = k
    <2>1. CASE i = a \/ k = a
      BY <1>2, <1>5, <1>10, <2>1
    <2>2. CASE i # a /\ k # a
      BY <1>5, <1>9, <1>10, <2>2
    <2> QED BY <2>1, <2>2
  <1>6. ASSUME NEW n \in DOMAIN d PROVE \E i \in DOMAIN d : o2[i] = n
    <2>1. CASE n = x
      BY <1>1, <1>2, <2>1
    <2>2. CASE n # x
      <3>1. PICK i \in DOMAIN d \ {a} : o[i] = n
        BY <2>2 DEF Holds
      <3> QED BY <1>1, <1>3, <3>1
    <2> QED BY <2>1, <2>2
  <1>7. Holds(d, p2, o2, {}, {})
    BY <1>4, <1>5, <1>6 DEF Holds
  <1> QED BY <1>7 DEF p2, o2

-----------------------------------------------------------------------------
(* The parts still to be sorted *)

Parts == Nat \X Nat

(* When the first part to be sorted is taken, the others are behind it; two *)
(* positions of one part are in it or in one of the others.                 *)
LEMMA FirstPart ==
  ASSUME NEW s \in Seq(Parts), s # <<>>, NEW n \in Nat, PartsAfter(s, 0, n)
  PROVE  /\ Head(s) \in Parts /\ 0 < Head(s)[1] /\ Head(s)[2] <= n
         /\ Tail(s) \in Seq(Parts)
         /\ PartsAfter(Tail(s), Head(s)[2], n) /\ PartsAfter(Tail(s), 0, n)
         /\ \A x, y \in Nat : Together(s, x, y) =>
               Together(Tail(s), x, y) \/ (Head(s)[1] <= x /\ y <= Head(s)[2])
  <1> SUFFICES ASSUME NEW m \in Nat, m = Len(s), NEW t \in Seq(Parts), t = Tail(s)
               PROVE  /\ Head(s) \in Parts /\ 0 < Head(s)[1] /\ Head(s)[2] <= n
                      /\ PartsAfter(t, Head(s)[2], n) /\ PartsAfter(t, 0, n)
                      /\ \A x, y \in Nat : Together(s, x, y) =>
                           Together(t, x, y) \/ (Head(s)[1] <= x /\ y <= Head(s)[2])
    <2>1. Len(s) \in Nat /\ Tail(s) \in Seq(Parts)
      OBVIOUS
    <2> QED BY <2>1
  <1>1. /\ m >= 1 /\ Head(s) = s[1] /\ DOMAIN s = 1 .. m
        /\ Len(t) = m - 1 /\ DOMAIN t = 1 .. m - 1
    OBVIOUS
  <1>2. \A a \in 1 .. m : s[a] \in Parts /\ s[a][1] \in Nat /\ s[a][2] \in Nat
    BY <1>1 DEF Parts
  <1>3. \A a \in 1 .. m - 1 : t[a] = s[a + 1] /\ a + 1 \in 1 .. m
    BY <1>1
  <1>4. /\ \A a \in 1 .. m : 0 < s[a][1] /\ s[a][2] <= n
        /\ \A a, b \in 1 .. m : a < b => s[a][2] < s[b][1]
    BY <1>1 DEF PartsAfter
  <1>5. 1 \in 1 .. m
    BY <1>1
  <1>6. PartsAfter(t, s[1][2], n) /\ PartsAfter(t, 0, n)
    <2>1. ASSUME NEW a \in 1 .. m - 1
          PROVE  s[1][2] < t[a][1] /\ 0 < t[a][1] /\ t[a][2] <= n
      <3>1. a + 1 \in 1 .. m /\ 1 < a + 1 /\ t[a] = s[a + 1]
        BY <1>3
      <3> QED BY <1>4, <1>5, <3>1
    <2>2. ASSUME NEW a \in 1 .. m - 1, NEW b \in 1 .. m - 1, a < b
          PROVE  t[a][2] < t[b][1]
      <3>1. a + 1 \in 1 .. m /\ b + 1 \in 1 .. m /\ a + 1 < b + 1
        BY <1>3, <2>2
      <3> QED BY <1>3, <1>4, <3>1
    <2> QED BY <1>1, <2>1, <2>2 DEF PartsAfter
  <1>7. ASSUME NEW x \in Nat, NEW y \in Nat, Together(s, x, y)
        PROVE  Together(t, x, y) \/ (s[1][1] <= x /\ y <= s[1][2])
    <2>1. PICK a \in 1 .. m : s[a][1] <= x /\ y <= s[a][2]
      BY <1>1, <1>7 DEF Together
    <2>2. CASE a = 1
      BY <2>1, <2>2
    <2>3. CASE a # 1
      <3>1. a - 1 \in 1 .. m - 1 /\ (a - 1) + 1 = a
        BY <2>3
      <3>2. t[a - 1] = s[a]
        BY <1>3, <3>1
      <3> QED BY <1>1, <2>1, <3>1, <3>2 DEF Together
    <2> QED BY <2>2, <2>3
  <1> QED BY <1>1, <1>2, <1>4, <1>5, <1>6, <1>7

(* The elements of an array with two others put before it. *)
LEMMA PutTwoFirst ==
  ASSUME NEW S, NEW w \in Seq(S), Len(w) = 2, NEW s \in Seq(S)
  PROVE  /\ w \o s \in Seq(S) /\ Len(w \o s) = Len(s) + 2
         /\ (w \o s)[1] = w[1] /\ (w \o s)[2] = w[2]
         /\ \A a \in 1 .. Len(s) : (w \o s)[a + 2] = s[a]
  <1> DEFINE t == w \o s
  <1>1. /\ t \in Seq(S) /\ Len(t) = Len(w) + Len(s)
        /\ \A i \in 1 .. Len(w) + Len(s) : t[i] = IF i <= Len(w) THEN w[i] ELSE s[i - Len(w)]
    BY ConcatProperties
  <1>2. Len(s) \in Nat
    OBVIOUS
  <1> HIDE DEF t
  <1>3. t[1] = w[1] /\ t[2] = w[2]
    BY <1>1, <1>2
  <1>4. ASSUME NEW a \in 1 .. Len(s) PROVE t[a + 2] = s[a]
    BY <1>1, <1>2
  <1> QED BY <1>1, <1>2, <1>3, <1>4 DEF t

(* The two parts that take the place of one. *)
LEMMA TwoParts ==
  ASSUME NEW s \in Seq(Parts), NEW n \in Nat, NEW l \in Nat, NEW h \in Nat, NEW c \in Nat,
         1 <= l, l <= c, c <= h, h <= n, PartsAfter(s, h, n),
         NEW w \in Seq(Parts), Len(w) = 2,
         w[1][1] = l, w[1][2] = c - 1, w[2][1] = c + 1, w[2][2] = h,
         NEW t, t = w \o s
  PROVE  /\ t \in Seq(Parts) /\ PartsAfter(t, 0, n)
         /\ \A x, y \in Nat : Together(s, x, y) => Together(t, x, y)
         /\ \A x, y \in Nat : l <= x /\ y < c => Together(t, x, y)
         /\ \A x, y \in Nat : c < x /\ y <= h => Together(t, x, y)
  <1> SUFFICES ASSUME NEW m \in Nat, m = Len(s)
               PROVE  /\ t \in Seq(Parts) /\ PartsAfter(t, 0, n)
                      /\ \A x, y \in Nat : Together(s, x, y) => Together(t, x, y)
                      /\ \A x, y \in Nat : l <= x /\ y < c => Together(t, x, y)
                      /\ \A x, y \in Nat : c < x /\ y <= h => Together(t, x, y)
    OBVIOUS
  <1>1. /\ t \in Seq(Parts) /\ Len(t) = m + 2 /\ t[1] = w[1] /\ t[2] = w[2]
        /\ DOMAIN t = 1 .. m + 2 /\ DOMAIN s = 1 .. m
    <2>1. /\ t \in Seq(Parts) /\ Len(t) = m + 2 /\ t[1] = w[1] /\ t[2] = w[2]
      BY PutTwoFirst
    <2> QED BY <2>1
  <1>2. \A a \in 1 .. m : t[a + 2] = s[a] /\ a + 2 \in 1 .. m + 2
    <2>1. \A a \in 1 .. m : t[a + 2] = s[a]
      BY PutTwoFirst
    <2>2. \A a \in 1 .. m : a + 2 \in 1 .. m + 2
      OBVIOUS
    <2> QED BY <2>1, <2>2
  <1>3. \A a \in 1 .. m : s[a][1] \in Nat /\ s[a][2] \in Nat
    BY <1>1 DEF Parts
  <1>4. /\ \A a \in 1 .. m : h < s[a][1] /\ s[a][2] <= n
        /\ \A a, b \in 1 .. m : a < b => s[a][2] < s[b][1]
    BY <1>1 DEF PartsAfter
  <1>5. \A a \in 1 .. m + 2 : a = 1 \/ a = 2 \/ (a - 2 \in 1 .. m /\ t[a] = s[a - 2])
    <2> SUFFICES ASSUME NEW a \in 1 .. m + 2, a # 1, a # 2
                 PROVE  a - 2 \in 1 .. m /\ t[a] = s[a - 2]
      OBVIOUS
    <2>1. a - 2 \in 1 .. m /\ (a - 2) + 2 = a
      OBVIOUS
    <2> QED BY <1>2, <2>1
  <1>6. PartsAfter(t, 0, n)
    <2>1. ASSUME NEW a \in 1 .. m + 2 PROVE 0 < t[a][1] /\ t[a][2] <= n
      BY <1>1, <1>3, <1>4, <1>5
    <2>2. ASSUME NEW a \in 1 .. m + 2, NEW b \in 1 .. m + 2, a < b
          PROVE  t[a][2] < t[b][1]
      <3>1. CASE a \in {1, 2} /\ b \in {1, 2}
        BY <1>1, <2>2, <3>1
      <3>2. CASE a \in {1, 2} /\ b \notin {1, 2}
        <4>1. t[a][2] <= h /\ t[a][2] \in Int
          BY <1>1, <3>2
        <4>2. b - 2 \in 1 .. m /\ t[b] = s[b - 2]
          BY <1>5, <3>2
        <4>3. h < s[b - 2][1] /\ s[b - 2][1] \in Nat
          BY <1>3, <1>4, <4>2
        <4>5. \A x \in Int : \A y \in Nat : x <= h /\ h < y => x < y
          OBVIOUS
        <4>4. t[a][2] < s[b - 2][1]
          BY <4>1, <4>3, <4>5, Zenon
        <4> QED BY <4>2, <4>4
      <3>3. CASE a \notin {1, 2} /\ b \notin {1, 2}
        <4>1. a - 2 \in 1 .. m /\ b - 2 \in 1 .. m /\ a - 2 < b - 2
          BY <1>5, <2>2, <3>3
        <4> QED BY <1>4, <1>5, <3>3, <4>1
      <3>4. CASE a \notin {1, 2} /\ b \in {1, 2}
        BY <2>2, <3>4
      <3> QED BY <3>1, <3>2, <3>3, <3>4
    <2> QED BY <1>1, <2>1, <2>2 DEF PartsAfter
  <1>7. ASSUME NEW x \in Nat, NEW y \in Nat, Together(s, x, y) PROVE Together(t, x, y)
    <2>1. PICK a \in 1 .. m : s[a][1] <= x /\ y <= s[a][2]
      BY <1>1, <1>7 DEF Together
    <2> QED BY <1>1, <1>2, <2>1 DEF Together
  <1>8. 1 \in DOMAIN t /\ 2 \in DOMAIN t
    BY <1>1
  <1>9. ASSUME NEW x \in Nat, NEW y \in Nat, l <= x, y < c PROVE Together(t, x, y)
    <2>1. t[1][1] <= x /\ y <= t[1][2]
      BY <1>1, <1>9
    <2> QED BY <1>8, <2>1 DEF Together
  <1>10. ASSUME NEW x \in Nat, NEW y \in Nat, c < x, y <= h PROVE Together(t, x, y)
    <2>1. t[2][1] <= x /\ y <= t[2][2]
      BY <1>1, <1>10
    <2> QED BY <1>8, <2>1 DEF Together
  <1> QED BY <1>1, <1>6, <1>7, <1>9, <1>10

(* What lies to the left of all parts is together with nothing. *)
LEMMA NotTogether ==
  ASSUME NEW s \in Seq(Parts), NEW n \in Nat, NEW h \in Nat, PartsAfter(s, h, n),
         NEW x \in Nat, NEW y, x <= h
  PROVE  ~Together(s, x, y)
  <1> SUFFICES ASSUME NEW a \in DOMAIN s, s[a][1] <= x PROVE FALSE
    BY DEF Together
  <1>1. s[a][1] \in Nat /\ h < s[a][1]
    BY DEF PartsAfter, Parts
  <1> QED BY <1>1

-----------------------------------------------------------------------------
(* quick_sort_indice_inverse on the arrays *)

(* A part of at most one position is sorted. *)
LEMMA SkipPart ==
  ASSUME NEW d \in Seq(Candidates), NEW p \in Seq(Int), NEW o \in Seq(Nat), Len(p) = Len(d),
         NEW s \in Seq(Parts), s # <<>>, BetweenCalls(d, p, o, s),
         NEW l \in Nat, NEW h \in Nat, l = Head(s)[1], h = Head(s)[2], l >= h
  PROVE  BetweenCalls(d, p, o, Tail(s))
  <1>1. /\ PartsAfter(s, 0, Len(d)) /\ Holds(d, p, o, {}, {}) /\ Descends(p, s, 1 .. Len(d))
        /\ Len(d) \in Nat
    BY DEF BetweenCalls
  <1>2. /\ PartsAfter(Tail(s), 0, Len(d))
        /\ \A x, y \in Nat : Together(s, x, y) => Together(Tail(s), x, y) \/ (l <= x /\ y <= h)
    BY <1>1, FirstPart
  <1>3. ASSUME NEW x \in 1 .. Len(d), NEW y \in 1 .. Len(d), x < y
        PROVE  p[x] >= p[y] \/ Together(Tail(s), x, y)
    <2>1. x \in Nat /\ y \in Nat /\ ~(l <= x /\ y <= h)
      BY <1>1, <1>3
    <2>2. p[x] >= p[y] \/ Together(s, x, y)
      BY <1>1, <1>3 DEF Descends
    <2> QED BY <1>2, <2>1, <2>2
  <1> QED BY <1>1, <1>2, <1>3 DEF BetweenCalls, Descends

(* A position between the ends of a part is one of the array. *)
LEMMA Within ==
  ASSUME NEW n \in Nat, NEW l \in Nat, NEW c \in Nat, NEW h \in Nat,
         1 <= l, l <= c, c <= h, h <= n
  PROVE  c \in 1 .. n
  OBVIOUS

(* An array that descends but for the part l .. h and those behind it. *)
LEMMA StartedSplit ==
  ASSUME NEW n \in Nat, NEW l \in Nat, NEW h \in Nat, 0 < l, l < h, h <= n,
         NEW p, \A x \in 1 .. n : p[x] \in Int,
         NEW s, NEW t, Descends(p, s, 1 .. n),
         \A x, y \in Nat : Together(s, x, y) => Together(t, x, y) \/ (l <= x /\ y <= h),
         \A x, y \in Nat : x <= h => ~Together(t, x, y)
  PROVE  Split(p, l, h, l, h, p[l], n) /\ Descends(p, t, (1 .. n) \ (l .. h))
  <1>1. ASSUME NEW x \in 1 .. n, NEW y \in 1 .. n, x < y, ~(l <= x /\ y <= h)
        PROVE  p[x] >= p[y] \/ Together(t, x, y)
    <2>1. x \in Nat /\ y \in Nat
      OBVIOUS
    <2>2. p[x] >= p[y] \/ Together(s, x, y)
      BY <1>1, Zenon DEF Descends
    <2> QED BY <1>1, <2>1, <2>2, Zenon
  <1>2. ASSUME NEW x \in 1 .. n, NEW y \in 1 .. n, x < y, x <= h, ~(l <= x /\ y <= h)
        PROVE  p[x] >= p[y]
    <2>1. x \in Nat /\ y \in Nat
      OBVIOUS
    <2> QED BY <1>1, <1>2, <2>1, Zenon
  <1>3. ASSUME NEW x \in 1 .. l - 1, NEW y \in l .. h PROVE p[x] >= p[y]
    <2>1. x \in 1 .. n /\ y \in 1 .. n /\ x < y /\ x <= h /\ ~(l <= x)
      OBVIOUS
    <2> QED BY <1>2, <2>1
  <1>4. ASSUME NEW x \in l .. h, NEW y \in h + 1 .. n PROVE p[x] >= p[y]
    <2>1. x \in 1 .. n /\ y \in 1 .. n /\ x < y /\ x <= h /\ ~(y <= h)
      OBVIOUS
    <2> QED BY <1>2, <2>1
  <1>5. Split(p, l, h, l, h, p[l], n)
    <2>1. l \in l .. h /\ l \in 1 .. n
      OBVIOUS
    <2>2. ASSUME NEW y \in h + 1 .. n PROVE p[y] <= p[l]
      <3>1. y \in 1 .. n /\ p[l] >= p[y]
        BY <1>4, <2>1
      <3> QED BY <2>1, <3>1
    <2> QED BY <1>3, <1>4, <2>1, <2>2 DEF Split
  <1>6. Descends(p, t, (1 .. n) \ (l .. h))
    <2> SUFFICES ASSUME NEW x \in (1 .. n) \ (l .. h), NEW y \in (1 .. n) \ (l .. h), x < y
                 PROVE  p[x] >= p[y] \/ Together(t, x, y)
      BY DEF Descends
    <2>1. x \in 1 .. n /\ y \in 1 .. n /\ ~(l <= x /\ y <= h)
      OBVIOUS
    <2> QED BY <1>1, <2>1
  <1> QED BY <1>5, <1>6

(* Of a larger one the first position becomes the hole. *)
LEMMA StartPart ==
  ASSUME NEW d \in Seq(Candidates), NEW p \in Seq(Int), NEW o \in Seq(Nat), Len(p) = Len(d),
         NEW s \in Seq(Parts), s # <<>>, BetweenCalls(d, p, o, s),
         NEW l \in Nat, NEW h \in Nat, l = Head(s)[1], h = Head(s)[2], l < h,
         NEW r, r = [left |-> l, right |-> h, low |-> l, high |-> h, key |-> p[l], index |-> o[l]]
  PROVE  /\ l \in 1 .. Len(d) /\ r \in Ranges /\ r # NoRange
         /\ DuringCall(d, p, o, Tail(s), r)
  <1> DEFINE n == Len(d)
             t == Tail(s)
  <1>0. n \in Nat /\ DOMAIN d = 1 .. n /\ \A x \in 1 .. n : p[x] \in Int
    OBVIOUS
  <1>1. PartsAfter(s, 0, n) /\ Holds(d, p, o, {}, {}) /\ Descends(p, s, 1 .. n)
    BY DEF BetweenCalls
  <1>2. /\ 0 < l /\ h <= n /\ PartsAfter(t, h, n) /\ t \in Seq(Parts)
        /\ \A x, y \in Nat : Together(s, x, y) => Together(t, x, y) \/ (l <= x /\ y <= h)
    BY <1>0, <1>1, FirstPart
  <1>3. 1 <= l /\ l <= l /\ l <= h /\ h <= h /\ h # 0
    <2>1. \A a, b \in Nat : 0 < a /\ a < b => 1 <= a /\ a <= a /\ a <= b /\ b <= b /\ b # 0
      OBVIOUS
    <2> QED BY <1>2, <2>1, Zenon
  <1> HIDE DEF n, t
  <1>4. l \in 1 .. n
    BY <1>0, <1>2, <1>3, Within, Zenon
  <1>5. Holds(d, p, o, {l}, {o[l]}) /\ p[l] = d[o[l]].prob /\ o[l] \in 1 .. n
    <2>1. Holds(d, p, o, {}, {}) /\ l \in 1 .. Len(d)
      BY <1>1, <1>4 DEF n
    <2>2. Holds(d, p, o, {l}, {o[l]}) /\ p[l] = d[o[l]].prob /\ o[l] \in 1 .. Len(d)
      BY <2>1, HoldsTake
    <2> QED BY <2>2 DEF n
  <1>6. /\ r.left = l /\ r.right = h /\ r.low = l /\ r.high = h /\ r.key = p[l] /\ r.index = o[l]
        /\ r \in Ranges /\ r # NoRange
    <2>1. p[l] \in Int /\ n \in Nat
      BY <1>0, <1>4, Zenon
    <2>2. o[l] \in Nat
      BY <1>5, <2>1
    <2> QED BY <1>3, <2>1, <2>2 DEF Ranges, NoRange
  <1>7. ASSUME NEW x \in Nat, NEW y \in Nat, x <= h PROVE ~Together(t, x, y)
    <2>1. n \in Nat /\ PartsAfter(t, h, n) /\ t \in Seq(Parts)
      BY <1>0, <1>2
    <2> QED BY <1>7, <2>1, NotTogether
  <1>8. Split(p, l, h, l, h, p[l], n) /\ Descends(p, t, (1 .. n) \ (l .. h))
    BY <1>0, <1>1, <1>2, <1>7, StartedSplit, Zenon
  <1>9. DuringCall(d, p, o, t, r)
    BY <1>2, <1>3, <1>5, <1>6, <1>8 DEF DuringCall, n
  <1> QED BY <1>4, <1>6, <1>9, Zenon DEF n, t

(* A round: the next larger value from the right, the next smaller one from *)
(* the left.                                                                *)
Round(n, p, l, low, high, h, key, u, q, v) ==
    /\ n \in Nat /\ p \in Seq(Int) /\ Len(p) = n /\ key \in Int
    /\ l \in Nat /\ low \in Nat /\ high \in Nat /\ h \in Nat
    /\ 1 <= l /\ l <= low /\ low < high /\ high <= h /\ h <= n
    /\ u \in Nat /\ low <= u /\ u <= high /\ \A x \in u + 1 .. high : p[x] <= key
    /\ q \in Seq(Int) /\ q = Moved(p, u, low)
    /\ v \in Nat /\ low <= v /\ v <= u /\ \A x \in low .. v - 1 : q[x] >= key

(* postprocess.cc 153-163: after a round what is outside the new low .. high *)
(* is still on its side of the key, and nothing outside the part has moved. *)
LEMMA SplitRound ==
  ASSUME NEW n, NEW p, NEW l, NEW low, NEW high, NEW h, NEW key, NEW u, NEW q, NEW v,
         Round(n, p, l, low, high, h, key, u, q, v), Split(p, l, h, low, high, key, n)
  PROVE  /\ Split(Moved(q, v, u), l, h, v, u, key, n)
         /\ \A x \in (1 .. n) \ (l .. h) : Moved(q, v, u)[x] = p[x]
  <1> SUFFICES ASSUME NEW p1 \in Seq(Int), p1 = p, NEW q1 \in Seq(Int), q1 = q,
                      n \in Nat, Len(p) = n, key \in Int,
                      l \in Nat, low \in Nat, high \in Nat, h \in Nat,
                      1 <= l, l <= low, low < high, high <= h, h <= n,
                      u \in Nat, low <= u, u <= high, \A x \in u + 1 .. high : p[x] <= key,
                      q = Moved(p, u, low),
                      v \in Nat, low <= v, v <= u, \A x \in low .. v - 1 : q[x] >= key
               PROVE  /\ Split(Moved(q, v, u), l, h, v, u, key, n)
                      /\ \A x \in (1 .. n) \ (l .. h) : Moved(q, v, u)[x] = p[x]
    BY Zenon DEF Round
  <1> DEFINE z == Moved(q, v, u)
             y(x) == IF x = u THEN (IF v = low THEN u ELSE v) ELSE IF x = low THEN u ELSE x
  <1>1. low \in 1 .. n /\ u \in 1 .. n /\ v \in 1 .. n /\ Len(q) = n
    BY DEF Moved
  <1>2. q[low] = p[u] /\ \A x \in 1 .. n : x # low => q[x] = p[x]
    BY <1>1 DEF Moved
  <1>3. z[u] = q[v] /\ \A x \in 1 .. n : x # u => z[x] = q[x]
    BY <1>1 DEF Moved
  <1> HIDE DEF z
  <1>4. \A x \in 1 .. n : p[x] \in Int
    OBVIOUS
  <1>5. ASSUME NEW x \in 1 .. n PROVE y(x) \in 1 .. n /\ z[x] = p[y(x)]
    BY <1>1, <1>2, <1>3
  <1>14. low \in l .. h /\ u \in l .. h /\ v \in l .. h
    OBVIOUS
  <1>6. \A x \in 1 .. n : x \in l .. h => y(x) \in l .. h
    BY <1>14
  <1>7. \A x \in 1 .. n : x \notin l .. h => y(x) = x
    BY <1>14, Zenon
  <1>8. ASSUME NEW i \in 1 .. v - 1 PROVE z[i] >= key
    <2>1. i \in 1 .. n /\ i # u /\ z[i] = q[i]
      BY <1>1, <1>3
    <2>2. CASE i >= low
      BY <2>1, <2>2
    <2>3. CASE i < low
      <3>1. i \in 1 .. low - 1 /\ q[i] = p[i]
        BY <1>2, <2>1, <2>3
      <3> QED BY <2>1, <3>1 DEF Split
    <2> QED BY <1>1, <2>2, <2>3
  <1>9. ASSUME NEW k \in u + 1 .. n PROVE z[k] <= key
    <2>1. k \in 1 .. n /\ k # u /\ k # low /\ z[k] = p[k]
      BY <1>1, <1>2, <1>3
    <2>2. CASE k <= high
      BY <2>1, <2>2
    <2>3. CASE k > high
      <3>1. k \in high + 1 .. n
        BY <2>3
      <3> QED BY <2>1, <3>1 DEF Split
    <2> QED BY <2>2, <2>3
  <1> HIDE DEF y
  <1>10. ASSUME NEW i \in 1 .. l - 1, NEW k \in l .. h PROVE z[i] >= z[k]
    <2>1. i \in 1 .. n /\ k \in 1 .. n /\ i \notin l .. h
      BY <1>1
    <2>2. z[i] = p[i] /\ z[k] = p[y(k)] /\ y(k) \in l .. h
      BY <1>5, <1>6, <1>7, <2>1
    <2> QED BY <2>2 DEF Split
  <1>11. ASSUME NEW i \in l .. h, NEW k \in h + 1 .. n PROVE z[i] >= z[k]
    <2>1. i \in 1 .. n /\ k \in 1 .. n /\ k \notin l .. h
      BY <1>1
    <2>2. z[k] = p[k] /\ z[i] = p[y(i)] /\ y(i) \in l .. h
      BY <1>5, <1>6, <1>7, <2>1
    <2> QED BY <2>2 DEF Split
  <1>12. \A x \in (1 .. n) \ (l .. h) : z[x] = p[x]
    BY <1>5, <1>7
  <1>13. Split(z, l, h, v, u, key, n)
    BY <1>8, <1>9, <1>10, <1>11 DEF Split
  <1> QED BY <1>12, <1>13 DEF z

(* Where the two scans of a round stop. *)
Scanned(p, low, high, key) ==
    /\ low \in Nat /\ high \in Nat /\ low <= high /\ key \in Int
    /\ \A x \in low .. high : p[x] \in Int

(* postprocess.cc 154-156: the scan from the right stops where all it has   *)
(* passed is at most the key.                                               *)
LEMMA ScanFromRight ==
  ASSUME NEW p, NEW low, NEW high, NEW key, Scanned(p, low, high, key),
         NEW u, u = Max({low} \union {x \in low + 1 .. high : p[x] > key})
  PROVE  u \in Nat /\ low <= u /\ u <= high /\ \A x \in u + 1 .. high : p[x] <= key
  <1>0. /\ low \in Nat /\ high \in Nat /\ low <= high /\ key \in Int
        /\ \A x \in low .. high : p[x] \in Int
    BY DEF Scanned
  <1> DEFINE S == {low} \union {x \in low + 1 .. high : p[x] > key}
  <1>1. S \in SUBSET Nat /\ S # {} /\ \A x \in S : low <= x /\ x <= high
    BY <1>0
  <1>2. u \in S /\ \A x \in S : u >= x
    <2>1. u = Max(S)
      OBVIOUS
    <2> HIDE DEF S
    <2>2. Max(S) \in S /\ \A y \in S : Max(S) >= y
      BY <1>0, <1>1, MaxIsGreatest
    <2> QED BY <2>1, <2>2
  <1>3. u \in Nat /\ low <= u /\ u <= high
    <2> HIDE DEF S
    <2> QED BY <1>0, <1>1, <1>2
  <1>4. ASSUME NEW x \in u + 1 .. high PROVE p[x] <= key
    <2>1. x \notin S
      <3> SUFFICES ASSUME x \in S PROVE FALSE
        OBVIOUS
      <3>1. u >= x /\ x > u
        BY <1>0, <1>2, <1>3
      <3> HIDE DEF S
      <3> QED BY <1>0, <1>3, <3>1
    <2>2. x \in low + 1 .. high /\ x \in low .. high
      BY <1>0, <1>3
    <2> QED BY <1>0, <2>1, <2>2
  <1> QED BY <1>3, <1>4

(* postprocess.cc 159-161: the scan from the left stops where all it has    *)
(* passed is at least the key.                                              *)
LEMMA ScanFromLeft ==
  ASSUME NEW p, NEW low, NEW u, NEW key, Scanned(p, low, u, key),
         NEW v, v = Min({u} \union {x \in low .. u - 1 : p[x] < key})
  PROVE  v \in Nat /\ low <= v /\ v <= u /\ \A x \in low .. v - 1 : p[x] >= key
  <1>0. /\ low \in Nat /\ u \in Nat /\ low <= u /\ key \in Int
        /\ \A x \in low .. u : p[x] \in Int
    BY DEF Scanned
  <1> DEFINE S == {u} \union {x \in low .. u - 1 : p[x] < key}
  <1>1. S \in SUBSET Nat /\ S # {} /\ \A x \in S : low <= x /\ x <= u
    BY <1>0
  <1>2. v \in S /\ \A x \in S : v <= x
    <2>1. v = Min(S)
      OBVIOUS
    <2> HIDE DEF S
    <2>2. Min(S) \in S /\ \A y \in S : Min(S) <= y
      BY <1>1, MinIsLeast
    <2> QED BY <2>1, <2>2
  <1>3. v \in Nat /\ low <= v /\ v <= u
    <2> HIDE DEF S
    <2> QED BY <1>0, <1>1, <1>2
  <1>4. ASSUME NEW x \in low .. v - 1 PROVE p[x] >= key
    <2>1. x \notin S
      <3> SUFFICES ASSUME x \in S PROVE FALSE
        OBVIOUS
      <3>1. v <= x /\ x < v
        BY <1>0, <1>2, <1>3
      <3> HIDE DEF S
      <3> QED BY <1>0, <1>3, <3>1
    <2>2. x \in low .. u - 1 /\ x \in low .. u
      BY <1>0, <1>3
    <2> QED BY <1>0, <2>1, <2>2
  <1> QED BY <1>3, <1>4

(* A round of the loop, on the arrays. *)
Scans(p, r, u, q, v) ==
    /\ u = Max({r.low} \union {x \in r.low + 1 .. r.high : p[x] > r.key})
    /\ q = Moved(p, u, r.low)
    /\ v = Min({u} \union {x \in r.low .. u - 1 : q[x] < r.key})

(* postprocess.cc 153-163: a round keeps what is known during a call. *)
LEMMA MoveTwo ==
  ASSUME NEW d \in Seq(Candidates), NEW p \in Seq(Int), NEW o \in Seq(Nat),
         Len(p) = Len(d), Len(o) = Len(d),
         NEW s, NEW r \in Ranges, DuringCall(d, p, o, s, r), r.low < r.high,
         NEW u, NEW q, NEW v, Scans(p, r, u, q, v)
  PROVE  LET r2 == [r EXCEPT !.low = v, !.high = u]
             p2 == Moved(q, v, u)
             o2 == Moved(Moved(o, u, r.low), v, u)
         IN  /\ r2 \in Ranges /\ r2 # NoRange
             /\ p2 \in Seq(Int) /\ o2 \in Seq(Nat) /\ Len(p2) = Len(d) /\ Len(o2) = Len(d)
             /\ DuringCall(d, p2, o2, s, r2)
  <1> DEFINE n == Len(d)
             l == r.left
             h == r.right
             low == r.low
             high == r.high
             key == r.key
             o1 == Moved(o, u, low)
             p2 == Moved(q, v, u)
             o2 == Moved(o1, v, u)
             r2 == [r EXCEPT !.low = v, !.high = u]
  <1>1. /\ n \in Nat /\ l \in Nat /\ h \in Nat /\ low \in Nat /\ high \in Nat /\ key \in Int
        /\ low < high
    BY DEF Ranges
  <1>2. \A x \in 1 .. n : p[x] \in Int
    OBVIOUS
  <1>3. /\ 1 <= l /\ l <= low /\ low <= high /\ high <= h /\ h <= n
        /\ PartsAfter(s, h, n) /\ Holds(d, p, o, {low}, {r.index})
        /\ key = d[r.index].prob
        /\ Split(p, l, h, low, high, key, n)
        /\ Descends(p, s, (1 .. n) \ (l .. h))
    BY Zenon DEF DuringCall
  <1> HIDE DEF n, l, h, low, high, key
  <1>4. /\ \A x \in low .. high : x \in 1 .. n
        /\ \A x \in Nat : x <= high => \A y \in low .. x : y \in 1 .. n
        /\ 1 <= low /\ high <= n
    <2>1. n \in Nat /\ 1 <= low /\ low <= high /\ high <= n
      BY <1>1, <1>3
    <2> QED BY <1>1, <2>1
  <1>5. u \in Nat /\ low <= u /\ u <= high /\ \A x \in u + 1 .. high : p[x] <= key
    <2>1. \A x \in low .. high : p[x] \in Int
      BY <1>2, <1>4
    <2>2. Scanned(p, low, high, key)
      BY <1>1, <1>3, <2>1, Zenon DEF Scanned
    <2> QED BY <2>2, ScanFromRight, Zenon DEF Scans, low, high, key
  <1>6. u \in 1 .. n /\ low \in 1 .. n
    <2>1. n \in Nat /\ 1 <= low /\ low <= u /\ u <= high /\ high <= n
      BY <1>1, <1>3, <1>4, <1>5, Zenon
    <2> QED BY <1>1, <1>5, <2>1
  <1>7. q \in Seq(Int) /\ Len(q) = n /\ \A x \in 1 .. n : q[x] \in Int
    <2>1. p \in Seq(Int) /\ Len(p) = n /\ q = [p EXCEPT ![low] = p[u]] /\ p[u] \in Int
      BY <1>2, <1>6 DEF n, low, Moved, Scans
    <2>2. low \in 1 .. Len(p)
      BY <1>6, <2>1
    <2>5. [p EXCEPT ![low] = p[u]] \in Seq(Int) /\ Len([p EXCEPT ![low] = p[u]]) = Len(p)
      BY <2>1, <2>2, ArrayExcept
    <2>3. q \in Seq(Int) /\ Len(q) = n
      BY <2>1, <2>5
    <2>4. ASSUME NEW x \in 1 .. n PROVE q[x] \in Int
      BY <2>3, ElementOfSeq, Zenon
    <2> QED BY <2>3, <2>4
  <1>8. v \in Nat /\ low <= v /\ v <= u /\ \A x \in low .. v - 1 : q[x] >= key
    <2>1. \A x \in low .. u : q[x] \in Int
      BY <1>4, <1>5, <1>7, Zenon
    <2>2. Scanned(q, low, u, key)
      BY <1>1, <1>5, <2>1, Zenon DEF Scanned
    <2>3. v = Min({u} \union {x \in low .. u - 1 : q[x] < key})
      BY DEF Scans, low, key
    <2> QED BY <2>2, <2>3, ScanFromLeft
  <1>9. v \in 1 .. n
    <2>1. n \in Nat /\ 1 <= low /\ low <= v /\ v <= u /\ u <= high /\ high <= n
      BY <1>1, <1>3, <1>4, <1>5, <1>8, Zenon
    <2> QED BY <1>1, <1>5, <1>8, <2>1
  <1>10. p2 \in Seq(Int) /\ Len(p2) = n
    <2>1. q[v] \in Int
      BY <1>7, <1>9
    <2> QED BY <1>6, <1>7, <2>1, ArrayExcept DEF Moved
  <1>11. o1 \in Seq(Nat) /\ Len(o1) = n
    <2>1. o \in Seq(Nat) /\ Len(o) = n /\ o[u] \in Nat
      BY <1>6 DEF n
    <2> QED BY <1>6, <2>1, ArrayExcept DEF Moved
  <1>12. o2 \in Seq(Nat) /\ Len(o2) = n
    <2>1. o1[v] \in Nat
      BY <1>9, <1>11
    <2> HIDE DEF o1
    <2> QED BY <1>6, <1>11, <2>1, ArrayExcept DEF Moved
  <1>13. Holds(d, q, o1, {u}, {r.index})
    <2>1. q = Moved(p, u, low) /\ low \in 1 .. Len(d) /\ u \in 1 .. Len(d)
      BY <1>6 DEF n, low, Scans
    <2> QED BY <1>3, <2>1, HoldsMove
  <1>14. Holds(d, p2, o2, {v}, {r.index})
    <2>1. v \in 1 .. Len(d) /\ u \in 1 .. Len(d) /\ Len(q) = Len(d) /\ Len(o1) = Len(d)
      BY <1>6, <1>7, <1>9, <1>11 DEF n
    <2> HIDE DEF o1
    <2> QED BY <1>7, <1>11, <1>13, <2>1, HoldsMove
  <1>15. /\ Split(p2, l, h, v, u, key, n)
         /\ \A x \in (1 .. n) \ (l .. h) : p2[x] = p[x]
    <2>1. p \in Seq(Int) /\ Len(p) = n /\ q = Moved(p, u, low)
      BY DEF n, low, Scans
    <2>2. Round(n, p, l, low, high, h, key, u, q, v)
      BY <1>1, <1>3, <1>5, <1>7, <1>8, <2>1, Zenon DEF Round
    <2> QED BY <1>3, <2>2, SplitRound
  <1> HIDE DEF o1, p2, o2
  <1>16. Descends(p2, s, (1 .. n) \ (l .. h))
    <2> SUFFICES ASSUME NEW x \in (1 .. n) \ (l .. h), NEW y \in (1 .. n) \ (l .. h), x < y
                 PROVE  p2[x] >= p2[y] \/ Together(s, x, y)
      BY Zenon DEF Descends
    <2>1. p2[x] = p[x] /\ p2[y] = p[y]
      BY <1>15, Zenon
    <2>2. p[x] >= p[y] \/ Together(s, x, y)
      BY <1>3, Zenon DEF Descends
    <2> QED BY <2>1, <2>2, Zenon
  <1>17. /\ r2 \in Ranges /\ r2.left = l /\ r2.right = h /\ r2.low = v /\ r2.high = u
         /\ r2.key = key /\ r2.index = r.index
    BY <1>5, <1>8 DEF Ranges, l, h, key
  <1>18. r2 # NoRange
    <2>1. h # 0
      <3>1. \A a, b, c, e \in Nat : 1 <= a /\ a <= b /\ b <= c /\ c <= e => e # 0
        OBVIOUS
      <3> QED BY <1>1, <1>3, <3>1, Zenon
    <2>2. NoRange.right = 0
      BY DEF NoRange
    <2> HIDE DEF r2
    <2> QED BY <1>17, <2>1, <2>2
  <1> HIDE DEF r2
  <1>19. u <= h
    BY <1>1, <1>3, <1>5
  <1>20. l <= v
    BY <1>1, <1>3, <1>8
  <1>21. DuringCall(d, p2, o2, s, r2)
    BY <1>3, <1>8, <1>14, <1>15, <1>16, <1>17, <1>19, <1>20, Zenon DEF DuringCall, n
  <1> QED BY <1>10, <1>12, <1>17, <1>18, <1>21, Zenon DEF r2, p2, o2, o1, n, low

(* The key in the hole of a part that is split at it. *)
LEMMA PlacedDescends ==
  ASSUME NEW n \in Nat, NEW l \in Nat, NEW h \in Nat, NEW c \in Nat, NEW key \in Int,
         1 <= l, l <= c, c <= h, h <= n,
         NEW p, \A x \in 1 .. n : p[x] \in Int,
         NEW z, z[c] = key, \A x \in 1 .. n : x # c => z[x] = p[x],
         NEW s, NEW t, Split(p, l, h, c, c, key, n), Descends(p, s, (1 .. n) \ (l .. h)),
         \A x, y \in Nat : Together(s, x, y) => Together(t, x, y),
         \A x, y \in Nat : l <= x /\ y < c => Together(t, x, y),
         \A x, y \in Nat : c < x /\ y <= h => Together(t, x, y)
  PROVE  Descends(z, t, 1 .. n)
  <1>1. /\ \A i \in 1 .. c - 1 : p[i] >= key
        /\ \A k \in c + 1 .. n : p[k] <= key
        /\ \A i \in 1 .. l - 1 : \A k \in l .. h : p[i] >= p[k]
        /\ \A i \in l .. h : \A k \in h + 1 .. n : p[i] >= p[k]
    BY DEF Split
  <1> SUFFICES ASSUME NEW x \in 1 .. n, NEW y \in 1 .. n, x < y
               PROVE  z[x] >= z[y] \/ Together(t, x, y)
    BY DEF Descends
  <1>2. x \in Nat /\ y \in Nat /\ c \in 1 .. n
    OBVIOUS
  <1>3. CASE x = c
    <2>1. y \in c + 1 .. n /\ y # c
      BY <1>3
    <2>2. z[x] = key /\ z[y] = p[y] /\ p[y] <= key /\ p[y] \in Int
      BY <1>1, <1>3, <2>1
    <2> QED BY <2>2
  <1>4. CASE y = c
    <2>1. x \in 1 .. c - 1 /\ x # c
      BY <1>4
    <2>2. z[y] = key /\ z[x] = p[x] /\ p[x] >= key
      BY <1>1, <1>4, <2>1
    <2> QED BY <2>2
  <1>5. CASE x # c /\ y # c
    <2>0. z[x] = p[x] /\ z[y] = p[y] /\ p[x] \in Int /\ p[y] \in Int
      BY <1>5
    <2>1. CASE x \in l .. h /\ y \in l .. h
      <3>1. CASE y < c
        <4>1. l <= x
          BY <2>1
        <4> QED BY <1>2, <3>1, <4>1
      <3>2. CASE c < x
        <4>1. y <= h
          BY <2>1
        <4> QED BY <1>2, <3>2, <4>1
      <3>3. CASE x < c /\ c < y
        <4>1. x \in 1 .. c - 1 /\ y \in c + 1 .. n
          BY <3>3
        <4>2. p[x] >= key /\ p[y] <= key
          BY <1>1, <4>1
        <4> QED BY <2>0, <4>2
      <3>4. y < c \/ c < x \/ (x < c /\ c < y)
        BY <1>2, <1>5
      <3> QED BY <3>1, <3>2, <3>3, <3>4
    <2>2. CASE x \in l .. h /\ y \notin l .. h
      <3>1. y \in h + 1 .. n
        BY <1>2, <2>2
      <3> QED BY <1>1, <2>0, <2>2, <3>1
    <2>3. CASE x \notin l .. h /\ y \in l .. h
      <3>1. x \in 1 .. l - 1
        BY <1>2, <2>3
      <3> QED BY <1>1, <2>0, <2>3, <3>1
    <2>4. CASE x \notin l .. h /\ y \notin l .. h
      <3>1. p[x] >= p[y] \/ Together(s, x, y)
        BY <2>4 DEF Descends
      <3> QED BY <1>2, <2>0, <3>1
    <2> QED BY <2>1, <2>2, <2>3, <2>4
  <1> QED BY <1>3, <1>4, <1>5

(* The key is put into the hole; the parts on both sides remain. *)
LEMMA PlaceKey ==
  ASSUME NEW d \in Seq(Candidates), NEW p \in Seq(Int), NEW o \in Seq(Nat),
         Len(p) = Len(d), Len(o) = Len(d),
         NEW s \in Seq(Parts), NEW r \in Ranges, DuringCall(d, p, o, s, r), r.low = r.high,
         NEW w \in Seq(Parts), Len(w) = 2,
         w[1][1] = r.left, w[1][2] = r.low - 1, w[2][1] = r.low + 1, w[2][2] = r.right
  PROVE  /\ r.low \in 1 .. Len(d) /\ w \o s \in Seq(Parts)
         /\ BetweenCalls(d, [p EXCEPT ![r.low] = r.key], [o EXCEPT ![r.low] = r.index], w \o s)
  <1> SUFFICES ASSUME NEW l \in Nat, NEW h \in Nat, NEW c \in Nat,
                      l = r.left, h = r.right, c = r.low
               PROVE  /\ c \in 1 .. Len(d) /\ w \o s \in Seq(Parts)
                      /\ BetweenCalls(d, [p EXCEPT ![c] = r.key], [o EXCEPT ![c] = r.index], w \o s)
    BY DEF Ranges
  <1> DEFINE n == Len(d)
             key == r.key
             t == w \o s
             z == [p EXCEPT ![c] = key]
             z2 == [o EXCEPT ![c] = r.index]
  <1>0. /\ n \in Nat /\ key \in Int /\ \A x \in 1 .. n : p[x] \in Int
    BY DEF Ranges
  <1>1. /\ 1 <= l /\ l <= c /\ c <= h /\ h <= n
        /\ PartsAfter(s, h, n) /\ Holds(d, p, o, {c}, {r.index})
        /\ key = d[r.index].prob /\ Split(p, l, h, c, c, key, n)
        /\ Descends(p, s, (1 .. n) \ (l .. h))
    BY Zenon DEF DuringCall
  <1>2. c \in 1 .. n
    BY <1>0, <1>1, Within, Zenon
  <1>3. z[c] = key /\ \A x \in 1 .. n : x # c => z[x] = p[x]
    <2>1. p \in Seq(Int) /\ c \in 1 .. Len(p) /\ Len(p) = n
      BY <1>2
    <2> QED BY <2>1
  <1>4. Holds(d, z, z2, {}, {})
    <2>1. c \in 1 .. Len(d)
      BY <1>2
    <2>2. Holds(d, [p EXCEPT ![c] = d[r.index].prob], [o EXCEPT ![c] = r.index], {}, {})
      BY <1>1, <2>1, HoldsPut
    <2> QED BY <1>1, <2>2
  <1> HIDE DEF n, key, t, z, z2
  <1>5. /\ t \in Seq(Parts) /\ PartsAfter(t, 0, n)
        /\ \A x, y \in Nat : Together(s, x, y) => Together(t, x, y)
        /\ \A x, y \in Nat : l <= x /\ y < c => Together(t, x, y)
        /\ \A x, y \in Nat : c < x /\ y <= h => Together(t, x, y)
    <2>1. t = w \o s
      BY DEF t
    <2> QED BY <1>0, <1>1, <2>1, TwoParts, Zenon
  <1>6. Descends(z, t, 1 .. n)
    BY <1>0, <1>1, <1>3, <1>5, PlacedDescends, Zenon
  <1>7. BetweenCalls(d, z, z2, t)
    BY <1>4, <1>5, <1>6, Zenon DEF BetweenCalls, n
  <1> QED BY <1>2, <1>5, <1>7, Zenon DEF n, t, z, z2, key
-----------------------------------------------------------------------------
(* The steps of a job *)

(* A step of a worker changes its own job only. *)
LEMMA OwnJobOnly ==
  ASSUME JobsInv, NEW w \in Workers, Step(w)
  PROVE  job' = [v \in Workers |-> IF v = w THEN job'[w] ELSE job[v]]
  <1>1. job = [v \in Workers |-> job[v]]
    BY DEF JobsInv
  <1>2. CASE Enter(w) \/ Loaded(w) \/ Done(w)
    BY <1>1, <1>2 DEF Enter, Loaded, Done, Become
  <1>3. CASE LoadLabel(w) \/ SortCall(w) \/ Sorted(w)
    BY <1>1, <1>3 DEF LoadLabel, SortCall, Sorted
  <1>4. CASE Decode(w)
    BY <1>1, <1>4 DEF Decode
  <1>5. CASE SortRound(w)
    BY <1>1, <1>5 DEF SortRound
  <1>6. CASE SortPlace(w)
    BY <1>1, <1>6 DEF SortPlace
  <1>7. CASE nms(w) \/ NmsDone(w)
    BY <1>1, <1>7 DEF nms, NmsDone
  <1>8. CASE Emit(w)
    BY <1>1, <1>8 DEF Emit
  <1> QED BY <1>2, <1>3, <1>4, <1>5, <1>6, <1>7, <1>8 DEF Step

(* The types of the parts of a job. *)
LEMMA JobFields ==
  ASSUME NEW j \in Jobs
  PROVE  /\ j.heads \in Heads /\ j.line \in Nat /\ j.dets \in Seq(Candidates)
         /\ j.probs \in Seq(Int) /\ j.order \in Seq(Nat) /\ j.ranges \in Seq(Parts)
         /\ j.range \in Ranges /\ j.left \in SUBSET Nat /\ j.group \in Seq(Results)
  BY DEF Jobs, Parts

(* postprocess.cc 144-152: SortCall keeps the invariant of the job. *)
LEMMA SortCallJob ==
  ASSUME NEW j, JobInv(j), j.pc = "sort", j.range = NoRange, j.ranges # <<>>,
         NEW l, NEW h, l = Head(j.ranges)[1], h = Head(j.ranges)[2],
         NEW k, k = [j EXCEPT !.ranges = Tail(@), !.range = IF l >= h THEN NoRange
                       ELSE [left |-> l, right |-> h, low |-> l, high |-> h,
                             key |-> j.probs[l], index |-> j.order[l]]]
  PROVE  JobInv(k)
  <1> DEFINE d == j.dets
             p == j.probs
             o == j.order
             s == j.ranges
             r == [left |-> l, right |-> h, low |-> l, high |-> h, key |-> p[l], index |-> o[l]]
  <1>1. j \in Jobs /\ SortInv(j)
    BY DEF JobInv
  <1>2. /\ d \in Seq(Candidates) /\ p \in Seq(Int) /\ o \in Seq(Nat) /\ s \in Seq(Parts)
    BY <1>1, JobFields
  <1>3. /\ Len(d) > 0 /\ Len(p) = Len(d) /\ Len(o) = Len(d) /\ j.group = <<>>
        /\ BetweenCalls(d, p, o, s)
    BY <1>1 DEF SortInv
  <1>4. /\ l \in Nat /\ h \in Nat /\ Tail(s) \in Seq(Parts)
        /\ s # <<>> /\ l = Head(s)[1] /\ h = Head(s)[2]
    <2>1. Head(s) \in Parts
      BY <1>2
    <2> QED BY <1>2, <2>1 DEF Parts
  <1>5. CASE l >= h
    <2>1. BetweenCalls(d, p, o, Tail(s))
      BY <1>2, <1>3, <1>4, <1>5, SkipPart
    <2>2. /\ k \in Jobs /\ k.pc = "sort" /\ k.dets = d /\ k.probs = p /\ k.order = o
          /\ k.ranges = Tail(s) /\ k.range = NoRange /\ k.group = <<>>
      BY <1>1, <1>3, <1>4, <1>5 DEF Jobs, Ranges, NoRange, Parts
    <2>3. SortInv(k)
      BY <1>3, <2>1, <2>2 DEF SortInv
    <2> QED BY <2>2, <2>3 DEF JobInv
  <1>6. CASE ~(l >= h)
    <2>0. l < h
      BY <1>4, <1>6
    <2>1. r \in Ranges /\ r # NoRange /\ DuringCall(d, p, o, Tail(s), r)
      <3> HIDE DEF d, p, o, s
      <3> QED BY <1>2, <1>3, <1>4, <2>0, StartPart
    <2>2. /\ k.pc = "sort" /\ k.dets = d /\ k.probs = p /\ k.order = o
          /\ k.ranges = Tail(s) /\ k.range = r /\ k.group = <<>>
      BY <1>1, <1>3, <1>6 DEF Jobs
    <2>4. k \in Jobs
      <3> HIDE DEF r
      <3> QED BY <1>1, <1>4, <1>6, <2>1 DEF Jobs, Parts, r
    <2> HIDE DEF r
    <2>3. SortInv(k)
      BY <1>3, <2>1, <2>2 DEF SortInv
    <2> QED BY <2>2, <2>3, <2>4 DEF JobInv
  <1> QED BY <1>5, <1>6

(* postprocess.cc 153-163: SortRound keeps the invariant of the job. *)
LEMMA SortRoundJob ==
  ASSUME NEW j, JobInv(j), j.pc = "sort", j.range.low < j.range.high,
         NEW u, NEW q, NEW v, Scans(j.probs, j.range, u, q, v),
         NEW k, k = [j EXCEPT !.probs = Moved(q, v, u),
                              !.order = Moved(Moved(@, u, j.range.low), v, u),
                              !.range = [j.range EXCEPT !.low = v, !.high = u]]
  PROVE  JobInv(k)
  <1> DEFINE d == j.dets
             p == j.probs
             o == j.order
             s == j.ranges
             r == j.range
             p2 == Moved(q, v, u)
             o2 == Moved(Moved(o, u, r.low), v, u)
             r2 == [r EXCEPT !.low = v, !.high = u]
  <1>1. j \in Jobs /\ SortInv(j)
    BY DEF JobInv
  <1>2. /\ d \in Seq(Candidates) /\ p \in Seq(Int) /\ o \in Seq(Nat) /\ r \in Ranges
    BY <1>1, JobFields
  <1>3. r # NoRange
    BY DEF NoRange
  <1>4. /\ Len(d) > 0 /\ Len(p) = Len(d) /\ Len(o) = Len(d) /\ j.group = <<>>
        /\ DuringCall(d, p, o, s, r)
    BY <1>1, <1>3 DEF SortInv
  <1>5. /\ r2 \in Ranges /\ r2 # NoRange
        /\ p2 \in Seq(Int) /\ o2 \in Seq(Nat) /\ Len(p2) = Len(d) /\ Len(o2) = Len(d)
        /\ DuringCall(d, p2, o2, s, r2)
    BY <1>2, <1>4, MoveTwo
  <1>6. k = [j EXCEPT !.probs = p2, !.order = o2, !.range = r2]
    OBVIOUS
  <1> HIDE DEF p2, o2, r2
  <1>7. /\ k \in Jobs /\ k.pc = "sort" /\ k.dets = d /\ k.probs = p2 /\ k.order = o2
        /\ k.ranges = s /\ k.range = r2 /\ k.group = <<>>
    BY <1>1, <1>4, <1>5, <1>6 DEF Jobs
  <1>8. SortInv(k)
    BY <1>4, <1>5, <1>7 DEF SortInv
  <1> QED BY <1>7, <1>8 DEF JobInv

(* postprocess.cc 164-168: SortPlace keeps the invariant of the job. *)
LEMMA SortPlaceJob ==
  ASSUME NEW j, JobInv(j), j.pc = "sort", j.range # NoRange, j.range.low = j.range.high,
         NEW r, r = j.range,
         NEW k, k = [j EXCEPT !.probs = [@ EXCEPT ![r.low] = r.key],
                              !.order = [@ EXCEPT ![r.low] = r.index],
                              !.range = NoRange,
                              !.ranges = <<<<r.left, r.low - 1>>, <<r.low + 1, r.right>>>> \o @]
  PROVE  JobInv(k)
  <1> DEFINE d == j.dets
             p == j.probs
             o == j.order
             s == j.ranges
             w == <<<<r.left, r.low - 1>>, <<r.low + 1, r.right>>>>
             p2 == [p EXCEPT ![r.low] = r.key]
             o2 == [o EXCEPT ![r.low] = r.index]
  <1>1. j \in Jobs /\ SortInv(j)
    BY DEF JobInv
  <1>2. /\ d \in Seq(Candidates) /\ p \in Seq(Int) /\ o \in Seq(Nat) /\ r \in Ranges
        /\ s \in Seq(Parts)
    BY <1>1, JobFields
  <1>3. /\ Len(d) > 0 /\ Len(p) = Len(d) /\ Len(o) = Len(d) /\ j.group = <<>>
        /\ DuringCall(d, p, o, s, r)
    BY <1>1 DEF SortInv
  <1>4. r.left \in Nat /\ r.right \in Nat /\ r.low \in Nat /\ r.key \in Int /\ r.index \in Nat
    BY <1>2 DEF Ranges
  <1>5. r.low > 0
    <2>1. 1 <= r.left /\ r.left <= r.low
      BY <1>3, Zenon DEF DuringCall
    <2> QED BY <1>4, <2>1
  <1>6. /\ w \in Seq(Parts) /\ Len(w) = 2
        /\ w[1][1] = r.left /\ w[1][2] = r.low - 1 /\ w[2][1] = r.low + 1 /\ w[2][2] = r.right
    <2>1. <<r.left, r.low - 1>> \in Parts /\ <<r.low + 1, r.right>> \in Parts
      BY <1>4, <1>5 DEF Parts
    <2> QED BY <2>1
  <1> HIDE DEF w
  <1>7. /\ r.low \in 1 .. Len(d) /\ w \o s \in Seq(Parts) /\ BetweenCalls(d, p2, o2, w \o s)
    BY <1>2, <1>3, <1>4, <1>6, PlaceKey
  <1>8. p2 \in Seq(Int) /\ Len(p2) = Len(d) /\ o2 \in Seq(Nat) /\ Len(o2) = Len(d)
    BY <1>2, <1>3, <1>4, <1>7, ArrayExcept
  <1>9. k = [j EXCEPT !.probs = p2, !.order = o2, !.range = NoRange, !.ranges = w \o s]
    BY DEF w
  <1> HIDE DEF p2, o2
  <1>10. NoRange \in Ranges
    BY DEF NoRange, Ranges
  <1>11. /\ k \in Jobs /\ k.pc = "sort" /\ k.dets = d /\ k.probs = p2 /\ k.order = o2
         /\ k.ranges = w \o s /\ k.range = NoRange /\ k.group = <<>>
    <2> DEFINE t == w \o s
    <2>1. t \in Seq(Parts) /\ k = [j EXCEPT !.probs = p2, !.order = o2, !.range = NoRange, !.ranges = t]
      BY <1>7, <1>9
    <2> HIDE DEF t
    <2>2. /\ k \in Jobs /\ k.pc = "sort" /\ k.dets = d /\ k.probs = p2 /\ k.order = o2
          /\ k.ranges = t /\ k.range = NoRange /\ k.group = <<>>
      BY <1>1, <1>3, <1>8, <1>10, <2>1 DEF Jobs, Parts
    <2> QED BY <2>2 DEF t
  <1>12. SortInv(k)
    BY <1>3, <1>7, <1>8, <1>11 DEF SortInv
  <1> QED BY <1>11, <1>12 DEF JobInv

(* The end of the sort: no part is left, so the whole array descends. *)
LEMMA SortedJob ==
  ASSUME NEW j, JobInv(j), j.pc = "sort", j.range = NoRange, j.ranges = <<>>,
         NEW k, k = [j EXCEPT !.pc = "nms", !.left = DOMAIN j.dets]
  PROVE  JobInv(k)
  <1> DEFINE d == j.dets
             p == j.probs
             o == j.order
             n == Len(d)
  <1>1. j \in Jobs /\ SortInv(j)
    BY DEF JobInv
  <1>2. /\ d \in Seq(Candidates) /\ p \in Seq(Int) /\ o \in Seq(Nat)
    BY <1>1, JobFields
  <1>3. /\ n > 0 /\ Len(p) = n /\ Len(o) = n /\ j.group = <<>>
        /\ Holds(d, p, o, {}, {}) /\ Descends(p, <<>>, 1 .. n)
    BY <1>1 DEF SortInv, BetweenCalls
  <1>4. DOMAIN d = 1 .. n /\ n \in Nat
    BY <1>2
  <1>5. /\ k \in Jobs /\ k.pc = "nms" /\ k.dets = d /\ k.probs = p /\ k.order = o
        /\ k.left = 1 .. n /\ k.group = <<>>
    <2>1. 1 .. n \in SUBSET Nat
      BY <1>4
    <2> QED BY <1>1, <1>3, <1>4, <2>1 DEF Jobs
  <1>6. \A x, y \in 1 .. n : x < y => p[x] >= p[y]
    BY <1>3 DEF Descends, Together
  <1>7. /\ \A i \in 1 .. n : o[i] \in 1 .. n /\ p[i] = d[o[i]].prob
        /\ \A x, y \in 1 .. n : o[x] = o[y] => x = y
        /\ \A m \in 1 .. n : \E i \in 1 .. n : o[i] = m
    BY <1>3, <1>4 DEF Holds
  <1>8. RankedInv(k)
    <2>1. Ranked(d, p, o)
      BY <1>6, <1>7, Zenon DEF Ranked
    <2> QED BY <1>3, <1>5, <2>1 DEF RankedInv
  <1>9. Apart(k.dets, k.order, (1 .. Len(k.dets)) \ k.left)
    BY <1>5 DEF Apart
  <1> QED BY <1>5, <1>8, <1>9 DEF JobInv, NmsInv

-----------------------------------------------------------------------------
(* Suppression *)

(* While positions are left, the least class has a first one. *)
LEMMA NextPositionIsLeft ==
  ASSUME NEW w \in Workers, JobInv(job[w]), job[w].pc = "nms", job[w].left # {}
  PROVE  NextPosition(w) \in job[w].left
  <1> DEFINE d == job[w].dets
             left == job[w].left
  <1>1. d \in Seq(Candidates) /\ left \in SUBSET (1 .. Len(d))
    <2>1. job[w] \in Jobs /\ RankedInv(job[w])
      BY DEF JobInv, NmsInv
    <2> QED BY <2>1, JobFields DEF RankedInv
  <1>2. ASSUME NEW i \in left PROVE d[i].class \in Nat /\ i \in Nat
    <2>1. d[i] \in Candidates /\ i \in Nat
      BY <1>1
    <2>2. d[i].class \in Classes
      BY <2>1 DEF Candidates
    <2> QED BY <2>1, <2>2, PostProcessAssumption DEF Classes
  <1> DEFINE classes == {d[i].class : i \in left}
  <1>3. PICK c \in classes : \A y \in classes : c <= y
    <2>1. classes \in SUBSET Nat /\ classes # {}
      BY <1>2
    <2> HIDE DEF classes
    <2> QED BY <2>1, LeastExists
  <1> DEFINE first == {i \in left : d[i].class = c}
  <1>4. PICK i \in first : \A y \in first : i <= y
    <2>1. first \in SUBSET Nat /\ first # {}
      BY <1>2
    <2> HIDE DEF first
    <2> QED BY <2>1, LeastExists
  <1>5. ASSUME NEW k \in left
        PROVE  d[i].class < d[k].class \/ (d[i].class = d[k].class /\ i <= k)
    <2>1. c \in Nat /\ d[k].class \in Nat /\ c <= d[k].class /\ d[i].class = c
      BY <1>2, <1>3
    <2>2. CASE d[k].class = c
      BY <1>4, <2>1, <2>2
    <2>3. CASE d[k].class # c
      BY <2>1, <2>3
    <2> QED BY <2>2, <2>3
  <1>6. i \in left
    OBVIOUS
  <1> HIDE DEF first, classes, d
  <1>7. \E x \in left : \A k \in left :
           d[x].class < d[k].class \/ (d[x].class = d[k].class /\ x <= k)
    BY <1>5, <1>6, Zenon
  <1> QED BY <1>7, Zenon DEF NextPosition, d

(* What suppression by position i does to the index array. *)
After(d, o, i, o2) ==
    \A x \in 1 .. Len(d) :
       o2[x] = IF o[i] # 0 /\ x > i /\ o[x] # 0 /\ Overlap(d[o[i]].box, d[o[x]].box)
               THEN 0 ELSE o[x]

(* postprocess.cc 118-138: a pass over one position keeps the ranking; what *)
(* it takes out is overlapped by a better one.                              *)
LEMMA SuppressedRanked ==
  ASSUME NEW d \in Seq(Candidates), NEW p, \A x \in 1 .. Len(d) : p[x] \in Int,
         NEW o, NEW o2, Ranked(d, p, o), NEW i \in 1 .. Len(d), After(d, o, i, o2)
  PROVE  Ranked(d, p, o2)
  <1> DEFINE n == Len(d)
  <1>0. n \in Nat
    OBVIOUS
  <1>1. \A x \in 1 .. n :
           o2[x] = IF o[i] # 0 /\ x > i /\ o[x] # 0 /\ Overlap(d[o[i]].box, d[o[x]].box)
                   THEN 0 ELSE o[x]
    BY Zenon DEF After
  <1>2. /\ \A x, y \in 1 .. n : x < y => p[x] >= p[y]
        /\ \A x \in 1 .. n : o[x] # 0 => o[x] \in 1 .. n /\ p[x] = d[o[x]].prob
        /\ \A x, y \in 1 .. n : o[x] # 0 /\ o[x] = o[y] => x = y
        /\ \A m \in 1 .. n :
              \/ \E x \in 1 .. n : o[x] = m
              \/ \E q \in (1 .. n) \ {m} :
                    d[q].prob >= d[m].prob /\ Overlap(d[q].box, d[m].box)
    BY Zenon DEF Ranked
  <1> HIDE DEF n
  <1>3. ASSUME NEW x \in 1 .. n, o2[x] # 0 PROVE o2[x] = o[x]
    BY <1>1, <1>3, Zenon
  <1>4. ASSUME NEW x \in 1 .. n, o2[x] # 0 PROVE o2[x] \in 1 .. n /\ p[x] = d[o2[x]].prob
    BY <1>2, <1>3, <1>4, Zenon
  <1>5. ASSUME NEW x \in 1 .. n, NEW y \in 1 .. n, o2[x] # 0, o2[x] = o2[y] PROVE x = y
    BY <1>2, <1>3, <1>5, Zenon
  <1>6. ASSUME NEW m \in 1 .. n, NEW x \in 1 .. n, o[x] = m
        PROVE  \/ \E y \in 1 .. n : o2[y] = m
               \/ \E q \in (1 .. n) \ {m} :
                     d[q].prob >= d[m].prob /\ Overlap(d[q].box, d[m].box)
    <2>1. CASE o2[x] = o[x]
      BY <1>6, <2>1, Zenon
    <2>2. CASE o2[x] # o[x]
      <3>1. o[i] # 0 /\ x > i /\ o[x] # 0 /\ Overlap(d[o[i]].box, d[o[x]].box)
        BY <1>1, <2>2, Zenon
      <3>2. i \in 1 .. n
        BY DEF n
      <3>3. i < x /\ i # x
        BY <1>0, <3>1, <3>2
      <3>4. p[i] >= p[x] /\ p[i] = d[o[i]].prob /\ p[x] = d[m].prob /\ o[i] \in 1 .. n
        BY <1>2, <1>6, <3>1, <3>2, <3>3, Zenon
      <3>5. o[i] # m
        BY <1>2, <1>6, <3>1, <3>2, <3>3, Zenon
      <3> QED BY <1>6, <3>1, <3>4, <3>5, Zenon
    <2> QED BY <2>1, <2>2
  <1>7. \A m \in 1 .. n :
           \/ \E x \in 1 .. n : o2[x] = m
           \/ \E q \in (1 .. n) \ {m} :
                 d[q].prob >= d[m].prob /\ Overlap(d[q].box, d[m].box)
    BY <1>2, <1>6, Zenon
  <1> QED BY <1>2, <1>4, <1>5, <1>7, Zenon DEF Ranked, n

(* postprocess.cc 118-138: after the pass over position i nothing behind it *)
(* overlaps it; what was apart stays apart.                                 *)
LEMMA SuppressedApart ==
  ASSUME NEW d \in Seq(Candidates), NEW o, NEW o2, NEW S \in SUBSET (1 .. Len(d)),
         Apart(d, o, S), NEW i \in 1 .. Len(d), After(d, o, i, o2)
  PROVE  Apart(d, o2, S \union {i})
  <1> DEFINE n == Len(d)
  <1>0. n \in Nat
    OBVIOUS
  <1>1. \A x \in 1 .. n :
           o2[x] = IF o[i] # 0 /\ x > i /\ o[x] # 0 /\ Overlap(d[o[i]].box, d[o[x]].box)
                   THEN 0 ELSE o[x]
    BY Zenon DEF After
  <1>2. \A x \in S : \A y \in 1 .. n :
           x < y /\ o[x] # 0 /\ o[y] # 0 => ~Overlap(d[o[x]].box, d[o[y]].box)
    BY Zenon DEF Apart
  <1>3. i \in 1 .. n /\ \A x \in S : x \in 1 .. n
    OBVIOUS
  <1> HIDE DEF n
  <1>4. ASSUME NEW x \in 1 .. n, o2[x] # 0 PROVE o2[x] = o[x]
    BY <1>1, <1>4, Zenon
  <1>5. ASSUME NEW x \in S, NEW y \in 1 .. n, x < y, o2[x] # 0, o2[y] # 0
        PROVE  ~Overlap(d[o2[x]].box, d[o2[y]].box)
    <2>1. o2[x] = o[x] /\ o2[y] = o[y]
      BY <1>3, <1>4, <1>5, Zenon
    <2> QED BY <1>2, <1>5, <2>1, Zenon
  <1>6. ASSUME NEW y \in 1 .. n, i < y, o2[i] # 0, o2[y] # 0
        PROVE  ~Overlap(d[o2[i]].box, d[o2[y]].box)
    <2>1. o2[i] = o[i] /\ o2[y] = o[y]
      BY <1>3, <1>4, <1>6, Zenon
    <2>2. y > i
      BY <1>0, <1>3, <1>6
    <2> QED BY <1>1, <1>6, <2>1, <2>2, Zenon
  <1>7. \A x \in S \union {i} : \A y \in 1 .. n :
           x < y /\ o2[x] # 0 /\ o2[y] # 0 => ~Overlap(d[o2[x]].box, d[o2[y]].box)
    BY <1>5, <1>6, Zenon
  <1> QED BY <1>7, Zenon DEF Apart, n

(* postprocess.cc 111-142: a pass of nms keeps the invariant of the job. *)
LEMMA NmsJob ==
  ASSUME NEW w \in Workers, JobInv(job[w]), job[w].pc = "nms", job[w].left # {},
         NEW i, i = NextPosition(w),
         NEW k, k = [job[w] EXCEPT !.order = Suppressed(w, i), !.left = @ \ {i}]
  PROVE  JobInv(k)
  <1> DEFINE j == job[w]
             d == j.dets
             p == j.probs
             o == j.order
             n == Len(d)
             o2 == Suppressed(w, i)
  <1>1. j \in Jobs /\ RankedInv(j) /\ j.group = <<>> /\ Apart(d, o, (1 .. n) \ j.left)
    BY DEF JobInv, NmsInv
  <1>2. d \in Seq(Candidates) /\ p \in Seq(Int) /\ o \in Seq(Nat) /\ n \in Nat
    BY <1>1, JobFields
  <1>3. n > 0 /\ Len(p) = n /\ Len(o) = n /\ j.left \subseteq 1 .. n /\ Ranked(d, p, o)
    BY <1>1 DEF RankedInv
  <1>4. i \in j.left /\ i \in 1 .. n
    BY <1>3, NextPositionIsLeft
  <1>5. o2 = [x \in 1 .. n |->
                IF o[i] # 0 /\ x > i /\ o[x] # 0 /\ Overlap(d[o[i]].box, d[o[x]].box)
                THEN 0 ELSE o[x]]
    <2>1. DOMAIN o = 1 .. n
      BY <1>2, <1>3
    <2> QED BY <2>1, Zenon DEF Suppressed
  <1> HIDE DEF o2
  <1>6. o2 \in Seq(Nat) /\ Len(o2) = n
    <2>1. \A x \in 1 .. n : o[x] \in Nat
      BY <1>2, <1>3
    <2>2. o2 \in [1 .. n -> Nat]
      BY <1>5, <2>1
    <2> QED BY <1>2, <2>2, ArrayOf
  <1>7. After(d, o, i, o2)
    BY <1>5 DEF After
  <1>8. Ranked(d, p, o2)
    <2>1. \A x \in 1 .. Len(d) : p[x] \in Int
      BY <1>2, <1>3
    <2> QED BY <1>2, <1>3, <1>4, <1>7, <2>1, SuppressedRanked
  <1>9. Apart(d, o2, (1 .. n) \ (j.left \ {i}))
    <2>1. Apart(d, o2, ((1 .. n) \ j.left) \union {i})
      BY <1>1, <1>2, <1>4, <1>7, SuppressedApart
    <2>2. ((1 .. n) \ j.left) \union {i} = (1 .. n) \ (j.left \ {i})
      BY <1>4
    <2> QED BY <2>1, <2>2
  <1>10. /\ k \in Jobs /\ k.pc = "nms" /\ k.dets = d /\ k.probs = p /\ k.order = o2
         /\ k.left = j.left \ {i} /\ k.group = <<>>
    <2> DEFINE left == j.left \ {i}
    <2>1. k = [j EXCEPT !.order = o2, !.left = left]
      BY DEF o2
    <2>2. left \in SUBSET Nat /\ o2 \in Seq(Nat)
      BY <1>1, <1>6, JobFields
    <2> HIDE DEF left
    <2>3. /\ k \in Jobs /\ k.pc = "nms" /\ k.dets = d /\ k.probs = p /\ k.order = o2
          /\ k.left = left /\ k.group = <<>>
      BY <1>1, <2>1, <2>2 DEF Jobs
    <2> QED BY <2>3 DEF left
  <1>11. NmsInv(k)
    BY <1>3, <1>6, <1>8, <1>9, <1>10 DEF NmsInv, RankedInv
  <1> QED BY <1>10, <1>11 DEF JobInv

(* The last pass leaves no two survivors that overlap. *)
LEMMA NmsDoneJob ==
  ASSUME NEW j, JobInv(j), j.pc = "nms", j.left = {},
         NEW k, k = [j EXCEPT !.pc = "emit", !.left = {i \in DOMAIN j.order : j.order[i] # 0}]
  PROVE  JobInv(k)
  <1> DEFINE d == j.dets
             p == j.probs
             o == j.order
             n == Len(d)
             left == {i \in DOMAIN o : o[i] # 0}
  <1>1. j \in Jobs /\ RankedInv(j) /\ j.group = <<>> /\ Apart(d, o, (1 .. n) \ j.left)
    BY DEF JobInv, NmsInv
  <1>2. d \in Seq(Candidates) /\ p \in Seq(Int) /\ o \in Seq(Nat) /\ n \in Nat
    BY <1>1, JobFields
  <1>3. n > 0 /\ Len(p) = n /\ Len(o) = n /\ Ranked(d, p, o)
    BY <1>1 DEF RankedInv
  <1>4. left = {i \in 1 .. n : o[i] # 0} /\ left \in SUBSET Nat /\ left \subseteq 1 .. n
    <2>1. DOMAIN o = 1 .. n
      BY <1>2, <1>3
    <2> QED BY <2>1
  <1>5. k = [j EXCEPT !.pc = "emit", !.left = left]
    OBVIOUS
  <1> HIDE DEF left
  <1>6. /\ k \in Jobs /\ k.pc = "emit" /\ k.dets = d /\ k.probs = p /\ k.order = o
        /\ k.left = left /\ k.group = <<>>
    BY <1>1, <1>4, <1>5 DEF Jobs
  <1>7. Apart(d, o, 1 .. n)
    <2>1. (1 .. n) \ j.left = 1 .. n
      OBVIOUS
    <2> QED BY <1>1, <2>1
  <1>8. Written(d, p, o, left, <<>>)
    BY <1>4 DEF Written
  <1>9. EmitInv(k)
    BY <1>3, <1>4, <1>6, <1>7, <1>8 DEF EmitInv, RankedInv
  <1> QED BY <1>6, <1>9 DEF JobInv

-----------------------------------------------------------------------------
(* Results *)

(* A coordinate of a result is an integer. *)
LEMMA CoordinateType ==
  ASSUME NEW v \in Int
  PROVE  Coordinate(v) \in Int
  <1> DEFINE c == IF v > 0 THEN (IF v < ModelSize THEN v ELSE ModelSize) ELSE 0
             m == c * Scale[2]
  <1>1. ModelSize \in Nat /\ Scale[1] \in Nat \ {0} /\ Scale[2] \in Nat
    BY PostProcessAssumption
  <1>2. c \in Nat
    BY <1>1
  <1> HIDE DEF c
  <1>3. m \in Nat
    BY <1>1, <1>2
  <1> HIDE DEF m
  <1>4. m \div Scale[1] \in Int
    BY <1>1, <1>3
  <1> QED BY <1>4 DEF Coordinate, m, c

(* The result of the first position left goes behind the others. *)
LEMMA WriteOne ==
  ASSUME NEW d, NEW p, NEW o, NEW left \in SUBSET (1 .. Len(d)), Len(d) \in Nat,
         NEW g \in Seq(Results), Ranked(d, p, o), Written(d, p, o, left, g),
         NEW i \in left, \A x \in left : i <= x,
         NEW r \in Results, r.src = o[i], r.prop = p[i], r.class = d[o[i]].class
  PROVE  Written(d, p, o, left \ {i}, Append(g, r))
  <1> DEFINE n == Len(d)
             m == Len(g)
             h == Append(g, r)
             rest == left \ {i}
  <1>1. /\ m \in Nat /\ Len(h) = m + 1 /\ h[m + 1] = r /\ \A a \in 1 .. m : h[a] = g[a]
        /\ \A a \in 1 .. m + 1 : a \in 1 .. m \/ a = m + 1
        /\ \A a \in 1 .. m : a \in 1 .. m + 1
        /\ m + 1 \in 1 .. m + 1
    OBVIOUS
  <1>2. /\ \A x \in left : o[x] # 0
        /\ \A x \in 1 .. n : o[x] # 0 => x \in left \/ \E a \in 1 .. m : g[a].src = o[x]
        /\ \A a \in 1 .. m : \E q \in 1 .. n :
              /\ g[a].src = o[q] /\ o[q] # 0
              /\ g[a].prop = p[q] /\ g[a].class = d[o[q]].class
              /\ \A x \in left : q < x
        /\ \A a, b \in 1 .. m : a < b => g[a].prop >= g[b].prop /\ g[a].src # g[b].src
    BY Zenon DEF Written
  <1>3. /\ \A x, y \in 1 .. n : x < y => p[x] >= p[y]
        /\ \A x, y \in 1 .. n : o[x] # 0 /\ o[x] = o[y] => x = y
    BY Zenon DEF Ranked
  <1>4. i \in 1 .. n /\ \A x \in rest : x \in 1 .. n /\ x \in left /\ i < x
    OBVIOUS
  <1>5. \A x \in 1 .. n : ~(x < x)
    OBVIOUS
  <1>6. \A a \in 1 .. m : ~(m + 1 < a)
    BY <1>1
  <1>7. ~(m + 1 < m + 1)
    BY <1>1
  <1> HIDE DEF n, m, h, rest
  <1>8. \A x \in rest : o[x] # 0
    BY <1>2, <1>4, Zenon
  <1>9. ASSUME NEW x \in 1 .. n, o[x] # 0 PROVE x \in rest \/ \E a \in 1 .. m + 1 : h[a].src = o[x]
    <2>1. CASE x = i
      BY <1>1, <2>1, Zenon
    <2>2. CASE x # i /\ x \in left
      BY <2>2 DEF rest
    <2>3. CASE x \notin left
      <3>1. PICK a \in 1 .. m : g[a].src = o[x]
        BY <1>2, <1>9, <2>3, Zenon
      <3> QED BY <1>1, <3>1, Zenon
    <2> QED BY <2>1, <2>2, <2>3
  <1>10. ASSUME NEW a \in 1 .. m + 1
         PROVE  \E q \in 1 .. n :
                  /\ h[a].src = o[q] /\ o[q] # 0
                  /\ h[a].prop = p[q] /\ h[a].class = d[o[q]].class
                  /\ \A x \in rest : q < x
    <2>1. CASE a \in 1 .. m
      <3>1. PICK q \in 1 .. n : /\ g[a].src = o[q] /\ o[q] # 0
                                /\ g[a].prop = p[q] /\ g[a].class = d[o[q]].class
                                /\ \A x \in left : q < x
        BY <1>2, <2>1, Zenon
      <3>2. h[a] = g[a] /\ \A x \in rest : q < x
        BY <1>1, <1>4, <2>1, <3>1, Zenon
      <3> QED BY <3>1, <3>2, Zenon
    <2>2. CASE a = m + 1
      <3>1. h[a] = r /\ o[i] # 0
        BY <1>1, <1>2, <2>2, Zenon
      <3> QED BY <1>4, <3>1, Zenon
    <2> QED BY <1>1, <2>1, <2>2, Zenon
  <1>11. ASSUME NEW a \in 1 .. m + 1, NEW b \in 1 .. m + 1, a < b
         PROVE  h[a].prop >= h[b].prop /\ h[a].src # h[b].src
    <2>1. CASE a \in 1 .. m /\ b \in 1 .. m
      <3>1. h[a] = g[a] /\ h[b] = g[b]
        BY <1>1, <2>1, Zenon
      <3>2. \A x, y \in 1 .. m : x < y => g[x].prop >= g[y].prop /\ g[x].src # g[y].src
        BY <1>2, Zenon
      <3>3. g[a].prop >= g[b].prop /\ g[a].src # g[b].src
        BY <1>11, <2>1, <3>2, Zenon
      <3> QED BY <3>1, <3>3, Zenon
    <2>2. CASE a \in 1 .. m /\ b = m + 1
      <3>1. PICK q \in 1 .. n :
               g[a].src = o[q] /\ o[q] # 0 /\ g[a].prop = p[q] /\ \A x \in left : q < x
        BY <1>2, <2>2, Zenon
      <3>2. q < i
        BY <3>1, Zenon
      <3>3. p[q] >= p[i] /\ o[q] # o[i]
        BY <1>3, <1>4, <1>5, <3>1, <3>2, Zenon
      <3> QED BY <1>1, <2>2, <3>1, <3>3, Zenon
    <2>3. CASE a = m + 1
      BY <1>1, <1>6, <1>7, <1>11, <2>3, Zenon
    <2> QED BY <1>1, <2>1, <2>2, <2>3, Zenon
  <1>12. Len(h) = m + 1
    BY <1>1, Zenon
  <1>13. Written(d, p, o, rest, h)
    <2>1. \A x \in 1 .. Len(d) : o[x] # 0 => x \in rest \/ \E a \in 1 .. Len(h) : h[a].src = o[x]
      BY <1>9, <1>12 DEF n
    <2>2. \A a \in 1 .. Len(h) : \E q \in 1 .. Len(d) :
            /\ h[a].src = o[q] /\ o[q] # 0
            /\ h[a].prop = p[q] /\ h[a].class = d[o[q]].class
            /\ \A x \in rest : q < x
      BY <1>10, <1>12 DEF n
    <2>3. \A a, b \in 1 .. Len(h) : a < b => h[a].prop >= h[b].prop /\ h[a].src # h[b].src
      BY <1>11, <1>12
    <2> QED BY <1>8, <2>1, <2>2, <2>3, Zenon DEF Written
  <1> QED BY <1>13, Zenon DEF rest, h

(* postprocess.cc 314-346: writing the next result keeps the invariant of   *)
(* the job.                                                                 *)
LEMMA EmitJob ==
  ASSUME NEW j, JobInv(j), j.pc = "emit", j.left # {},
         NEW i, i = Min(j.left),
         NEW r, r.src = j.order[i], r.class = j.dets[j.order[i]].class, r.prop = j.probs[i],
         r \in Results,
         NEW k, k = [j EXCEPT !.group = Append(j.group, r), !.left = j.left \ {i}]
  PROVE  JobInv(k)
  <1> DEFINE d == j.dets
             p == j.probs
             o == j.order
             g == j.group
             n == Len(d)
             h == Append(g, r)
             left == j.left \ {i}
  <1>1. j \in Jobs /\ RankedInv(j) /\ Apart(d, o, 1 .. n) /\ Written(d, p, o, j.left, g)
    BY DEF JobInv, EmitInv
  <1>2. /\ d \in Seq(Candidates) /\ p \in Seq(Int) /\ o \in Seq(Nat) /\ n \in Nat
        /\ g \in Seq(Results) /\ j.left \in SUBSET Nat
    BY <1>1, JobFields
  <1>3. n > 0 /\ Len(p) = n /\ Len(o) = n /\ j.left \subseteq 1 .. n /\ Ranked(d, p, o)
    BY <1>1 DEF RankedInv
  <1>4. i \in j.left /\ \A x \in j.left : i <= x
    BY <1>2, MinIsLeast
  <1>5. Written(d, p, o, left, h)
    <2>1. r.src = o[i] /\ r.prop = p[i] /\ r.class = d[o[i]].class /\ r \in Results
      OBVIOUS
    <2>2. j.left \in SUBSET (1 .. Len(d)) /\ Len(d) \in Nat
      BY <1>2, <1>3
    <2> HIDE DEF d, p, o, g
    <2> QED BY <1>1, <1>2, <1>3, <1>4, <2>1, <2>2, WriteOne
  <1>6. k = [j EXCEPT !.group = h, !.left = left]
    OBVIOUS
  <1>7. h \in Seq(Results) /\ left \in SUBSET Nat /\ left \subseteq 1 .. n
    BY <1>2, <1>3
  <1> HIDE DEF h, left
  <1>8. /\ k \in Jobs /\ k.pc = "emit" /\ k.dets = d /\ k.probs = p /\ k.order = o
        /\ k.left = left /\ k.group = h
    BY <1>1, <1>6, <1>7 DEF Jobs
  <1>9. EmitInv(k)
    BY <1>1, <1>3, <1>5, <1>7, <1>8 DEF EmitInv, RankedInv
  <1> QED BY <1>8, <1>9 DEF JobInv

(* The end of the job, or of the process, keeps the invariant. *)
LEMMA DoneJob ==
  ASSUME NEW j, JobInv(j), j.pc = "emit",
         NEW k, \/ k = [j EXCEPT !.pc = "crashed"] /\ j.left # {}
                \/ k = [j EXCEPT !.pc = "done"] /\ (j.left = {} \/ Len(j.group) = MaxResults)
  PROVE  JobInv(k)
  <1>1. j \in Jobs /\ EmitInv(j)
    BY DEF JobInv
  <1>2. /\ k \in Jobs /\ k.pc \in {"crashed", "done"} /\ k.dets = j.dets /\ k.probs = j.probs
        /\ k.order = j.order /\ k.left = j.left /\ k.group = j.group
        /\ k.pc = "crashed" => k.left # {}
        /\ k.pc = "done" => k.left = {} \/ Len(k.group) = MaxResults
    BY <1>1 DEF Jobs
  <1>3. EmitInv(k)
    BY <1>1, <1>2 DEF EmitInv, RankedInv
  <1> QED BY <1>2, <1>3 DEF JobInv

-----------------------------------------------------------------------------
(* The way to the sort *)

(* The steps before the decoding keep the invariant of the job. *)
LEMMA EarlyJob ==
  ASSUME NEW j, JobInv(j), NEW k, NEW pc \in {"load", "decode"},
         \/ k = [j EXCEPT !.pc = pc] /\ j.pc \in {"enter", "load"}
         \/ k = [j EXCEPT !.line = @ + 1] /\ j.pc = "load"
  PROVE  JobInv(k)
  <1>1. j \in Jobs /\ j.dets = <<>> /\ j.group = <<>> /\ j.range = NoRange
    BY DEF JobInv
  <1>2. /\ k \in Jobs /\ k.dets = <<>> /\ k.group = <<>> /\ k.range = NoRange
        /\ k.pc \in {"load", "decode"}
    BY <1>1 DEF Jobs
  <1> QED BY <1>2 DEF JobInv

(* The three heads together give an array of candidates. *)
LEMMA DecodedType ==
  ASSUME NEW heads \in Heads
  PROVE  process(heads[1]) \o process(heads[2]) \o process(heads[3]) \in Seq(Candidates)
  <1>1. ASSUME NEW i \in 1 .. 3 PROVE process(heads[i]) \in Seq(Candidates)
    <2>1. heads[i] \in [zp : Int, scale : Nat \ {0}, cells : Seq(Cells)]
      BY DEF Heads, Cells, Rect
    <2> QED BY <2>1, ProcessType
  <1>2. 1 \in 1 .. 3 /\ 2 \in 1 .. 3 /\ 3 \in 1 .. 3
    OBVIOUS
  <1> DEFINE a == process(heads[1])
             b == process(heads[2])
             c == process(heads[3])
  <1>3. a \in Seq(Candidates) /\ b \in Seq(Candidates) /\ c \in Seq(Candidates)
    BY <1>1, <1>2
  <1> HIDE DEF a, b, c
  <1>4. a \o b \in Seq(Candidates)
    BY <1>3, ConcatProperties
  <1>5. (a \o b) \o c \in Seq(Candidates)
    BY <1>3, <1>4, ConcatProperties
  <1> QED BY <1>5 DEF a, b, c

(* postprocess.cc 265-304: decoding leaves one part with everything to      *)
(* sort.                                                                    *)
LEMMA DecodeJob ==
  ASSUME NEW j, JobInv(j), j.pc = "decode",
         NEW dets1 \in Seq(Candidates), NEW n \in Nat \ {0}, n = Len(dets1),
         NEW p \in Seq(Int), Len(p) = n, NEW o \in Seq(Nat), Len(o) = n,
         \A i \in 1 .. n : p[i] = dets1[i].prob /\ o[i] = i,
         NEW s \in Seq(Parts), Len(s) = 1, s[1][1] = 1, s[1][2] = n,
         NEW k, k = [j EXCEPT !.pc = "sort", !.dets = dets1, !.probs = p, !.order = o, !.ranges = s]
  PROVE  JobInv(k)
  <1>1. j \in Jobs /\ j.dets = <<>> /\ j.group = <<>> /\ j.range = NoRange
    BY DEF JobInv
  <1>2. DOMAIN dets1 = 1 .. n /\ DOMAIN s = {1}
    OBVIOUS
  <1>3. /\ k \in Jobs /\ k.pc = "sort" /\ k.dets = dets1 /\ k.probs = p /\ k.order = o
        /\ k.ranges = s /\ k.range = NoRange /\ k.group = <<>>
    BY <1>1 DEF Jobs, Parts
  <1>4. Holds(dets1, p, o, {}, {})
    BY <1>2 DEF Holds
  <1>5. PartsAfter(s, 0, n)
    BY <1>2 DEF PartsAfter
  <1>6. Descends(p, s, 1 .. n)
    <2>1. ASSUME NEW x \in 1 .. n, NEW y \in 1 .. n PROVE Together(s, x, y)
      BY <1>2 DEF Together
    <2> QED BY <2>1, Zenon DEF Descends
  <1>7. BetweenCalls(dets1, p, o, s)
    <2>1. PartsAfter(s, 0, Len(dets1)) /\ Descends(p, s, 1 .. Len(dets1))
      BY <1>5, <1>6
    <2> QED BY <1>4, <2>1, Zenon DEF BetweenCalls
  <1>8. SortInv(k)
    <2>1. Len(p) = Len(dets1) /\ Len(o) = Len(dets1) /\ Len(dets1) > 0
      OBVIOUS
    <2> QED BY <1>3, <1>7, <2>1, Zenon DEF SortInv
  <1> QED BY <1>3, <1>8 DEF JobInv

(* A frame without a candidate is done. *)
LEMMA NothingDecodedJob ==
  ASSUME NEW j, JobInv(j), j.pc = "decode", NEW k, k = [j EXCEPT !.pc = "done"]
  PROVE  JobInv(k)
  <1>1. j \in Jobs /\ j.dets = <<>> /\ j.group = <<>>
    BY DEF JobInv
  <1>2. k \in Jobs /\ k.pc = "done" /\ k.dets = <<>> /\ k.group = <<>>
    BY <1>1 DEF Jobs
  <1> QED BY <1>2 DEF JobInv

DecodedTo(dets1, n, p, o, s) ==
    /\ dets1 \in Seq(Candidates) /\ n \in Nat \ {0} /\ n = Len(dets1)
    /\ p = [i \in 1 .. n |-> dets1[i].prob]
    /\ o = [i \in 1 .. n |-> i] /\ s = <<<<1, n>>>>

(* The arrays that Decode makes are typed, and each candidate is at its own *)
(* position.                                                                *)
LEMMA DecodedArrays ==
  ASSUME NEW dets1, NEW n, NEW p, NEW o, NEW s, DecodedTo(dets1, n, p, o, s)
  PROVE  /\ p \in Seq(Int) /\ Len(p) = n /\ o \in Seq(Nat) /\ Len(o) = n
         /\ \A i \in 1 .. n : p[i] = dets1[i].prob /\ o[i] = i
         /\ s \in Seq(Parts) /\ Len(s) = 1 /\ s[1][1] = 1 /\ s[1][2] = n
  <1>0. /\ dets1 \in Seq(Candidates) /\ n \in Nat \ {0} /\ n = Len(dets1)
        /\ p = [i \in 1 .. n |-> dets1[i].prob]
        /\ o = [i \in 1 .. n |-> i] /\ s = <<<<1, n>>>>
    BY Zenon DEF DecodedTo
  <1>1. p \in Seq(Int) /\ Len(p) = n
    <2>1. ASSUME NEW i \in 1 .. n PROVE dets1[i].prob \in Int
      <3>1. dets1[i] \in Candidates
        BY <1>0
      <3> QED BY <3>1 DEF Candidates
    <2>2. p \in [1 .. n -> Int]
      BY <1>0, <2>1
    <2>3. n \in Nat
      BY <1>0, Zenon
    <2> QED BY <2>2, <2>3, ArrayOf
  <1>2. o \in Seq(Nat) /\ Len(o) = n
    <2>1. o \in [1 .. n -> Nat]
      BY <1>0
    <2> QED BY <1>0, <2>1, ArrayOf
  <1>3. s \in Seq(Parts) /\ Len(s) = 1 /\ s[1][1] = 1 /\ s[1][2] = n
    <2>1. <<1, n>> \in Parts
      BY <1>0 DEF Parts
    <2> QED BY <1>0, <2>1
  <1> QED BY <1>0, <1>1, <1>2, <1>3

-----------------------------------------------------------------------------
(* The steps *)

(* Every step leads its worker's job from the invariant to the invariant. *)
LEMMA StepKeepsJobInv ==
  ASSUME JobsInv, NEW w \in Workers, Step(w)
  PROVE  JobInv(job'[w])
  <1> DEFINE j == job[w]
             k == job'[w]
  <1>0. JobInv(j) /\ j \in Jobs /\ job = [v \in Workers |-> job[v]]
    BY DEF JobsInv, JobInv
  <1>1. CASE Enter(w)
    <2>1. j.pc = "enter" /\ \E pc \in {"load", "decode"} : k = [j EXCEPT !.pc = pc]
      BY <1>0, <1>1 DEF Enter, Become
    <2> HIDE DEF j, k
    <2> QED BY <1>0, <2>1, EarlyJob DEF k
  <1>2. CASE LoadLabel(w)
    <2>1. j.pc = "load" /\ k = [j EXCEPT !.line = @ + 1]
      BY <1>0, <1>2 DEF LoadLabel
    <2> HIDE DEF j, k
    <2> QED BY <1>0, <2>1, EarlyJob DEF k
  <1>3. CASE Loaded(w)
    <2>1. j.pc = "load" /\ k = [j EXCEPT !.pc = "decode"]
      BY <1>0, <1>3 DEF Loaded, Become
    <2> HIDE DEF j, k
    <2> QED BY <1>0, <2>1, EarlyJob DEF k
  <1>4. CASE Decode(w)
    <2>1. PICK dets1, n, p, o, s :
             /\ dets1 = process(j.heads[1]) \o process(j.heads[2]) \o process(j.heads[3])
             /\ n = Len(dets1) /\ p = [i \in 1 .. n |-> dets1[i].prob]
             /\ o = [i \in 1 .. n |-> i] /\ s = <<<<1, n>>>>
             /\ j.pc = "decode"
             /\ job' = [job EXCEPT ![w] =
                  IF n = 0 THEN [@ EXCEPT !.pc = "done"]
                  ELSE [@ EXCEPT !.pc = "sort", !.dets = dets1, !.probs = p, !.order = o, !.ranges = s]]
      BY <1>4, Zenon DEF Decode
    <2>2. k = IF n = 0 THEN [j EXCEPT !.pc = "done"]
              ELSE [j EXCEPT !.pc = "sort", !.dets = dets1, !.probs = p, !.order = o, !.ranges = s]
      BY <1>0, <2>1, Zenon
    <2>3. dets1 \in Seq(Candidates) /\ n \in Nat
      <3>1. dets1 \in Seq(Candidates)
        BY <1>0, <2>1, JobFields, DecodedType, Zenon
      <3>2. n = Len(dets1)
        BY <2>1, Zenon
      <3> QED BY <3>1, <3>2
    <2> HIDE DEF j, k
    <2>4. CASE n = 0
      <3>1. JobInv(k)
        BY <1>0, <2>1, <2>2, <2>4, NothingDecodedJob
      <3> QED BY <3>1 DEF k
    <2>5. CASE n # 0
      <3>1. /\ p \in Seq(Int) /\ Len(p) = n /\ o \in Seq(Nat) /\ Len(o) = n
            /\ \A i \in 1 .. n : p[i] = dets1[i].prob /\ o[i] = i
            /\ s \in Seq(Parts) /\ Len(s) = 1 /\ s[1][1] = 1 /\ s[1][2] = n
        <4>1. n \in Nat \ {0}
          BY <2>3, <2>5
        <4>2. DecodedTo(dets1, n, p, o, s)
          BY <2>1, <2>3, <4>1, Zenon DEF DecodedTo
        <4> QED BY <4>2, DecodedArrays
      <3>2. k = [j EXCEPT !.pc = "sort", !.dets = dets1, !.probs = p, !.order = o, !.ranges = s]
        BY <2>2, <2>5
      <3>3. n = Len(dets1) /\ n \in Nat \ {0} /\ j.pc = "decode"
        BY <2>1, <2>3, <2>5
      <3>4. JobInv(k)
        BY <1>0, <2>3, <3>1, <3>2, <3>3, DecodeJob
      <3> QED BY <3>4 DEF k
    <2> QED BY <2>4, <2>5
  <1>5. CASE SortCall(w)
    <2>1. PICK l, h, r :
             /\ l = Head(j.ranges)[1] /\ h = Head(j.ranges)[2]
             /\ r = IF l >= h THEN NoRange
                    ELSE [left |-> l, right |-> h, low |-> l, high |-> h,
                          key |-> j.probs[l], index |-> j.order[l]]
             /\ j.pc = "sort" /\ j.range = NoRange /\ j.ranges # <<>>
             /\ job' = [job EXCEPT ![w].ranges = Tail(@), ![w].range = r]
      BY <1>5, Zenon DEF SortCall
    <2>2. k = [j EXCEPT !.ranges = Tail(@), !.range = r]
      BY <1>0, <2>1
    <2> HIDE DEF j, k
    <2>3. k = [j EXCEPT !.ranges = Tail(@), !.range = IF l >= h THEN NoRange
                     ELSE [left |-> l, right |-> h, low |-> l, high |-> h,
                           key |-> j.probs[l], index |-> j.order[l]]]
      BY <2>1, <2>2, Zenon
    <2>4. JobInv(k)
      BY <1>0, <2>1, <2>3, SortCallJob
    <2> QED BY <2>4 DEF k
  <1>6. CASE SortRound(w)
    <2> DEFINE r == j.range
               p == j.probs
               u == Max({r.low} \union {x \in r.low + 1 .. r.high : p[x] > r.key})
               q == Moved(p, u, r.low)
               v == Min({u} \union {x \in r.low .. u - 1 : q[x] < r.key})
    <2>1. /\ j.pc = "sort" /\ r.low < r.high
          /\ k = [j EXCEPT !.probs = Moved(q, v, u),
                           !.order = Moved(Moved(@, u, r.low), v, u),
                           !.range = [r EXCEPT !.low = v, !.high = u]]
      BY <1>0, <1>6 DEF SortRound
    <2>2. Scans(p, r, u, q, v)
      BY DEF Scans
    <2> HIDE DEF j, k, u, q, v
    <2> QED BY <1>0, <2>1, <2>2, SortRoundJob DEF k
  <1>7. CASE SortPlace(w)
    <2> DEFINE r == j.range
    <2>1. /\ j.pc = "sort" /\ r # NoRange /\ r.low = r.high
          /\ k = [j EXCEPT !.probs = [@ EXCEPT ![r.low] = r.key],
                           !.order = [@ EXCEPT ![r.low] = r.index],
                           !.range = NoRange,
                           !.ranges = <<<<r.left, r.low - 1>>, <<r.low + 1, r.right>>>> \o @]
      BY <1>0, <1>7 DEF SortPlace
    <2> HIDE DEF j, k
    <2>2. r = j.range
      OBVIOUS
    <2> QED BY <1>0, <2>1, <2>2, SortPlaceJob DEF k
  <1>8. CASE Sorted(w)
    <2>1. /\ j.pc = "sort" /\ j.range = NoRange /\ j.ranges = <<>>
          /\ k = [j EXCEPT !.pc = "nms", !.left = DOMAIN j.dets]
      BY <1>0, <1>8 DEF Sorted
    <2> HIDE DEF j, k
    <2> QED BY <1>0, <2>1, SortedJob DEF k
  <1>9. CASE nms(w)
    <2> DEFINE i == NextPosition(w)
    <2>1. /\ job[w].pc = "nms" /\ job[w].left # {}
          /\ k = [job[w] EXCEPT !.order = Suppressed(w, i), !.left = @ \ {i}]
      BY <1>0, <1>9 DEF nms
    <2>2. JobInv(job[w])
      BY <1>0
    <2> HIDE DEF j, k, i
    <2>3. i = NextPosition(w)
      BY DEF i
    <2> QED BY <2>1, <2>2, <2>3, NmsJob DEF k
  <1>10. CASE NmsDone(w)
    <2>1. /\ j.pc = "nms" /\ j.left = {}
          /\ k = [j EXCEPT !.pc = "emit", !.left = {i \in DOMAIN j.order : j.order[i] # 0}]
      BY <1>0, <1>10 DEF NmsDone
    <2> HIDE DEF j, k
    <2> QED BY <1>0, <2>1, NmsDoneJob DEF k
  <1>11. CASE Emit(w)
    <2> DEFINE i == Min(j.left)
               n == j.order[i]
               b == j.dets[n].box
               x1 == b.x - Pads.left
               y1 == b.y - Pads.top
               r == [src |-> n, class |-> j.dets[n].class, prop |-> j.probs[i],
                     left |-> Coordinate(x1), top |-> Coordinate(y1),
                     right |-> Coordinate(x1 + b.w), bottom |-> Coordinate(y1 + b.h)]
    <2>1. /\ j.pc = "emit" /\ j.left # {}
          /\ k = IF labels[r.class] THEN [j EXCEPT !.group = Append(j.group, r), !.left = j.left \ {i}]
                 ELSE [j EXCEPT !.pc = "crashed"]
      <3>1. PICK x : /\ j.pc = "emit" /\ j.left # {} /\ job' = [job EXCEPT ![w] = x]
                     /\ x = IF labels[r.class]
                            THEN [j EXCEPT !.group = Append(j.group, r), !.left = j.left \ {i}]
                            ELSE [j EXCEPT !.pc = "crashed"]
        BY <1>11, Zenon DEF Emit
      <3>2. k = x
        BY <1>0, <3>1, Zenon
      <3> HIDE DEF r, j, k, i
      <3> QED BY <3>1, <3>2
    <2>2. r \in Results
      <3>1. EmitInv(j)
        BY <1>0, <2>1 DEF JobInv
      <3>2. /\ j.dets \in Seq(Candidates) /\ j.probs \in Seq(Int) /\ j.left \in SUBSET Nat
        BY <1>0, JobFields
      <3>3. i \in j.left
        BY <2>1, <3>2, MinIsLeast
      <3>4. /\ i \in 1 .. Len(j.dets) /\ n # 0 /\ Len(j.probs) = Len(j.dets)
            /\ (n # 0 => n \in 1 .. Len(j.dets))
        BY <3>1, <3>3 DEF EmitInv, RankedInv, Ranked, Written
      <3>5. j.dets[n] \in Candidates /\ j.probs[i] \in Int /\ n \in Nat
        BY <3>2, <3>4
      <3>6. j.dets[n].class \in Classes /\ b \in Rect
        BY <3>5 DEF Candidates
      <3>7. b.x \in Int /\ b.y \in Int /\ b.w \in Int /\ b.h \in Int
        BY <3>6 DEF Rect
      <3>8. Pads.left \in Int /\ Pads.top \in Int
        BY PostProcessAssumption
      <3> HIDE DEF b
      <3>9. x1 \in Int /\ y1 \in Int
        BY <3>7, <3>8
      <3> HIDE DEF x1, y1
      <3>10. x1 + b.w \in Int /\ y1 + b.h \in Int
        BY <3>7, <3>9
      <3>11. /\ Coordinate(x1) \in Int /\ Coordinate(y1) \in Int
             /\ Coordinate(x1 + b.w) \in Int /\ Coordinate(y1 + b.h) \in Int
        BY <3>9, <3>10, CoordinateType
      <3> QED BY <3>5, <3>6, <3>11 DEF Results
    <2>3. r.src = j.order[i] /\ r.class = j.dets[j.order[i]].class /\ r.prop = j.probs[i]
      OBVIOUS
    <2>4. i = Min(j.left)
      OBVIOUS
    <2> HIDE DEF j, k, i, r
    <2>5. CASE labels[r.class]
      <3>1. k = [j EXCEPT !.group = Append(j.group, r), !.left = j.left \ {i}]
        BY <2>1, <2>5
      <3>2. JobInv(k)
        <4>1. j.pc = "emit" /\ j.left # {} /\ JobInv(j)
          BY <1>0, <2>1
        <4> QED BY <2>2, <2>3, <2>4, <3>1, <4>1, EmitJob
      <3> QED BY <3>2 DEF k
    <2>6. CASE ~labels[r.class]
      <3>1. JobInv(k)
        BY <1>0, <2>1, <2>6, DoneJob
      <3> QED BY <3>1 DEF k
    <2> QED BY <2>5, <2>6
  <1>12. CASE Done(w)
    <2>1. /\ j.pc = "emit" /\ k = [j EXCEPT !.pc = "done"]
          /\ j.left = {} \/ Len(j.group) = MaxResults
      BY <1>0, <1>12 DEF Done, Become
    <2> HIDE DEF j, k
    <2> QED BY <1>0, <2>1, DoneJob DEF k
  <1> QED BY <1>1, <1>2, <1>3, <1>4, <1>5, <1>6, <1>7, <1>8, <1>9, <1>10, <1>11, <1>12 DEF Step

(* After the labels a worker stays after the labels and leaves them alone. *)
LEMMA LaterStep ==
  ASSUME JobsInv, NEW w \in Workers, Step(w),
         ~Enter(w), ~LoadLabel(w), ~Loaded(w)
  PROVE  /\ job[w].pc \notin {"enter", "load"} /\ job'[w].pc \notin {"enter", "load"}
         /\ UNCHANGED <<lines, init, labels>>
  <1>1. job = [v \in Workers |-> job[v]] /\ job[w] \in Jobs
    BY DEF JobsInv, JobInv
  <1>2. DOMAIN job[w] = {"pc", "heads", "line", "dets", "probs", "order", "ranges", "range", "left", "group"}
    BY <1>1 DEF Jobs
  <1>3. CASE Decode(w)
    <2>1. job[w].pc = "decode" /\ UNCHANGED <<lines, init, labels>>
      BY <1>3 DEF Decode
    <2>2. \/ job'[w] = [job[w] EXCEPT !.pc = "done"]
          \/ \E a, b, c, e : job'[w] = [job[w] EXCEPT !.pc = "sort", !.dets = a, !.probs = b,
                                                      !.order = c, !.ranges = e]
      BY <1>1, <1>3, Zenon DEF Decode
    <2>3. job'[w].pc \in {"done", "sort"}
      BY <1>1, <2>2 DEF Jobs
    <2> QED BY <2>1, <2>3
  <1>4. CASE SortCall(w) \/ Sorted(w)
    BY <1>1, <1>2, <1>4 DEF SortCall, Sorted
  <1>5. CASE SortRound(w)
    BY <1>1, <1>2, <1>5 DEF SortRound
  <1>6. CASE SortPlace(w)
    BY <1>1, <1>2, <1>6 DEF SortPlace
  <1>7. CASE nms(w) \/ NmsDone(w)
    BY <1>1, <1>2, <1>7 DEF nms, NmsDone
  <1>8. CASE Emit(w)
    BY <1>1, <1>2, <1>8 DEF Emit
  <1>9. CASE Done(w)
    BY <1>1, <1>2, <1>9 DEF Done, Become
  <1> QED BY <1>3, <1>4, <1>5, <1>6, <1>7, <1>8, <1>9 DEF Step

(* The labels of a step: the table only grows, and the flag is set when the *)
(* worker that sets it has put in every label there is.                     *)
LEMMA StepKeepsLabelInv ==
  ASSUME JobsInv, LabelInv, NEW w \in Workers, Step(w)
  PROVE  LabelInv'
  <1>0. /\ job = [v \in Workers |-> job[v]] /\ \A v \in Workers : job[v] \in Jobs
        /\ job[w] \in Jobs /\ job[w].line \in Nat
    <2>1. job = [v \in Workers |-> job[v]] /\ \A v \in Workers : job[v] \in Jobs
      BY DEF JobsInv, JobInv
    <2> QED BY <2>1, JobFields
  <1>1. ASSUME NEW v \in Workers, v # w PROVE job'[v] = job[v]
    BY <1>1, OwnJobOnly
  <1>2. /\ init \in {-1, 0} /\ lines \in Nat /\ labels \in [Classes -> BOOLEAN]
        /\ init = 0 => \A c \in Classes : c <= lines => labels[c]
        /\ \A v \in Workers :
              /\ job[v].pc \notin {"enter", "load"} => init = 0
              /\ job[v].pc = "enter" => job[v].line = 0
              /\ job[v].pc = "load" => \A c \in Classes : c <= job[v].line => labels[c]
    BY DEF LabelInv
  <1>3. Classes \subseteq Nat /\ \A c \in Classes : 1 <= c /\ c <= ClassNum
    BY PostProcessAssumption DEF Classes
  <1>4. CASE Enter(w)
    <2>1. /\ job[w].pc = "enter" /\ UNCHANGED <<lines, init, labels>>
          /\ job'[w].line = job[w].line
          /\ job'[w].pc = IF init = -1 THEN "load" ELSE "decode"
      BY <1>0, <1>4 DEF Enter, Become, Jobs
    <2>2. \A c \in Classes : ~(c <= 0)
      BY <1>3
    <2> QED BY <1>1, <1>2, <2>1, <2>2 DEF LabelInv
  <1>5. CASE LoadLabel(w)
    <2>1. /\ job[w].pc = "load" /\ UNCHANGED <<lines, init>>
          /\ job[w].line < lines /\ job[w].line < ClassNum
          /\ labels' = [labels EXCEPT ![job[w].line + 1] = TRUE]
          /\ job'[w].line = job[w].line + 1 /\ job'[w].pc = "load"
      BY <1>0, <1>5 DEF LoadLabel, Jobs
    <2>2. job[w].line + 1 \in Classes
      BY <1>0, <2>1, PostProcessAssumption DEF Classes
    <2>3. /\ labels' \in [Classes -> BOOLEAN] /\ labels'[job[w].line + 1]
          /\ \A c \in Classes : labels[c] => labels'[c]
      BY <1>2, <2>1, <2>2
    <2>4. \A c \in Classes : c <= job[w].line + 1 => labels'[c]
      <3>1. ASSUME NEW c \in Classes, c <= job[w].line + 1
            PROVE  c <= job[w].line \/ c = job[w].line + 1
        BY <1>0, <1>3, <3>1
      <3> QED BY <1>2, <2>1, <2>3, <3>1
    <2>5. ASSUME NEW v \in Workers
          PROVE  /\ job'[v].pc \notin {"enter", "load"} => init' = 0
                 /\ job'[v].pc = "enter" => job'[v].line = 0
                 /\ job'[v].pc = "load" => \A c \in Classes : c <= job'[v].line => labels'[c]
      <3>1. CASE v = w
        BY <2>1, <2>4, <3>1
      <3>2. CASE v # w
        BY <1>1, <1>2, <2>1, <2>3, <3>2
      <3> QED BY <3>1, <3>2
    <2>6. init' = 0 => \A c \in Classes : c <= lines' => labels'[c]
      BY <1>2, <2>1, <2>3
    <2> QED BY <1>2, <2>1, <2>3, <2>5, <2>6 DEF LabelInv
  <1>6. CASE Loaded(w)
    <2>1. /\ job[w].pc = "load" /\ UNCHANGED <<lines, labels>> /\ init' = 0
          /\ job[w].line >= lines \/ job[w].line >= ClassNum
          /\ job'[w].pc = "decode"
      BY <1>0, <1>6 DEF Loaded, Become, Jobs
    <2>2. ASSUME NEW c \in Classes, c <= lines PROVE labels[c]
      <3>1. c <= job[w].line
        BY <1>0, <1>2, <1>3, <2>1, <2>2, PostProcessAssumption
      <3> QED BY <1>2, <2>1, <3>1
    <2>3. ASSUME NEW v \in Workers
          PROVE  /\ job'[v].pc = "enter" => job'[v].line = 0
                 /\ job'[v].pc = "load" => \A c \in Classes : c <= job'[v].line => labels'[c]
      <3>1. CASE v = w
        BY <2>1, <3>1
      <3>2. CASE v # w
        BY <1>1, <1>2, <2>1, <3>2
      <3> QED BY <3>1, <3>2
    <2> QED BY <1>2, <2>1, <2>2, <2>3 DEF LabelInv
  <1>7. CASE ~Enter(w) /\ ~LoadLabel(w) /\ ~Loaded(w)
    <2>1. /\ job[w].pc \notin {"enter", "load"} /\ job'[w].pc \notin {"enter", "load"}
          /\ UNCHANGED <<lines, init, labels>>
      BY <1>7, LaterStep
    <2>2. init = 0
      BY <1>2, <2>1
    <2>3. ASSUME NEW v \in Workers
          PROVE  /\ job'[v].pc \notin {"enter", "load"} => init' = 0
                 /\ job'[v].pc = "enter" => job'[v].line = 0
                 /\ job'[v].pc = "load" => \A c \in Classes : c <= job'[v].line => labels'[c]
      <3>1. CASE v = w
        BY <2>1, <2>2, <3>1
      <3>2. CASE v # w
        BY <1>1, <1>2, <2>1, <3>2
      <3> QED BY <3>1, <3>2
    <2> QED BY <1>2, <2>1, <2>3 DEF LabelInv
  <1> QED BY <1>4, <1>5, <1>6, <1>7

(* A worker dies of a label the file does not have. *)
LEMMA StepKeepsLabelsReady ==
  ASSUME PostInv, NEW w \in Workers, Step(w)
  PROVE  LabelsReadyForAll'
  <1>0. /\ JobsInv /\ LabelInv /\ LabelsReadyForAll
        /\ job = [v \in Workers |-> job[v]] /\ job[w] \in Jobs /\ JobInv(job[w])
    BY DEF PostInv, JobsInv, JobInv
  <1>1. ASSUME NEW v \in Workers, v # w PROVE job'[v] = job[v]
    BY <1>0, <1>1, OwnJobOnly
  <1>2. lines' = lines
    BY DEF Step, Enter, LoadLabel, Loaded, Decode, SortCall, SortRound, SortPlace, Sorted,
           nms, NmsDone, Emit, Done
  <1>3. ASSUME job'[w].pc = "crashed"
        PROVE  job'[w].dets[job'[w].order[Min(job'[w].left)]].class > lines
    <2>1. CASE Emit(w) /\ job[w].pc = "emit"
      <3> DEFINE j == job[w]
                 i == Min(j.left)
                 c == j.dets[j.order[i]].class
      <3>1. PICK g : \/ labels[c] /\ job' = [job EXCEPT ![w] = [@ EXCEPT !.group = g,
                                                                  !.left = job[w].left \ {i}]]
                     \/ ~labels[c] /\ job' = [job EXCEPT ![w] = [@ EXCEPT !.pc = "crashed"]]
        BY <2>1 DEF Emit
      <3>2. ~labels[c] /\ job'[w] = [j EXCEPT !.pc = "crashed"]
        <4> HIDE DEF c, i
        <4>1. CASE /\ labels[c]
                   /\ job' = [job EXCEPT ![w] = [@ EXCEPT !.group = g, !.left = job[w].left \ {i}]]
          <5>1. job'[w] = [j EXCEPT !.group = g, !.left = j.left \ {i}]
            BY <1>0, <4>1
          <5>2. job'[w].pc = j.pc
            BY <1>0, <5>1 DEF Jobs
          <5> QED BY <1>3, <2>1, <5>2
        <4>2. CASE ~labels[c] /\ job' = [job EXCEPT ![w] = [@ EXCEPT !.pc = "crashed"]]
          BY <1>0, <4>2
        <4> QED BY <3>1, <4>1, <4>2
      <3>3. job'[w].dets = j.dets /\ job'[w].order = j.order /\ job'[w].left = j.left
        BY <1>0, <3>2 DEF Jobs
      <3>4. init = 0 /\ \A x \in Classes : x <= lines => labels[x]
        BY <1>0, <2>1 DEF LabelInv
      <3>5. c \in Classes
        <4>1. EmitInv(j) /\ j.left # {}
          BY <1>0, <2>1 DEF JobInv, Emit
        <4>2. /\ j.dets \in Seq(Candidates) /\ j.left \in SUBSET Nat
          BY <1>0, JobFields
        <4>3. i \in j.left
          BY <4>1, <4>2, MinIsLeast
        <4>4. j.order[i] \in 1 .. Len(j.dets)
          BY <4>1, <4>3 DEF EmitInv, RankedInv, Ranked, Written
        <4>5. j.dets[j.order[i]] \in Candidates
          BY <4>2, <4>4
        <4> QED BY <4>5 DEF Candidates
      <3>6. ~(c <= lines) /\ c \in Int /\ lines \in Int
        BY <1>0, <3>2, <3>4, <3>5, PostProcessAssumption DEF Classes, LabelInv
      <3>7. c > lines
        BY <3>6
      <3> HIDE DEF c
      <3> QED BY <3>3, <3>7 DEF c
    <2>2. CASE ~Emit(w)
      <3>1. job'[w].pc # "crashed"
        <4>1. CASE Enter(w) \/ Loaded(w) \/ Done(w)
          BY <1>0, <4>1 DEF Enter, Loaded, Done, Become, Jobs
        <4>2. CASE LoadLabel(w) \/ Sorted(w)
          BY <1>0, <4>2 DEF LoadLabel, Sorted, Jobs
        <4>7. CASE SortCall(w)
          <5>1. \E a, b : job' = [job EXCEPT ![w].ranges = a, ![w].range = b]
            BY <4>7, Zenon DEF SortCall
          <5>2. job'[w].pc = job[w].pc /\ job[w].pc = "sort"
            BY <1>0, <4>7, <5>1 DEF SortCall, Jobs
          <5> QED BY <5>2
        <4>3. CASE Decode(w)
          <5>1. \/ job'[w] = [job[w] EXCEPT !.pc = "done"]
                \/ \E a, b, c, e : job'[w] = [job[w] EXCEPT !.pc = "sort", !.dets = a, !.probs = b,
                                                            !.order = c, !.ranges = e]
            BY <1>0, <4>3, Zenon DEF Decode
          <5> QED BY <1>0, <5>1 DEF Jobs
        <4>4. CASE SortRound(w)
          BY <1>0, <4>4 DEF SortRound, Jobs
        <4>5. CASE SortPlace(w)
          BY <1>0, <4>5 DEF SortPlace, Jobs
        <4>6. CASE nms(w) \/ NmsDone(w)
          BY <1>0, <4>6 DEF nms, NmsDone, Jobs
        <4> QED BY <2>2, <4>1, <4>2, <4>3, <4>4, <4>5, <4>6, <4>7 DEF Step
      <3> QED BY <1>3, <3>1
    <2> QED BY <2>1, <2>2 DEF Emit
  <1>4. ASSUME NEW v \in Workers, job'[v].pc = "crashed"
        PROVE  job'[v].dets[job'[v].order[Min(job'[v].left)]].class > lines
    <2>1. CASE v = w
      BY <1>3, <1>4, <2>1
    <2>2. CASE v # w
      BY <1>0, <1>1, <1>4, <2>2 DEF LabelsReadyForAll
    <2> QED BY <2>1, <2>2
  <1> QED BY <1>2, <1>4 DEF LabelsReadyForAll

(* Before its first step a worker is at the entry with nothing decoded. *)
LEMMA InitIsPostInv == Init => PostInv
  <1> SUFFICES ASSUME Init PROVE PostInv
    OBVIOUS
  <1>1. PICK heads \in Inputs : job = [w \in Workers |-> Idle(heads[w])]
    BY DEF Init
  <1>2. heads \in [Workers -> Heads]
    BY PostProcessAssumption
  <1>3. ASSUME NEW w \in Workers
        PROVE  /\ JobInv(job[w]) /\ job[w].pc = "enter" /\ job[w].line = 0
    <2>1. job[w] = Idle(heads[w]) /\ heads[w] \in Heads
      BY <1>1, <1>2
    <2>2. NoRange \in Ranges
      BY DEF NoRange, Ranges
    <2>3. ASSUME NEW h \in Heads
          PROVE  /\ Idle(h) \in Jobs /\ Idle(h).pc = "enter" /\ Idle(h).line = 0
                 /\ Idle(h).dets = <<>> /\ Idle(h).group = <<>> /\ Idle(h).range = NoRange
      BY <2>2 DEF Idle, Jobs
    <2> QED BY <2>1, <2>3 DEF JobInv
  <1>4. JobsInv
    BY <1>1, <1>3 DEF JobsInv
  <1>5. lines \in Nat /\ init = -1 /\ labels \in [Classes -> BOOLEAN]
    BY PostProcessAssumption DEF Init
  <1>6. LabelInv
    BY <1>3, <1>5 DEF LabelInv
  <1>7. LabelsReadyForAll
    BY <1>3 DEF LabelsReadyForAll
  <1> QED BY <1>4, <1>6, <1>7 DEF PostInv

(* A worker's step keeps the invariant of the whole post-processing. *)
LEMMA StepKeepsPostInv ==
  ASSUME PostInv, NEW w \in Workers, Step(w)
  PROVE  PostInv'
  <1>0. JobsInv /\ LabelInv
    BY DEF PostInv
  <1>1. job' = [v \in Workers |-> IF v = w THEN job'[w] ELSE job[v]]
    BY <1>0, OwnJobOnly
  <1>2. JobInv(job'[w])
    BY <1>0, StepKeepsJobInv
  <1>3. ASSUME NEW v \in Workers PROVE JobInv(job'[v])
    <2>1. CASE v = w
      BY <1>2, <2>1
    <2>2. CASE v # w
      <3>1. job'[v] = job[v]
        BY <1>1, <2>2
      <3> QED BY <1>0, <3>1 DEF JobsInv
    <2> QED BY <2>1, <2>2
  <1>4. job' = [v \in Workers |-> job'[v]]
    BY <1>1
  <1>5. JobsInv'
    BY <1>3, <1>4 DEF JobsInv
  <1>6. LabelInv'
    BY <1>0, StepKeepsLabelInv
  <1>7. LabelsReadyForAll'
    BY StepKeepsLabelsReady
  <1> QED BY <1>5, <1>6, <1>7 DEF PostInv

(* So does a step that leaves the post-processing alone. *)
LEMMA StutterKeepsPostInv ==
  ASSUME PostInv, UNCHANGED vars
  PROVE  PostInv'
  <1>1. lines' = lines /\ init' = init /\ labels' = labels /\ job' = job
    BY DEF vars
  <1>2. JobsInv'
    BY <1>1 DEF PostInv, JobsInv
  <1>3. LabelInv'
    BY <1>1 DEF PostInv, LabelInv
  <1>4. LabelsReadyForAll'
    BY <1>1 DEF PostInv, LabelsReadyForAll
  <1> QED BY <1>2, <1>3, <1>4 DEF PostInv

-----------------------------------------------------------------------------
(* What the invariant says of the results *)

(* Which of two boxes comes first does not matter to their overlap. *)
LEMMA OverlapSymmetric ==
  ASSUME NEW a \in Rect, NEW b \in Rect
  PROVE  Overlap(a, b) = Overlap(b, a)
  <1>1. ASSUME NEW a0 \in Int, NEW a1 \in Int, NEW b0 \in Int, NEW b1 \in Int
        PROVE  Side(a0, a1, b0, b1) \in Int /\ Side(a0, a1, b0, b1) = Side(b0, b1, a0, a1)
    <2>1. {a1, b1} = {b1, a1} /\ {a0, b0} = {b0, a0}
      OBVIOUS
    <2>2. Min({a1, b1}) \in Int /\ Max({a0, b0}) \in Int
      <3>1. Min({a1, b1}) = IF a1 <= b1 THEN a1 ELSE b1
        BY DEF Min
      <3>2. Max({a0, b0}) = IF a0 >= b0 THEN a0 ELSE b0
        BY DEF Max
      <3> QED BY <3>1, <3>2
    <2> DEFINE m == Min({a1, b1})
               x == Max({a0, b0})
    <2>3. Min({b1, a1}) = m /\ Max({b0, a0}) = x
      BY <2>1
    <2>4. Side(a0, a1, b0, b1) = IF m - x + 1 > 0 THEN m - x + 1 ELSE 0
      BY DEF Side
    <2>5. Side(b0, b1, a0, a1) = IF m - x + 1 > 0 THEN m - x + 1 ELSE 0
      BY <2>3 DEF Side
    <2>6. m \in Int /\ x \in Int
      BY <2>2
    <2> HIDE DEF m, x
    <2> QED BY <2>4, <2>5, <2>6
  <1> DEFINE i1 == Side(a.x, a.x + a.w, b.x, b.x + b.w)
             i2 == Side(a.y, a.y + a.h, b.y, b.y + b.h)
             k1 == Side(b.x, b.x + b.w, a.x, a.x + a.w)
             k2 == Side(b.y, b.y + b.h, a.y, a.y + a.h)
             s == (a.w + 1) * (a.h + 1)
             t == (b.w + 1) * (b.h + 1)
  <1>2. a.x \in Int /\ a.y \in Int /\ a.w \in Int /\ a.h \in Int
    BY DEF Rect
  <1>3. b.x \in Int /\ b.y \in Int /\ b.w \in Int /\ b.h \in Int
    BY DEF Rect
  <1>4. i1 \in Int /\ i2 \in Int /\ i1 = k1 /\ i2 = k2 /\ s \in Int /\ t \in Int
    <2>1. a.x + a.w \in Int /\ a.y + a.h \in Int /\ b.x + b.w \in Int /\ b.y + b.h \in Int
      BY <1>2, <1>3
    <2>2. i1 \in Int /\ i1 = k1
      <3> DEFINE a0 == a.x
                 a1 == a.x + a.w
                 b0 == b.x
                 b1 == b.x + b.w
      <3>1. a0 \in Int /\ a1 \in Int /\ b0 \in Int /\ b1 \in Int
        BY <1>2, <1>3, <2>1
      <3>2. Side(a0, a1, b0, b1) \in Int /\ Side(a0, a1, b0, b1) = Side(b0, b1, a0, a1)
        <4> HIDE DEF a0, a1, b0, b1
        <4> QED BY <1>1, <3>1
      <3> QED BY <3>2
    <2>3. i2 \in Int /\ i2 = k2
      <3> DEFINE a0 == a.y
                 a1 == a.y + a.h
                 b0 == b.y
                 b1 == b.y + b.h
      <3>1. a0 \in Int /\ a1 \in Int /\ b0 \in Int /\ b1 \in Int
        BY <1>2, <1>3, <2>1
      <3>2. Side(a0, a1, b0, b1) \in Int /\ Side(a0, a1, b0, b1) = Side(b0, b1, a0, a1)
        <4> HIDE DEF a0, a1, b0, b1
        <4> QED BY <1>1, <3>1
      <3> QED BY <3>2
    <2>4. s \in Int /\ t \in Int
      BY <1>2, <1>3
    <2> QED BY <2>2, <2>3, <2>4
  <1>5. Overlap(a, b) = (s + t - i1 * i2 > 0 /\ 100 * (i1 * i2) > NmsThreshold * (s + t - i1 * i2))
    BY DEF Overlap
  <1>6. Overlap(b, a) = (t + s - k1 * k2 > 0 /\ 100 * (k1 * k2) > NmsThreshold * (t + s - k1 * k2))
    BY DEF Overlap
  <1> HIDE DEF i1, i2, k1, k2, s, t
  <1>7. s + t - i1 * i2 = t + s - k1 * k2 /\ i1 * i2 = k1 * k2
    BY <1>4
  <1> QED BY <1>5, <1>6, <1>7

(* The results of a job are ranked. *)
LEMMA JobIsRanked ==
  ASSUME NEW j, JobInv(j)
  PROVE  /\ \A i \in DOMAIN j.group :
               /\ j.group[i].prop = j.dets[j.group[i].src].prob
               /\ j.group[i].class = j.dets[j.group[i].src].class
         /\ \A i, k \in DOMAIN j.group :
               i < k => j.group[i].prop >= j.group[k].prop /\ j.group[i].src # j.group[k].src
         /\ j.pc = "emit" =>
               \A p \in j.left : \A i \in DOMAIN j.group : j.probs[p] <= j.group[i].prop
  <1>1. j \in Jobs
    BY DEF JobInv
  <1>2. CASE j.group = <<>>
    BY <1>2
  <1>3. CASE EmitInv(j)
    <2> DEFINE d == j.dets
               p == j.probs
               o == j.order
               g == j.group
               n == Len(d)
    <2>0. /\ n \in Nat /\ j.left \subseteq 1 .. n /\ DOMAIN g = 1 .. Len(g)
          /\ \A i \in 1 .. n : p[i] \in Int
      <3>1. p \in Seq(Int) /\ d \in Seq(Candidates) /\ g \in Seq(Results)
        BY <1>1, JobFields
      <3>2. Len(p) = n /\ j.left \subseteq 1 .. n
        BY <1>3 DEF EmitInv, RankedInv
      <3> QED BY <3>1, <3>2
    <2>1. /\ \A i, k \in 1 .. n : i < k => p[i] >= p[k]
          /\ \A i \in 1 .. n : o[i] # 0 => o[i] \in 1 .. n /\ p[i] = d[o[i]].prob
      BY <1>3, Zenon DEF EmitInv, RankedInv, Ranked
    <2>2. /\ \A a \in 1 .. Len(g) : \E q \in 1 .. n :
                /\ g[a].src = o[q] /\ o[q] # 0
                /\ g[a].prop = p[q] /\ g[a].class = d[o[q]].class
                /\ \A i \in j.left : q < i
          /\ \A a, b \in 1 .. Len(g) : a < b => g[a].prop >= g[b].prop /\ g[a].src # g[b].src
      BY <1>3, Zenon DEF EmitInv, Written
    <2> HIDE DEF d, p, o, g, n
    <2>3. ASSUME NEW a \in DOMAIN g
          PROVE  g[a].prop = d[g[a].src].prob /\ g[a].class = d[g[a].src].class
      <3>1. PICK q \in 1 .. n : /\ g[a].src = o[q] /\ o[q] # 0
                                /\ g[a].prop = p[q] /\ g[a].class = d[o[q]].class
        BY <2>0, <2>2, <2>3
      <3>2. p[q] = d[o[q]].prob
        BY <2>1, <3>1
      <3> QED BY <3>1, <3>2
    <2>4. ASSUME NEW x \in j.left, NEW a \in DOMAIN g
          PROVE  p[x] <= g[a].prop
      <3>1. PICK q \in 1 .. n : g[a].prop = p[q] /\ q < x
        BY <2>0, <2>2, <2>4
      <3>2. p[q] >= p[x] /\ p[q] \in Int /\ p[x] \in Int
        BY <2>0, <2>1, <3>1
      <3> QED BY <3>1, <3>2
    <2> QED BY <2>0, <2>2, <2>3, <2>4 DEF d, p, g
  <1>4. j.group = <<>> \/ EmitInv(j)
    BY <1>1 DEF JobInv, SortInv, NmsInv, Jobs
  <1> QED BY <1>2, <1>3, <1>4

(* The results of a finished job are what suppression leaves. *)
LEMMA JobIsSuppressed ==
  ASSUME NEW j, JobInv(j), j.pc = "done",
         NEW K, K = {j.group[i].src : i \in DOMAIN j.group}
  PROVE  /\ \A a, b \in K : a # b => ~Overlap(j.dets[a].box, j.dets[b].box)
         /\ \A n \in DOMAIN j.dets \ K :
               \/ Len(j.group) = MaxResults
               \/ \E m \in DOMAIN j.dets \ {n} :
                     j.dets[m].prob >= j.dets[n].prob /\ Overlap(j.dets[m].box, j.dets[n].box)
  <1>1. j \in Jobs
    BY DEF JobInv
  <1>2. CASE j.dets = <<>> /\ j.group = <<>>
    BY <1>2
  <1>3. CASE EmitInv(j) /\ (j.left = {} \/ Len(j.group) = MaxResults)
    <2> DEFINE d == j.dets
               o == j.order
               g == j.group
               n == Len(d)
    <2>0. n \in Nat /\ DOMAIN d = 1 .. n /\ DOMAIN g = 1 .. Len(g)
      BY <1>1, JobFields
    <2>1. /\ \A i \in 1 .. n : o[i] # 0 => o[i] \in 1 .. n
          /\ \A m \in 1 .. n :
              \/ \E i \in 1 .. n : o[i] = m
              \/ \E q \in (1 .. n) \ {m} :
                    d[q].prob >= d[m].prob /\ Overlap(d[q].box, d[m].box)
      BY <1>3, Zenon DEF EmitInv, RankedInv, Ranked
    <2>2. /\ \A i \in 1 .. n : o[i] # 0 => i \in j.left \/ \E a \in 1 .. Len(g) : g[a].src = o[i]
          /\ \A a \in 1 .. Len(g) : \E q \in 1 .. n : g[a].src = o[q] /\ o[q] # 0
      BY <1>3, Zenon DEF EmitInv, Written
    <2>3. \A i, k \in 1 .. n :
             i < k /\ o[i] # 0 /\ o[k] # 0 => ~Overlap(d[o[i]].box, d[o[k]].box)
      BY <1>3, Zenon DEF EmitInv, Apart
    <2>4. \A a \in 1 .. n : d[a].box \in Rect
      <3>1. d \in Seq(Candidates)
        BY <1>1, JobFields
      <3>2. ASSUME NEW a \in 1 .. n PROVE d[a] \in Candidates
        BY <3>1
      <3> QED BY <3>2 DEF Candidates
    <2>5. K = {g[i].src : i \in DOMAIN g}
      OBVIOUS
    <2> HIDE DEF d, o, g, n
    <2>6. ASSUME NEW a \in K, NEW b \in K, a # b
          PROVE  ~Overlap(d[a].box, d[b].box)
      <3>0. ASSUME NEW c \in K PROVE \E x \in 1 .. n : c = o[x] /\ o[x] # 0
        <4>1. PICK i \in 1 .. Len(g) : c = g[i].src
          BY <2>0, <2>5, <3>0
        <4> QED BY <2>2, <4>1
      <3>1. PICK x \in 1 .. n : a = o[x] /\ o[x] # 0
        BY <3>0
      <3>2. PICK y \in 1 .. n : b = o[y] /\ o[y] # 0
        BY <3>0
      <3>3. CASE x < y
        BY <2>3, <3>1, <3>2, <3>3
      <3>4. CASE y < x
        <4>1. ~Overlap(d[b].box, d[a].box)
          BY <2>3, <3>1, <3>2, <3>4
        <4>2. d[a].box \in Rect /\ d[b].box \in Rect
          BY <2>1, <2>4, <3>1, <3>2
        <4> QED BY <4>1, <4>2, OverlapSymmetric
      <3>5. x < y \/ y < x
        BY <2>0, <2>6, <3>1, <3>2
      <3> QED BY <3>3, <3>4, <3>5
    <2>7. ASSUME NEW c \in DOMAIN d \ K
          PROVE  \/ Len(g) = MaxResults
                 \/ \E m \in DOMAIN d \ {c} :
                       d[m].prob >= d[c].prob /\ Overlap(d[m].box, d[c].box)
      <3>1. CASE \E i \in 1 .. n : o[i] = c
        <4>1. PICK i \in 1 .. n : o[i] = c
          BY <3>1
        <4>2. c # 0
          BY <2>0
        <4>3. i \in j.left
          <5>1. \A a \in 1 .. Len(g) : g[a].src # c
            BY <2>0, <2>5
          <5> QED BY <2>2, <4>1, <4>2, <5>1
        <4> QED BY <1>3, <4>3 DEF g
      <3>2. CASE \E q \in (1 .. n) \ {c} :
                    d[q].prob >= d[c].prob /\ Overlap(d[q].box, d[c].box)
        BY <2>0, <3>2
      <3> QED BY <2>0, <2>1, <3>1, <3>2
    <2> QED BY <2>6, <2>7 DEF d, g
  <1> QED BY <1>2, <1>3 DEF JobInv

(* What the runs check follows from the invariant. *)
LEMMA PostInvShows ==
  ASSUME PostInv
  PROVE  LabelsReadyForAll /\ ResultsAreRanked /\ NonMaximumSuppressed
  <1>1. \A w \in Workers : JobInv(job[w])
    BY DEF PostInv, JobsInv
  <1>2. ResultsAreRanked
    BY <1>1, JobIsRanked DEF ResultsAreRanked
  <1>3. NonMaximumSuppressed
    <2> SUFFICES ASSUME NEW w \in Workers, job[w].pc = "done"
                 PROVE  /\ \A a, b \in Kept(w) :
                              a # b => ~Overlap(job[w].dets[a].box, job[w].dets[b].box)
                        /\ \A n \in DOMAIN job[w].dets \ Kept(w) :
                              \/ Len(job[w].group) = MaxResults
                              \/ \E m \in DOMAIN job[w].dets \ {n} :
                                    /\ job[w].dets[m].prob >= job[w].dets[n].prob
                                    /\ Overlap(job[w].dets[m].box, job[w].dets[n].box)
      BY DEF NonMaximumSuppressed
    <2>1. Kept(w) = {job[w].group[i].src : i \in DOMAIN job[w].group}
      BY DEF Kept
    <2> QED BY <1>1, <2>1, JobIsSuppressed
  <1> QED BY <1>2, <1>3 DEF PostInv

-----------------------------------------------------------------------------
(* postprocess.cc 251-350 on the workers of the pool: every worker's sort,  *)
(* suppression and results and the shared label table are as PostInv says.  *)
THEOREM PostInvAlways == Spec => []PostInv
  <1>1. PostInv /\ [Next]_vars => PostInv'
    BY StepKeepsPostInv, StutterKeepsPostInv DEF Next
  <1> QED BY <1>1, InitIsPostInv, PTL DEF Spec

(* The same while the stream collects the groups and runs the networks.     *)
THEOREM DetectionKeepsPostInv == DetectionSpec => []PostInv
  <1>1. DetectionInit => PostInv
    BY InitIsPostInv DEF DetectionInit
  <1>2. PostInv /\ [DetectionNext]_allVars => PostInv'
    <2> SUFFICES ASSUME PostInv, [DetectionNext]_allVars PROVE PostInv'
      OBVIOUS
    <2>1. \/ \E w \in Workers : Step(w)
          \/ UNCHANGED vars
      BY Zenon DEF DetectionNext, Worker, Update, Network, Rest, allVars
    <2> QED BY <2>1, StepKeepsPostInv, StutterKeepsPostInv
  <1> QED BY <1>1, <1>2, PTL DEF DetectionSpec

(* postprocess.cc 255-262, 339: no worker meets a label that the file has   *)
(* and that is not in the table yet, whoever loads the table.               *)
THEOREM LabelsAreReady == DetectionSpec => []LabelsReadyForAll
  BY DetectionKeepsPostInv, PostInvShows, PTL

(* postprocess.cc 144-171, 314-346: scores and indices stay together through *)
(* the sort, and results descend without repetition, the best ones first.   *)
THEOREM GroupsAreRanked == DetectionSpec => []ResultsAreRanked
  BY DetectionKeepsPostInv, PostInvShows, PTL

(* postprocess.cc 111-142: no two results overlap, and a candidate is only  *)
(* missing for one at least as good that overlaps it or a full group.       *)
THEOREM GroupsAreSuppressed == DetectionSpec => []NonMaximumSuppressed
  BY DetectionKeepsPostInv, PostInvShows, PTL

-----------------------------------------------------------------------------
(***************************************************************************)
(* The features of the detections.  ds are the detections, ft their         *)
(* features, ms the ids whose run failed; x is an extractor whose part is   *)
(* a .. b.                                                                  *)
(***************************************************************************)
Own(ds, ft, ms, i) == ft[i] = ds[i].id \/ ds[i].id \in ms

(* No crop of the part is empty up to the i-th detection. *)
Whole(ds, a, i) == \A k \in a .. i : R!IsCropped(ds[k])

Extractor(x) == x = [pc |-> x.pc, first |-> x.first, last |-> x.last, crops |-> x.crops,
                     pos |-> x.pos, out |-> x.out]

(* Up to the first empty crop the features written so far are their own     *)
(* detections', and the crops still to run are those of the next ones.      *)
Running(ds, ft, ms, x, a, b) ==
    /\ x.pos \in Nat /\ x.crops \in Seq({ds[k] : k \in DOMAIN ds})
    /\ a <= x.pos /\ x.pos + Len(x.crops) <= b + 1
    /\ \A i \in a .. b : Whole(ds, a, i) =>
          \/ i < x.pos /\ Own(ds, ft, ms, i)
          \/ /\ x.pos <= i /\ i - x.pos + 1 <= Len(x.crops)
             /\ x.crops[i - x.pos + 1] = ds[i]

PartInv(ds, ft, ms, x, a, b) ==
    /\ Extractor(x) /\ x.pc \in {"off", "crop", "infer"}
    /\ x.pc # "off" => x.first = a /\ x.last = b /\ a <= b
    /\ x.pc = "infer" => Running(ds, ft, ms, x, a, b)
    /\ x.pc = "off" => \A i \in a .. b : Whole(ds, a, i) => Own(ds, ft, ms, i)

First(n, e) == R!Halves(n)[e][1]
Last(n, e) == R!Halves(n)[e][2]

FeatureInv ==
    /\ Len(dets) \in Nat /\ DOMAIN dets = 1 .. Len(dets) /\ DOMAIN feature = DOMAIN dets
    /\ feature = [i \in DOMAIN dets |-> feature[i]]
    /\ ext = [e \in R!Extractors |-> ext[e]]
    /\ \A e \in R!Extractors :
          PartInv(dets, feature, missed, ext[e], First(Len(dets), e), Last(Len(dets), e))

(* The two parts lie in the detections, have none in common and cover them. *)
LEMMA HalvesShareNothing ==
  ASSUME NEW n \in Nat
  PROVE  /\ \A e \in R!Extractors :
               First(n, e) \in Nat \ {0} /\ Last(n, e) \in Nat /\ Last(n, e) <= n
         /\ \A e, f \in R!Extractors : \A i, k \in Nat :
               /\ e # f /\ First(n, e) <= i /\ i <= Last(n, e)
               /\ First(n, f) <= k /\ k <= Last(n, f)
               => i # k
         /\ \A i \in 1 .. n :
               LET e == IF i <= Last(n, 1) THEN 1 ELSE 2
               IN  First(n, e) <= i /\ i <= Last(n, e)
  <1>1. CASE n < 2
    <2>1. First(n, 1) = 1 /\ Last(n, 1) = n /\ First(n, 2) = 1 /\ Last(n, 2) = 0
      BY <1>1 DEF First, Last, R!Halves, R!Extractors
    <2> QED BY <1>1, <2>1 DEF R!Extractors
  <1>2. CASE n >= 2
    <2>1. /\ First(n, 1) = 1 /\ Last(n, 1) = n \div 2
          /\ First(n, 2) = n \div 2 + 1 /\ Last(n, 2) = n
      BY <1>2 DEF First, Last, R!Halves, R!Extractors
    <2>2. n \div 2 \in Nat /\ n \div 2 >= 1 /\ n \div 2 <= n
      BY <1>2
    <2> DEFINE h == n \div 2
    <2> HIDE DEF h
    <2> QED BY <2>1, <2>2 DEF h, R!Extractors
  <1> QED BY <1>1, <1>2

(* What is selected starts with the first positions as long as all are in. *)
LEMMA SelectedPrefix ==
  ASSUME NEW s, NEW a \in Nat \ {0}, NEW b \in Nat, NEW S \in SUBSET (a .. b),
         NEW i \in a .. b, \A j \in a .. i : j \in S
  PROVE  /\ a <= i /\ i - a + 1 <= Cardinality(S)
         /\ Selected(s, S)[i - a + 1] = s[i]
  <1>1. i \in Int /\ a <= i /\ i <= b
    OBVIOUS
  <1>2. PICK z \in Nat : a = z + 1
    <2>1. a - 1 \in Nat /\ a = (a - 1) + 1
      OBVIOUS
    <2> QED BY <2>1
  <1>3. PICK k \in Nat \ {0} : i = z + k
    <2>1. i - z \in Nat \ {0} /\ i = z + (i - z)
      BY <1>1, <1>2
    <2> QED BY <2>1
  <1>4. S \in SUBSET (z + 1 .. b) /\ \A j \in z + 1 .. z + k : j \in S
    BY <1>2, <1>3
  <1>5. k <= Cardinality(S) /\ Kth(S, k) = i /\ Cardinality(S) <= b - z
    BY <1>3, <1>4, KthOfPrefix
  <1>6. Cardinality(S) \in Nat
    <2>1. IsFiniteSet(a .. b)
      BY FS_Interval
    <2> QED BY <2>1, FS_Subset, FS_CardinalityType
  <1>7. Selected(s, S)[k] = s[i]
    <2>1. k \in 1 .. Cardinality(S)
      <3> DEFINE m == Cardinality(S)
      <3>1. k <= m /\ m \in Nat
        BY <1>5, <1>6
      <3> HIDE DEF m
      <3> QED BY <3>1 DEF m
    <2> QED BY <1>5, <2>1 DEF Selected
  <1>8. i - a + 1 = k
    BY <1>1, <1>2, <1>3
  <1> QED BY <1>1, <1>5, <1>7, <1>8

(* deepsort.cpp 112-122, featuretensor.cpp 27-52: the crops of a part start *)
(* with those of its first detections, as far as none is empty.             *)
LEMMA CropPart ==
  ASSUME NEW ds, NEW n \in Nat, DOMAIN ds = 1 .. n, NEW ft, NEW ms,
         NEW a \in Nat \ {0}, NEW b \in Nat, b <= n,
         NEW x, PartInv(ds, ft, ms, x, a, b), x.pc = "crop",
         NEW S, S = {i \in a .. b : R!IsCropped(ds[i])},
         NEW y, y = [x EXCEPT !.pc = "infer", !.pos = a, !.crops = Selected(ds, S)]
  PROVE  PartInv(ds, ft, ms, y, a, b)
  <1> DEFINE c == Selected(ds, S)
             m == Cardinality(S)
             D == {ds[k] : k \in DOMAIN ds}
  <1>1. Extractor(x) /\ x.first = a /\ x.last = b /\ a <= b
    BY DEF PartInv
  <1>2. /\ Extractor(y) /\ y.pc = "infer" /\ y.pos = a /\ y.crops = c
        /\ y.first = a /\ y.last = b
    BY <1>1 DEF Extractor
  <1>3. S \in SUBSET (a .. b) /\ S \in SUBSET (1 .. n)
    OBVIOUS
  <1>4. m \in Nat /\ m <= b - a + 1
    <2>1. IsFiniteSet(a .. b) /\ Cardinality(a .. b) = b - a + 1
      BY <1>1, FS_Interval
    <2> QED BY <1>3, <2>1, FS_Subset, FS_CardinalityType
  <1>5. c \in Seq(D) /\ Len(c) = m
    <2>1. \A k \in 1 .. m : ds[Kth(S, k)] \in D
      <3>1. ASSUME NEW k \in 1 .. m PROVE Kth(S, k) \in S
        BY <1>3, KthIsKept
      <3> QED BY <1>3, <3>1
    <2>2. c \in [1 .. m -> D]
      BY <2>1 DEF Selected
    <2> HIDE DEF c, D, m
    <2> QED BY <1>4, <2>2, ArrayOf
  <1>6. ASSUME NEW i \in a .. b, Whole(ds, a, i)
        PROVE  /\ a <= i /\ i - a + 1 <= Len(c)
               /\ c[i - a + 1] = ds[i]
    <2>1. \A j \in a .. i : j \in S
      BY <1>6 DEF Whole
    <2>2. a <= i /\ i - a + 1 <= m /\ c[i - a + 1] = ds[i]
      BY <1>1, <1>3, <2>1, SelectedPrefix
    <2> HIDE DEF c, m
    <2> QED BY <1>5, <2>2
  <1>7. Running(ds, ft, ms, y, a, b)
    <2> HIDE DEF c, m, D
    <2>1. y.pos \in Nat /\ a <= y.pos /\ y.pos + Len(y.crops) <= b + 1
      BY <1>1, <1>2, <1>4, <1>5
    <2>2. y.crops \in Seq({ds[k] : k \in DOMAIN ds})
      BY <1>2, <1>5 DEF D
    <2>3. \A i \in a .. b : Whole(ds, a, i) =>
             y.pos <= i /\ i - y.pos + 1 <= Len(y.crops) /\ y.crops[i - y.pos + 1] = ds[i]
      BY <1>2, <1>6
    <2> QED BY <2>1, <2>2, <2>3, Zenon DEF Running
  <1> QED BY <1>1, <1>2, <1>7 DEF PartInv

(* x becomes y when v is written for the detection whose crop was run; a    *)
(* failed run is among ms.                                                  *)
Turn(x, v, ms, y) ==
    /\ x.pc = "infer" /\ x.crops # <<>>
    /\ v = Head(x.crops).id \/ Head(x.crops).id \in ms
    /\ y = [x EXCEPT !.pos = x.pos + 1, !.crops = Tail(x.crops), !.out = v]

(* featuretensor.cpp 12-25: one turn of doInference writes what it has to   *)
(* the detection whose turn it is; the run that failed is in ms1.           *)
LEMMA InferPart ==
  ASSUME NEW ds, NEW n \in Nat, DOMAIN ds = 1 .. n,
         NEW ft, DOMAIN ft = 1 .. n, NEW ms, NEW ms1, ms \subseteq ms1,
         NEW a \in Nat \ {0}, NEW b \in Nat, b <= n,
         NEW x, PartInv(ds, ft, ms, x, a, b), NEW v, NEW y, Turn(x, v, ms1, y)
  PROVE  /\ PartInv(ds, [ft EXCEPT ![x.pos] = v], ms1, y, a, b)
         /\ x.pos \in a .. b
  <1> DEFINE q == x.pos
             c == x.crops
             l == Len(c)
             D == {ds[k] : k \in DOMAIN ds}
             ft1 == [ft EXCEPT ![q] = v]
  <1>0. /\ x.pc = "infer" /\ x.crops # <<>>
        /\ v = Head(x.crops).id \/ Head(x.crops).id \in ms1
        /\ y = [x EXCEPT !.pos = x.pos + 1, !.crops = Tail(x.crops), !.out = v]
    BY Zenon DEF Turn
  <1>1. Extractor(x) /\ x.first = a /\ x.last = b /\ a <= b
    BY <1>0 DEF PartInv
  <1>2. /\ q \in Nat /\ c \in Seq(D) /\ a <= q /\ q + l <= b + 1
        /\ \A i \in a .. b : Whole(ds, a, i) =>
              \/ i < q /\ Own(ds, ft, ms, i)
              \/ q <= i /\ i - q + 1 <= l /\ c[i - q + 1] = ds[i]
    BY <1>0 DEF PartInv, Running
  <1>3. /\ Extractor(y) /\ y.pc = "infer" /\ y.pos = q + 1 /\ y.crops = Tail(c)
        /\ y.first = a /\ y.last = b
    BY <1>0, <1>1 DEF Extractor
  <1> HIDE DEF q, c, D
  <1>4. /\ l \in Nat \ {0} /\ Tail(c) \in Seq(D) /\ Len(Tail(c)) = l - 1
        /\ \A k \in 1 .. l - 1 : Tail(c)[k] = c[k + 1]
        /\ Head(c) = c[1]
    <2>1. c # <<>>
      BY <1>0 DEF c
    <2> QED BY <1>2, <2>1
  <1>5. v = c[1].id \/ c[1].id \in ms1
    BY <1>0, <1>4 DEF c
  <1> HIDE DEF l
  <1>6. q \in 1 .. n /\ q \in a .. b
    BY <1>2, <1>4
  <1>7. /\ ft1[q] = v
        /\ \A i \in 1 .. n : i # q => ft1[i] = ft[i]
    BY <1>6
  <1> HIDE DEF ft1
  <1>8. ASSUME NEW i \in a .. b, Whole(ds, a, i)
        PROVE  \/ i < q + 1 /\ Own(ds, ft1, ms1, i)
               \/ q + 1 <= i /\ i - (q + 1) + 1 <= l - 1 /\ Tail(c)[i - (q + 1) + 1] = ds[i]
    <2>1. i \in Int /\ i \in 1 .. n
      OBVIOUS
    <2>2. CASE i < q /\ Own(ds, ft, ms, i)
      BY <1>2, <1>7, <2>1, <2>2 DEF Own
    <2>3. CASE q = i /\ c[1] = ds[i]
      BY <1>2, <1>5, <1>7, <2>1, <2>3 DEF Own
    <2>4. CASE q < i /\ i - q + 1 <= l /\ c[i - q + 1] = ds[i]
      <3>1. i - q \in 1 .. l - 1
        BY <1>2, <1>4, <2>1, <2>4
      <3>2. Tail(c)[i - q] = ds[i]
        BY <1>4, <2>4, <3>1
      <3>3. i - (q + 1) + 1 = i - q /\ q + 1 <= i /\ i - q <= l - 1
        BY <1>2, <1>4, <2>1, <2>4
      <3> QED BY <3>2, <3>3
    <2>5. q = i => i - q + 1 = 1
      BY <1>2
    <2>6. q <= i => q = i \/ q < i
      BY <1>2, <2>1
    <2> QED BY <1>2, <1>8, <2>2, <2>3, <2>4, <2>5, <2>6
  <1>9. Running(ds, ft1, ms1, y, a, b)
    <2>1. y.pos \in Nat /\ a <= y.pos /\ y.pos + Len(y.crops) <= b + 1
      BY <1>2, <1>3, <1>4
    <2>2. y.crops \in Seq({ds[k] : k \in DOMAIN ds})
      BY <1>3, <1>4 DEF D
    <2>3. \A i \in a .. b : Whole(ds, a, i) =>
             \/ i < y.pos /\ Own(ds, ft1, ms1, i)
             \/ /\ y.pos <= i /\ i - y.pos + 1 <= Len(y.crops)
                /\ y.crops[i - y.pos + 1] = ds[i]
      BY <1>3, <1>4, <1>8
    <2> QED BY <2>1, <2>2, <2>3, Zenon DEF Running
  <1>10. PartInv(ds, ft1, ms1, y, a, b)
    BY <1>1, <1>3, <1>9 DEF PartInv
  <1> QED BY <1>6, <1>10 DEF ft1, q

(* What the other extractor writes does not change a part. *)
LEMMA OtherPart ==
  ASSUME NEW ds, NEW n \in Nat, DOMAIN ds = 1 .. n,
         NEW ft, DOMAIN ft = 1 .. n, NEW ms, NEW ms1, ms \subseteq ms1,
         NEW a \in Nat \ {0}, NEW b \in Nat, b <= n,
         NEW x, PartInv(ds, ft, ms, x, a, b),
         NEW q \in 1 .. n, q \notin a .. b, NEW v
  PROVE  PartInv(ds, [ft EXCEPT ![q] = v], ms1, x, a, b)
  <1> DEFINE ft1 == [ft EXCEPT ![q] = v]
  <1>1. \A i \in a .. b : ft1[i] = ft[i]
    <2>1. ASSUME NEW i \in a .. b PROVE i \in 1 .. n /\ i # q
      OBVIOUS
    <2> QED BY <2>1
  <1> HIDE DEF ft1
  <1>2. \A i \in a .. b : Own(ds, ft, ms, i) => Own(ds, ft1, ms1, i)
    BY <1>1 DEF Own
  <1>3. Running(ds, ft, ms, x, a, b) => Running(ds, ft1, ms1, x, a, b)
    BY <1>2, Zenon DEF Running
  <1>4. PartInv(ds, ft1, ms1, x, a, b)
    BY <1>2, <1>3, Zenon DEF PartInv
  <1> QED BY <1>4 DEF ft1

(* An extractor is done when it has run its crops. *)
LEMMA FinishPart ==
  ASSUME NEW ds, NEW n \in Nat, DOMAIN ds = 1 .. n, NEW ft, NEW ms,
         NEW a \in Nat \ {0}, NEW b \in Nat, b <= n,
         NEW x, PartInv(ds, ft, ms, x, a, b), x.pc = "infer", x.crops = <<>>,
         NEW out
  PROVE  PartInv(ds, ft, ms, R!Off(out), a, b)
  <1>1. /\ x.pos \in Nat
        /\ \A i \in a .. b : Whole(ds, a, i) =>
              \/ i < x.pos /\ Own(ds, ft, ms, i)
              \/ x.pos <= i /\ i - x.pos + 1 <= Len(x.crops)
    BY DEF PartInv, Running
  <1>2. Len(x.crops) = 0
    OBVIOUS
  <1>3. ASSUME NEW i \in a .. b, Whole(ds, a, i) PROVE Own(ds, ft, ms, i)
    <2>1. i \in Int
      OBVIOUS
    <2> QED BY <1>1, <1>2, <1>3, <2>1
  <1>4. Extractor(R!Off(out)) /\ R!Off(out).pc = "off"
    BY DEF Extractor, R!Off
  <1> QED BY <1>3, <1>4 DEF PartInv

(* There is nothing to do for the extractors before the first frame. *)
LEMMA InitIsFeatureInv == R!Init => FeatureInv
  <1> SUFFICES ASSUME R!Init PROVE FeatureInv
    OBVIOUS
  <1>1. /\ dets = <<>> /\ feature = <<>> /\ missed = {}
        /\ ext = [e \in R!Extractors |-> R!Off(Nothing)]
    BY DEF R!Init
  <1>2. Len(dets) = 0 /\ DOMAIN dets = 1 .. 0 /\ DOMAIN feature = 1 .. 0
    BY <1>1
  <1>3. feature = [i \in DOMAIN dets |-> feature[i]]
    BY <1>1
  <1>4. ASSUME NEW e \in R!Extractors
        PROVE  PartInv(dets, feature, missed, ext[e], First(0, e), Last(0, e))
    <2>1. ext[e] = R!Off(Nothing)
      BY <1>1
    <2>2. Extractor(R!Off(Nothing)) /\ R!Off(Nothing).pc = "off"
      BY DEF Extractor, R!Off
    <2>3. First(0, e) \in Nat \ {0} /\ Last(0, e) \in Nat /\ Last(0, e) <= 0
      BY HalvesShareNothing
    <2>4. First(0, e) .. Last(0, e) = {}
      BY <2>3
    <2> QED BY <2>1, <2>2, <2>4 DEF PartInv
  <1> QED BY <1>1, <1>2, <1>3, <1>4 DEF FeatureInv

(* The boxes of a frame are a sequence. *)
LEMMA BoxesAreSequence ==
  ASSUME PostInv, NEW f \in Workers
  PROVE  Len(Boxes(f)) \in Nat /\ DOMAIN Boxes(f) = 1 .. Len(Boxes(f))
  <1> DEFINE all == job[f].group
             S == {i \in DOMAIN all : HasArea(all[i])}
             m == Cardinality(S)
  <1>1. all \in Seq(Results)
    <2>1. job[f] \in Jobs
      BY DEF PostInv, JobsInv, JobInv
    <2> QED BY <2>1, JobFields
  <1>2. m \in Nat
    <2>1. DOMAIN all = 1 .. Len(all) /\ Len(all) \in Nat
      BY <1>1
    <2>2. IsFiniteSet(1 .. Len(all))
      BY <2>1, FS_Interval
    <2>3. S \in SUBSET (1 .. Len(all))
      BY <2>1
    <2> HIDE DEF S, all
    <2> QED BY <2>2, <2>3, FS_Subset, FS_CardinalityType
  <1> DEFINE g == Selected(all, S)
  <1>3. DOMAIN g = 1 .. m
    BY DEF Selected
  <1>4. Boxes(f) = [i \in DOMAIN g |->
                      [id |-> <<f, g[i].src>>, left |-> g[i].left, top |-> g[i].top,
                       right |-> g[i].right, bottom |-> g[i].bottom]]
    BY DEF Boxes
  <1> HIDE DEF g, m
  <1>5. PICK b \in [1 .. m -> {Boxes(f)[i] : i \in 1 .. m}] : b = Boxes(f)
    BY <1>3, <1>4
  <1>6. DOMAIN b = 1 .. m /\ Len(b) = m
    BY <1>2, <1>5, ArrayOf
  <1> QED BY <1>2, <1>5, <1>6

(* deepsort.cpp 108-125: the detections of a new frame are divided; nothing *)
(* of the last frame is left.                                               *)
LEMMA SortKeepsFeatureInv ==
  ASSUME FeatureInv, NEW boxes, Len(boxes) \in Nat, DOMAIN boxes = 1 .. Len(boxes),
         R!Sort(boxes)
  PROVE  FeatureInv'
  <1> DEFINE n == Len(boxes)
  <1>1. /\ dets' = boxes /\ missed' = {}
        /\ feature' = [i \in DOMAIN boxes |-> Nothing]
        /\ ext' = [e \in R!Extractors |->
                 LET part == R!Halves(Len(boxes))[e]
                 IN  [R!Off(ext[e].out) EXCEPT !.first = part[1], !.last = part[2],
                        !.pc = IF part[1] <= part[2] THEN "crop" ELSE "off"]]
    BY DEF R!Sort
  <1>2. ASSUME NEW e \in R!Extractors
        PROVE  PartInv(dets', feature', missed', ext'[e], First(n, e), Last(n, e))
    <2> DEFINE a == First(n, e)
               b == Last(n, e)
    <2>1. ext'[e] = [R!Off(ext[e].out) EXCEPT !.first = a, !.last = b,
                       !.pc = IF a <= b THEN "crop" ELSE "off"]
      BY <1>1 DEF First, Last
    <2>2. a \in Nat \ {0} /\ b \in Nat
      BY HalvesShareNothing
    <2> HIDE DEF a, b
    <2>3. /\ Extractor(ext'[e]) /\ ext'[e].first = a /\ ext'[e].last = b
          /\ ext'[e].pc = IF a <= b THEN "crop" ELSE "off"
      BY <2>1 DEF Extractor, R!Off
    <2>4. CASE a <= b
      BY <2>3, <2>4 DEF PartInv, a, b
    <2>5. CASE ~(a <= b)
      <3>1. a .. b = {}
        BY <2>2, <2>5
      <3> QED BY <2>3, <2>5, <3>1 DEF PartInv, a, b
    <2> QED BY <2>4, <2>5
  <1>3. DOMAIN feature' = DOMAIN dets' /\ feature' = [i \in DOMAIN dets' |-> feature'[i]]
    BY <1>1
  <1>4. ext' = [e \in R!Extractors |-> ext'[e]]
    BY <1>1
  <1>5. Len(dets') \in Nat /\ DOMAIN dets' = 1 .. Len(dets') /\ Len(dets') = n
    BY <1>1
  <1> HIDE DEF n
  <1> QED BY <1>2, <1>3, <1>4, <1>5 DEF FeatureInv

(* One turn of an extractor's thread. *)
LEMMA ThreadKeepsFeatureInv ==
  ASSUME FeatureInv, NEW e \in R!Extractors, R!Thread(e)
  PROVE  FeatureInv'
  <1> DEFINE n == Len(dets)
             x == ext[e]
             a == First(n, e)
             b == Last(n, e)
  <1>1. /\ n \in Nat /\ DOMAIN dets = 1 .. n /\ DOMAIN feature = 1 .. n
        /\ feature = [i \in DOMAIN dets |-> feature[i]]
        /\ ext = [f \in R!Extractors |-> ext[f]]
        /\ \A f \in R!Extractors :
              PartInv(dets, feature, missed, ext[f], First(n, f), Last(n, f))
    BY DEF FeatureInv
  <1>2. dets' = dets
    BY DEF R!Thread, R!Crop, R!Infer, R!InferFails, R!Finish
  <1>3. a \in Nat \ {0} /\ b \in Nat /\ b <= n
    BY <1>1, HalvesShareNothing
  <1>4. Extractor(x) /\ (x.pc # "off" => x.first = a /\ x.last = b)
    BY <1>1 DEF PartInv
  <1> HIDE DEF n, a, b
  <1>5. CASE /\ feature' = feature /\ missed' = missed
             /\ \E y : ext' = [ext EXCEPT ![e] = y] /\ PartInv(dets, feature, missed, y, a, b)
    <2>1. PICK y : ext' = [ext EXCEPT ![e] = y] /\ PartInv(dets, feature, missed, y, a, b)
      BY <1>5
    <2>2. ASSUME NEW f \in R!Extractors
          PROVE  PartInv(dets, feature, missed, ext'[f], First(n, f), Last(n, f))
      BY <1>1, <2>1 DEF a, b
    <2>3. ext' = [f \in R!Extractors |-> ext'[f]]
      BY <1>1, <2>1
    <2> QED BY <1>1, <1>2, <1>5, <2>2, <2>3 DEF FeatureInv, n
  <1>6. CASE R!Crop(e)
    <2> DEFINE S == {i \in a .. b : R!IsCropped(dets[i])}
               y == [x EXCEPT !.pc = "infer", !.pos = a, !.crops = Selected(dets, S)]
    <2>1. x.pc = "crop" /\ x.first = a /\ x.last = b
      BY <1>4, <1>6 DEF R!Crop
    <2>2. R!Crops(e) = Selected(dets, S)
      <3>1. R!Cardinality(S) = Cardinality(S)
        BY DEF R!Cardinality, Cardinality
      <3>2. ASSUME NEW k PROVE R!Kth(S, k) = Kth(S, k)
        <4>1. ASSUME NEW T PROVE R!Cardinality(T) = Cardinality(T)
          BY DEF R!Cardinality, Cardinality
        <4> QED BY <4>1 DEF R!Kth, Kth
      <3>3. R!Crops(e) = R!Selected(dets, S)
        BY <2>1 DEF R!Crops
      <3> HIDE DEF S
      <3> QED BY <3>1, <3>2, <3>3 DEF R!Selected, Selected
    <2>3. ext' = [ext EXCEPT ![e] = y]
      BY <1>6, <2>1, <2>2 DEF R!Crop
    <2>4. PartInv(dets, feature, missed, y, a, b)
      <3> HIDE DEF x
      <3> QED BY <1>1, <1>3, <2>1, CropPart DEF a, b, x
    <2>5. feature' = feature /\ missed' = missed
      BY <1>6 DEF R!Crop
    <2> HIDE DEF y
    <2> QED BY <1>5, <2>3, <2>4, <2>5
  <1>7. CASE R!Finish(e)
    <2>1. /\ x.pc = "infer" /\ x.crops = <<>> /\ ext' = [ext EXCEPT ![e] = R!Off(x.out)]
          /\ feature' = feature /\ missed' = missed
      BY <1>7 DEF R!Finish
    <2>2. PartInv(dets, feature, missed, R!Off(x.out), a, b)
      <3> HIDE DEF x
      <3> QED BY <1>1, <1>3, <2>1, FinishPart DEF a, b, x
    <2> QED BY <1>5, <2>1, <2>2
  <1>8. CASE R!Infer(e) \/ R!InferFails(e)
    <2>1. PICK v : /\ x.pc = "infer" /\ x.crops # <<>>
                   /\ v = Head(x.crops).id \/ Head(x.crops).id \in missed'
                   /\ missed \subseteq missed'
                   /\ R!Write(e, v)
      <3>1. CASE R!Infer(e)
        BY <3>1 DEF R!Infer
      <3>2. CASE R!InferFails(e)
        BY <3>2 DEF R!InferFails
      <3> QED BY <1>8, <3>1, <3>2
    <2> DEFINE y == [x EXCEPT !.pos = x.pos + 1, !.crops = Tail(x.crops), !.out = v]
    <2>2. feature' = [feature EXCEPT ![x.pos] = v] /\ ext' = [ext EXCEPT ![e] = y]
      BY <2>1 DEF R!Write
    <2>3. PartInv(dets, feature', missed', y, a, b) /\ x.pos \in a .. b
      <3>1. PartInv(dets, feature, missed, x, a, b)
        BY <1>1 DEF a, b
      <3> HIDE DEF x
      <3>2. /\ PartInv(dets, [feature EXCEPT ![x.pos] = v], missed', y, a, b)
            /\ x.pos \in a .. b
        <4>1. Turn(x, v, missed', y) /\ missed \subseteq missed'
          BY <2>1, Zenon DEF Turn
        <4>2. n \in Nat /\ DOMAIN dets = 1 .. n /\ DOMAIN feature = 1 .. n
          BY <1>1
        <4> HIDE DEF y
        <4> QED BY <1>3, <3>1, <4>1, <4>2, InferPart
      <3> QED BY <2>2, <3>2
    <2> HIDE DEF y
    <2>4. ASSUME NEW f \in R!Extractors
          PROVE  PartInv(dets, feature', missed', ext'[f], First(n, f), Last(n, f))
      <3>1. CASE f = e
        BY <1>1, <2>2, <2>3, <3>1 DEF a, b
      <3>2. CASE f # e
        <4>1. ext'[f] = ext[f] /\ PartInv(dets, feature, missed, ext[f], First(n, f), Last(n, f))
          BY <1>1, <2>2, <3>2
        <4>2. First(n, f) \in Nat \ {0} /\ Last(n, f) \in Nat /\ Last(n, f) <= n
          BY <1>1, HalvesShareNothing
        <4>3. x.pos \in 1 .. n /\ x.pos \notin First(n, f) .. Last(n, f)
          <5>1. x.pos \in Nat /\ a <= x.pos /\ x.pos <= b
            BY <1>3, <2>3
          <5>2. x.pos \in 1 .. n
            BY <1>1, <1>3, <5>1
          <5>3. ASSUME NEW k \in Nat, First(n, f) <= k, k <= Last(n, f) PROVE x.pos # k
            BY <1>1, <3>2, <5>1, <5>3, HalvesShareNothing DEF a, b
          <5> QED BY <4>2, <5>1, <5>2, <5>3
        <4> HIDE DEF x
        <4>4. PartInv(dets, feature', missed', ext[f], First(n, f), Last(n, f))
          BY <1>1, <2>1, <2>2, <4>1, <4>2, <4>3, OtherPart
        <4> QED BY <4>1, <4>4
      <3> QED BY <3>1, <3>2
    <2>5. /\ DOMAIN feature' = DOMAIN dets /\ feature' = [i \in DOMAIN dets |-> feature'[i]]
          /\ ext' = [f \in R!Extractors |-> ext'[f]]
      BY <1>1, <2>2
    <2> QED BY <1>1, <1>2, <2>4, <2>5 DEF FeatureInv, n
  <1> QED BY <1>6, <1>7, <1>8 DEF R!Thread

(* A step that leaves the extractors alone. *)
LEMMA StutterKeepsFeatureInv ==
  ASSUME FeatureInv, UNCHANGED reidVars
  PROVE  FeatureInv'
  <1>1. dets' = dets /\ feature' = feature /\ ext' = ext /\ missed' = missed
    BY DEF reidVars
  <1> QED BY <1>1 DEF FeatureInv

(* When both threads have joined the features are the detections' own. *)
LEMMA FeatureInvShows ==
  ASSUME FeatureInv
  PROVE  OwnFeature
  <1> DEFINE n == Len(dets)
  <1>1. /\ n \in Nat /\ DOMAIN dets = 1 .. n
        /\ \A f \in R!Extractors :
              PartInv(dets, feature, missed, ext[f], First(n, f), Last(n, f))
    BY DEF FeatureInv
  <1>2. ASSUME R!Idle, NEW i \in DOMAIN dets
        PROVE  \/ feature[i] = dets[i].id
               \/ dets[i].id \in missed
               \/ \E k \in R!PartUpTo(i) : ~R!IsCropped(dets[k])
    <2> DEFINE e == IF i <= Last(n, 1) THEN 1 ELSE 2
    <2>1. e \in R!Extractors /\ ext[e].pc = "off"
      BY <1>2 DEF R!Idle, R!Extractors
    <2>2. R!PartUpTo(i) = First(n, e) .. i
      BY DEF R!PartUpTo, First, Last
    <2>3. First(n, e) <= i /\ i <= Last(n, e)
      BY <1>1, HalvesShareNothing
    <2>4. i \in First(n, e) .. Last(n, e)
      <3>1. First(n, e) \in Nat /\ Last(n, e) \in Nat /\ i \in Int
        <4> HIDE DEF e, n
        <4>1. i \in Int
          BY <1>1
        <4> QED BY <1>1, <2>1, <4>1, HalvesShareNothing
      <3> QED BY <2>3, <3>1
    <2> HIDE DEF e, n
    <2>5. Whole(dets, First(n, e), i) => Own(dets, feature, missed, i)
      BY <1>1, <2>1, <2>4 DEF PartInv
    <2> QED BY <2>2, <2>5 DEF Whole, Own
  <1> QED BY <1>2 DEF OwnFeature, R!OwnFeature

(* featuretensor.cpp 27-52, deepsort.cpp 108-134, under the stream that     *)
(* hands over the groups of the workers: a detection has the feature of its *)
(* own crop, whatever the order of the two networks' runs.                  *)
THEOREM FeaturesAreOwn == DetectionSpec => []OwnFeature
  <1>1. DetectionInit => PostInv /\ FeatureInv
    BY InitIsPostInv, InitIsFeatureInv DEF DetectionInit
  <1>2. PostInv /\ FeatureInv /\ [DetectionNext]_allVars => FeatureInv'
    <2> SUFFICES ASSUME PostInv, FeatureInv, [DetectionNext]_allVars PROVE FeatureInv'
      OBVIOUS
    <2>1. CASE Update
      <3>1. CASE R!Sort(Boxes(frame))
        BY <2>1, <3>1, BoxesAreSequence, SortKeepsFeatureInv DEF Update
      <3> QED BY <2>1, <3>1, StutterKeepsFeatureInv DEF Update
    <2>2. CASE Network
      BY <2>2, ThreadKeepsFeatureInv DEF Network
    <2>3. CASE UNCHANGED reidVars
      BY <2>3, StutterKeepsFeatureInv
    <2>4. Update \/ Network \/ UNCHANGED reidVars
      BY Zenon DEF DetectionNext, Worker, Rest, allVars
    <2> QED BY <2>1, <2>2, <2>3, <2>4
  <1>3. FeatureInv => OwnFeature
    BY FeatureInvShows
  <1> QED BY <1>1, <1>2, <1>3, DetectionKeepsPostInv, PTL DEF DetectionSpec
=============================================================================
