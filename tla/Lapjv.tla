-------------------------------- MODULE Lapjv --------------------------------
(***************************************************************************)
(* The assignment solver of ByteTrack: BYTETracker::lapjv and the dense     *)
(* Jonker-Volgenant algorithm of lapjv.cpp.  Rows are tracks, columns are   *)
(* detections, a cost is 1 - IOU in units of the model.  Indices start at 0 *)
(* and -1 is "none", as in the code.  Costs stay below LARGE, the code's    *)
(* infinity, and allocations succeed.                                       *)
(***************************************************************************)
EXTENDS Integers, FiniteSets, FiniteSetsExt

CONSTANTS
    Shapes,     \* <<tracks, detections>> of the matrices to solve
    Costs(_),   \* the costs that occur in a matrix of a shape
    CostLimit   \* thresh of linear_assignment, an even number of cost units

\* linear_assignment returns early when there is no track or no detection.
ASSUME ShapesAssumption == Shapes \subseteq (Nat \ {0}) \X (Nat \ {0})
ASSUME CostLimitAssumption == CostLimit \in Nat /\ CostLimit % 2 = 0

VARIABLES
    input,      \* the matrix of this call: [rows, cols, c]
    pc,         \* "ccrrt", "transfer", "carr", "path", "scan", "prices", "augment", "done"
    x, y,       \* column of a row, row of a column
    v,          \* column prices
    free_rows,  \* array of unassigned rows; the first `ret` entries are live
    ret,        \* number of free rows handed to the current phase
    round,      \* augmenting row reductions finished
    carr,       \* locals of _carr_dense: current, new_free_rows, rr_cnt
    next,       \* pfree_i - free_rows in _ca_dense
    path,       \* locals of find_path_dense: cols, d, pred, lo, hi, n_ready
    j           \* the column the augmentation has reached

vars == <<input, pc, x, y, v, free_rows, ret, round, carr, next, path, j>>

None == -1

n == input.rows + input.cols
Index == 0 .. n - 1

\* Mutant: every entry of the extension outside the corners is the limit.
CostFullLimit == [i \in Index |-> [k \in Index |->
                    IF i < input.rows /\ k < input.cols THEN input.c[i][k]
                    ELSE IF i >= input.rows /\ k >= input.cols THEN 0
                    ELSE CostLimit]]

(***************************************************************************)
(* The square matrix lapjv_internal solves: the real costs in one corner,   *)
(* zeros in the opposite one and half the limit elsewhere, so that leaving  *)
(* a track and a detection unmatched costs as much as the limit.            *)
(***************************************************************************)
cost == [i \in Index |-> [k \in Index |->
           IF i < input.rows /\ k < input.cols THEN input.c[i][k]
           ELSE IF i >= input.rows /\ k >= input.cols THEN 0
           ELSE CostLimit \div 2]]

\* The first index of S at which f is smallest: the loops compare with <.
ArgMin(f, S) == Min({k \in S : \A l \in S : f[k] <= f[l]})

Reduced(i, prices) == [k \in Index |-> cost[i][k] - prices[k]]

NoPath == [cols |-> <<>>, d |-> <<>>, pred |-> <<>>, lo |-> 0, hi |-> 0, n_ready |-> 0]
NoCarr == [current |-> 0, new |-> 0, rr |-> 0]

Init == /\ \E s \in Shapes :
              \E c \in [0 .. s[1] - 1 -> [0 .. s[2] - 1 -> Costs(s)]] :
                 input = [rows |-> s[1], cols |-> s[2], c |-> c]
        /\ pc = "ccrrt" /\ x = <<>> /\ y = <<>> /\ v = <<>> /\ free_rows = <<>>
        /\ ret = 0 /\ round = 0 /\ carr = NoCarr /\ next = 0 /\ path = NoPath /\ j = None

\* lapjv_internal between two phases: at most two reductions, then paths.
Phase(left, rounds) == IF left = 0 THEN "done" ELSE IF rounds < 2 THEN "carr" ELSE "path"

-----------------------------------------------------------------------------
\* Column reduction of _ccrrt_dense: each column asks its cheapest row.
ColumnReduction ==
    /\ pc = "ccrrt" /\ pc' = "transfer"
    /\ y' = [k \in Index |-> ArgMin([i \in Index |-> cost[i][k]], Index)]
    /\ v' = [k \in Index |-> cost[y'[k]][k]]
    /\ UNCHANGED <<input, x, free_rows, ret, round, carr, next, path, j>>

Askers(i) == {k \in Index : y[k] = i}

\* The array whose first entries are the rows of S in increasing order.
InOrder(S) == [k \in Index |-> IF k < Cardinality(S)
                               THEN CHOOSE i \in S : Cardinality({l \in S : l < i}) = k
                               ELSE None]

\* A row keeps the last column that asked.
Kept(i) == IF Askers(i) = {} THEN None ELSE Max(Askers(i))

\* A row that only one column asked lowers that column's price.
Transferred(row, w) ==
    IF Cardinality(Askers(row)) # 1 THEN w
    ELSE [w EXCEPT ![Kept(row)] = @ - Min({Reduced(row, w)[k] : k \in Index \ {Kept(row)}})]

(***************************************************************************)
(* The rest of _ccrrt_dense: the columns that a row does not keep are free  *)
(* again, and the prices are lowered row after row, each time with the      *)
(* prices the earlier rows left.                                            *)
(***************************************************************************)
ReductionTransfer ==
    /\ pc = "transfer"
    /\ x' = [i \in Index |-> Kept(i)]
    /\ y' = [k \in Index |-> IF x'[y[k]] = k THEN y[k] ELSE None]
    /\ LET prices[i \in 0 .. n] ==
              IF i = 0 THEN v ELSE Transferred(i - 1, prices[i - 1])
       IN  v' = prices[n]
    /\ LET free == {i \in Index : Askers(i) = {}}
       IN  free_rows' = InOrder(free) /\ ret' = Cardinality(free)
    /\ pc' = Phase(ret', 0)
    /\ UNCHANGED <<input, round, carr, next, path, j>>

(***************************************************************************)
(* One turn of _carr_dense: the next free row takes its cheapest column,    *)
(* lowers the price to the second cheapest and evicts the column's row,     *)
(* which is handled at once (price lowered) or in the next round.           *)
(***************************************************************************)
Carr == /\ pc = "carr" /\ carr.current < ret
        /\ LET free_i == free_rows[carr.current]
               current == carr.current + 1
               rr_cnt == carr.rr + 1
               h == Reduced(free_i, v)
               j1 == ArgMin(h, Index)
               j2 == ArgMin(h, Index \ {j1})
               v1_lowers == h[j1] < h[j2]
               early == rr_cnt < current * n
               lower == early /\ v1_lowers
               target == IF early /\ ~v1_lowers /\ y[j1] >= 0 THEN j2 ELSE j1
               i0 == y[target]
           IN  /\ v' = IF lower THEN [v EXCEPT ![j1] = @ - (h[j2] - h[j1])] ELSE v
               /\ x' = [x EXCEPT ![free_i] = target]
               /\ y' = [y EXCEPT ![target] = free_i]
               /\ \/ /\ i0 < 0
                     /\ carr' = [carr EXCEPT !.current = current, !.rr = rr_cnt]
                     /\ UNCHANGED free_rows
                  \/ /\ i0 >= 0 /\ lower
                     /\ carr' = [carr EXCEPT !.rr = rr_cnt]
                     /\ free_rows' = [free_rows EXCEPT ![current - 1] = i0]
                  \/ /\ i0 >= 0 /\ ~lower
                     /\ carr' = [current |-> current, new |-> carr.new + 1, rr |-> rr_cnt]
                     /\ free_rows' = [free_rows EXCEPT ![carr.new] = i0]
        /\ UNCHANGED <<input, pc, ret, round, next, path, j>>

CarrReturn == /\ pc = "carr" /\ carr.current = ret
              /\ ret' = carr.new
              /\ round' = round + 1
              /\ carr' = NoCarr
              /\ pc' = Phase(ret', round')
              /\ UNCHANGED <<input, x, y, v, free_rows, next, path, j>>

-----------------------------------------------------------------------------
\* find_path_dense, from its first line to the first call of _find_dense.
StartPath == /\ pc = "path" /\ path = NoPath
             /\ path' = [NoPath EXCEPT
                           !.cols = [k \in Index |-> k],
                           !.pred = [k \in Index |-> free_rows[next]],
                           !.d = Reduced(free_rows[next], v)]
             /\ UNCHANGED <<input, pc, x, y, v, free_rows, ret, round, carr, next, j>>

Swapped(cols, a, b) == [cols EXCEPT ![a] = cols[b], ![b] = cols[a]]

\* One turn of the loop of _find_dense: a smaller d starts the batch again.
FindTurn(t, k) ==
    LET dk == path.d[t.cols[k]]
        hi == IF dk < t.mind THEN path.lo ELSE t.hi
    IN  IF dk > t.mind THEN t
        ELSE [hi |-> hi + 1, mind |-> dk, cols |-> Swapped(t.cols, k, hi)]

\* _find_dense: moves the columns with the smallest d to positions lo..hi-1.
FindDense ==
    LET turn[k \in path.lo .. n - 1] ==
           IF k = path.lo THEN [hi |-> k + 1, mind |-> path.d[path.cols[k]], cols |-> path.cols]
           ELSE FindTurn(turn[k - 1], k)
    IN  turn[n - 1]

\* The unassigned columns among the ones just found; the loop keeps the last.
Unassigned(t) == {k \in path.lo .. t.hi - 1 : y[t.cols[k]] < 0}

Find == /\ pc = "path" /\ path # NoPath
        /\ LET t == FindDense
           IN  /\ path' = [path EXCEPT !.n_ready = path.lo, !.hi = t.hi, !.cols = t.cols]
               /\ \/ Unassigned(t) = {} /\ pc' = "scan" /\ UNCHANGED j
                  \/ /\ Unassigned(t) # {} /\ pc' = "prices"
                     /\ j' = t.cols[Max(Unassigned(t))]
        /\ UNCHANGED <<input, x, y, v, free_rows, ret, round, carr, next>>

\* The loop of _scan_dense: a column nearer through row i gets a shorter path.
\* At the distance of the scanned column it joins the batch, or is the end.
ScanTurn(t, k) ==
    LET i == y[path.cols[path.lo]]
        mind == path.d[path.cols[path.lo]]
        h == Reduced(i, v)[path.cols[path.lo]] - mind
        c == t.p.cols[k]
        cred == Reduced(i, v)[c] - h
        q == [t.p EXCEPT !.d[c] = cred, !.pred[c] = i]
    IN  IF t.final # None \/ cred >= t.p.d[c] THEN t
        ELSE IF cred # mind THEN [t EXCEPT !.p = q]
        ELSE IF y[c] < 0 THEN [p |-> q, final |-> c]
        ELSE [t EXCEPT !.p = [q EXCEPT !.cols = Swapped(q.cols, k, q.hi), !.hi = @ + 1]]

(***************************************************************************)
(* One turn of _scan_dense: column cols[lo] and its row shorten the paths   *)
(* to the columns not reached yet.  An unassigned column at the distance    *)
(* of the scanned one ends the search in the middle of the loop, leaving    *)
(* the later columns as they are.                                           *)
(***************************************************************************)
ScanDense ==
    LET turn[k \in path.hi - 1 .. n - 1] ==
           IF k = path.hi - 1 THEN [p |-> [path EXCEPT !.lo = @ + 1], final |-> None]
           ELSE ScanTurn(turn[k - 1], k)
    IN  turn[n - 1]

Scan == /\ pc = "scan"
        /\ LET t == ScanDense
           IN  /\ path' = t.p
               /\ \/ t.final # None /\ pc' = "prices" /\ j' = t.final
                  \/ t.final = None /\ UNCHANGED j
                     /\ pc' = IF t.p.lo = t.p.hi THEN "path" ELSE "scan"
        /\ UNCHANGED <<input, x, y, v, free_rows, ret, round, carr, next>>

\* Mutant: the path is augmented and the prices stay.
PricesKept == /\ pc = "prices" /\ pc' = "augment"
              /\ UNCHANGED <<input, x, y, v, free_rows, ret, round, carr, next, path, j>>

\* The end of find_path_dense: the prices of the columns scanned before the
\* last batch.  lo of the caller is still n_ready: _scan_dense returned early.
Prices == /\ pc = "prices"
          /\ LET mind == path.d[path.cols[path.n_ready]]
                 ready == {path.cols[k] : k \in 0 .. path.n_ready - 1}
             IN  v' = [k \in Index |-> IF k \in ready THEN v[k] + path.d[k] - mind ELSE v[k]]
          /\ pc' = "augment"
          /\ UNCHANGED <<input, x, y, free_rows, ret, round, carr, next, path, j>>

\* One turn of the while of _ca_dense: the column goes to its predecessor,
\* whose old column is next; the free row's own turn ends the path.
Augment == /\ pc = "augment"
           /\ LET i == path.pred[j]
              IN  /\ y' = [y EXCEPT ![j] = i]
                  /\ x' = [x EXCEPT ![i] = j]
                  /\ IF i # free_rows[next]
                     THEN j' = x[i] /\ UNCHANGED <<pc, next, path, ret>>
                     ELSE /\ j' = None /\ path' = NoPath
                          /\ next' = IF next + 1 < ret THEN next + 1 ELSE 0
                          /\ ret' = IF next + 1 < ret THEN ret ELSE 0
                          /\ pc' = IF next + 1 < ret THEN "path" ELSE "done"
           /\ UNCHANGED <<input, v, free_rows, round, carr>>

Next == \/ ColumnReduction \/ ReductionTransfer \/ Carr \/ CarrReturn
        \/ StartPath \/ Find \/ Scan \/ Prices \/ Augment

Spec == Init /\ [][Next]_vars /\ WF_vars(Next)

-----------------------------------------------------------------------------
\* What BYTETracker::lapjv returns: a column of the extension means no match.
rowsol == [i \in 0 .. input.rows - 1 |-> IF x[i] >= input.cols THEN None ELSE x[i]]
colsol == [k \in 0 .. input.cols - 1 |-> IF y[k] >= input.rows THEN None ELSE y[k]]

\* The rows that no column belongs to, as far as the phases know.
Pending ==
    CASE pc = "carr" -> {free_rows[k] : k \in 0 .. carr.new - 1}
                            \union {free_rows[k] : k \in carr.current .. ret - 1}
      [] OTHER       -> {free_rows[k] : k \in next .. ret - 1}

PendingCount == CASE pc = "carr" -> carr.new + ret - carr.current
                  [] OTHER       -> ret - next

(***************************************************************************)
(* Between two augmentations x and y describe the same matching, and the    *)
(* rows outside it are exactly the ones still listed in free_rows, each     *)
(* once: _carr_dense reuses the array it is reading.                        *)
(***************************************************************************)
NoRowLost ==
    pc \notin {"ccrrt", "transfer", "augment"} =>
       /\ \A k \in Index : y[k] # None => x[y[k]] = k
       /\ Pending = Index \ {y[k] : k \in Index}
       /\ Cardinality(Pending) = PendingCount

(***************************************************************************)
(* Complementary slackness: whatever column belongs to a row is one of the  *)
(* row's cheapest under the current prices, in every intermediate state.    *)
(***************************************************************************)
PricesSupportMatching ==
    pc \notin {"ccrrt", "transfer"} => \A k \in Index : y[k] # None =>
                       \A l \in Index : Reduced(y[k], v)[k] <= Reduced(y[k], v)[l]

\* The two invariants of the algorithm, which make its result an optimum.
LapjvInv == NoRowLost /\ PricesSupportMatching

\* The partial matchings of tracks and detections and what one costs: its
\* pairs, and half the limit for everything it leaves out.
Matchings ==
    {f \in [0 .. input.rows - 1 -> {None} \union (0 .. input.cols - 1)] :
        \A a, b \in DOMAIN f : a # b /\ f[a] # None => f[a] # f[b]}

Total(f) == LET matched == {i \in DOMAIN f : f[i] # None}
            IN  MapThenSumSet(LAMBDA i : input.c[i][f[i]], matched)
                  + (CostLimit \div 2) * (input.rows + input.cols - 2 * Cardinality(matched))

(***************************************************************************)
(* What BYTETracker::linear_assignment relies on: rowsol is a matching,     *)
(* colsol is its inverse, and no other matching is cheaper when a pair      *)
(* left out costs the limit (so no pair above the limit is ever matched).   *)
(***************************************************************************)
LapjvOptimal ==
    pc = "done" =>
       /\ rowsol \in Matchings
       /\ \A f \in Matchings : Total(rowsol) <= Total(f)
       /\ \A i \in DOMAIN rowsol, k \in DOMAIN colsol : rowsol[i] = k <=> colsol[k] = i
       /\ \A i \in DOMAIN rowsol : rowsol[i] # None => input.c[i][rowsol[i]] <= CostLimit
=============================================================================
