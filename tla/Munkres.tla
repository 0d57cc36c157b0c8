------------------------------- MODULE Munkres -------------------------------
(***************************************************************************)
(* The assignment solver of DeepSORT: linear_assignment::min_cost_matching, *)
(* HungarianOper::Solve and the five steps of Munkres<double>::solve.       *)
(* Rows are tracks and columns detections.  Indices start at 0.             *)
(***************************************************************************)
EXTENDS Integers, FiniteSets, FiniteSetsExt, Sequences

CONSTANTS
    Shapes,       \* <<tracks, detections>> of the matrices to solve
    Costs(_),     \* the costs that occur in a matrix of a shape, NaN included
    max_distance, \* costs above it never match
    NaN           \* the cost of a feature without direction (0/0)

VARIABLES
    input,         \* the matrix of this call: [rows, cols, c]
    step,          \* "solve", "first", "second", "step1" to "step5", "done"
    matrix,        \* the square matrix being reduced
    mask,          \* mask_matrix
    row_mask, col_mask,   \* covered rows and columns
    row,           \* the row step 1 has reached
    seq            \* the path of step 4; its first cell is (saverow, savecol)

vars == <<input, step, matrix, mask, row_mask, col_mask, row, seq>>

size == IF input.rows > input.cols THEN input.rows ELSE input.cols
Index == 0 .. size - 1
Cells == (0 .. input.rows - 1) \X (0 .. input.cols - 1)

(***************************************************************************)
(* min_cost_matching replaces what is above max_distance by a value just    *)
(* above it (the code adds 1e-5, the model one unit, its smallest           *)
(* difference); NaN compares false and stays.                               *)
(***************************************************************************)
Capped(i, k) == LET c == input.c[i][k]
                IN  IF c # NaN /\ c > max_distance THEN max_distance + 1 ELSE c

\* HungarianOper::Solve turns NaN into 0, the cheapest cost there is.
Cost(i, k) == IF Capped(i, k) = NaN THEN 0 ELSE Capped(i, k)

mmax == Max({Cost(p[1], p[2]) : p \in Cells})

\* A rectangular matrix is resized to a square one filled with its maximum.
\* replace_infinites finds nothing to replace: every cost is capped.
Squared == [i \in Index |-> [k \in Index |-> IF <<i, k>> \in Cells THEN Cost(i, k) ELSE mmax]]

\* minimize_along_direction: a line whose smallest value is positive is
\* lowered by it, any other (the loop stops at a value <= 0) is left alone.
LineMin(S) == Max({0, Min(S)})
MinimizeRows(m) == [i \in Index |-> [k \in Index |-> m[i][k] - LineMin({m[i][l] : l \in Index})]]

\* Mutant: a column's minimum is taken over the row of the same number.
MinimizeColumnsByRow(m) ==
    [i \in Index |-> [k \in Index |-> m[i][k] - LineMin({m[k][l] : l \in Index})]]

MinimizeColumns(m) == [i \in Index |-> [k \in Index |-> m[i][k] - LineMin({m[l][k] : l \in Index})]]

None == [i \in Index |-> FALSE]

Init == /\ \E s \in Shapes :
              \E c \in [0 .. s[1] - 1 -> [0 .. s[2] - 1 -> Costs(s)]] :
                 input = [rows |-> s[1], cols |-> s[2], c |-> c]
        /\ step = "solve" /\ matrix = <<>> /\ mask = <<>>
        /\ row_mask = <<>> /\ col_mask = <<>> /\ row = 0 /\ seq = <<>>

-----------------------------------------------------------------------------
\* Munkres::solve up to its loop: resize, then lower the lines of the longer
\* direction first.
Solve == /\ step = "solve" /\ step' = "first"
         /\ matrix' = Squared
         /\ mask' = [i \in Index |-> [k \in Index |-> "normal"]]
         /\ row_mask' = None /\ col_mask' = None
         /\ UNCHANGED <<input, row, seq>>

over_columns == IF step = "first" THEN input.rows >= input.cols ELSE input.rows < input.cols

Minimize == /\ step \in {"first", "second"}
            /\ matrix' = IF over_columns THEN MinimizeColumns(matrix) ELSE MinimizeRows(matrix)
            /\ step' = IF step = "first" THEN "second" ELSE "step1"
            /\ UNCHANGED <<input, mask, row_mask, col_mask, row, seq>>

\* Each row stars its first zero in a column without a star above it.
Step1 == /\ step = "step1"
         /\ LET zeros == {k \in Index : matrix[row][k] = 0
                                 /\ \A l \in 0 .. row - 1 : mask[l][k] # "star"}
            IN  mask' = IF zeros = {} THEN mask ELSE [mask EXCEPT ![row][Min(zeros)] = "star"]
         /\ row' = (row + 1) % size
         /\ step' = IF row + 1 < size THEN "step1" ELSE "step2"
         /\ UNCHANGED <<input, matrix, row_mask, col_mask, seq>>

Stars == {p \in Index \X Index : mask[p[1]][p[2]] = "star"}

Step2 == /\ step = "step2"
         /\ col_mask' = [k \in Index |-> col_mask[k] \/ \E i \in Index : <<i, k>> \in Stars]
         /\ step' = IF Cardinality(Stars) >= size THEN "done" ELSE "step3"
         /\ UNCHANGED <<input, matrix, mask, row_mask, row, seq>>

UncoveredZeros == {p \in Index \X Index : /\ ~row_mask[p[1]] /\ ~col_mask[p[2]]
                                          /\ matrix[p[1]][p[2]] = 0}

\* find_uncovered_in_matrix: the first one, row by row.
FirstOf(S) == CHOOSE p \in S : \A q \in S : p[1] < q[1] \/ (p[1] = q[1] /\ p[2] <= q[2])

Step3 == /\ step = "step3"
         /\ IF UncoveredZeros = {} THEN step' = "step5" /\ UNCHANGED <<mask, row_mask, col_mask, seq>>
            ELSE LET p == FirstOf(UncoveredZeros)
                     m == [mask EXCEPT ![p[1]][p[2]] = "prime"]
                     starred == {k \in Index : m[p[1]][k] = "star"}
                 IN  /\ mask' = m
                     /\ \/ /\ starred # {} /\ step' = "step3" /\ UNCHANGED seq
                           /\ row_mask' = [row_mask EXCEPT ![p[1]] = TRUE]
                           /\ col_mask' = [col_mask EXCEPT ![Min(starred)] = FALSE]
                        \/ starred = {} /\ step' = "step4" /\ seq' = <<p>> /\ UNCHANGED <<row_mask, col_mask>>
         /\ UNCHANGED <<input, matrix, row>>

(***************************************************************************)
(* Step 4 follows the alternating path from the last primed zero: a star in *)
(* its column, a prime in that star's row, and so on, never a cell twice.   *)
(***************************************************************************)
Continuations ==
    LET last == seq[Len(seq)]
        wanted == IF Len(seq) % 2 = 1 THEN "star" ELSE "prime"
        dim == IF wanted = "star" THEN 2 ELSE 1
    IN  {p \in Index \X Index : /\ p[dim] = last[dim] /\ mask[p[1]][p[2]] = wanted
                                /\ \A i \in DOMAIN seq : seq[i] # p}

Step4Extend == /\ step = "step4" /\ Continuations # {}
               /\ seq' = Append(seq, FirstOf(Continuations))
               /\ UNCHANGED <<input, step, matrix, mask, row_mask, col_mask, row>>

\* Mutant: the primes of the path are dropped with all the others.
Step4FlipForgets ==
    /\ step = "step4" /\ Continuations = {} /\ step' = "step2"
    /\ mask' = [i \in Index |-> [k \in Index |->
                  IF mask[i][k] = "prime" \/ \E l \in DOMAIN seq : seq[l] = <<i, k>>
                  THEN "normal" ELSE mask[i][k]]]
    /\ row_mask' = None /\ col_mask' = None
    /\ seq' = <<>>
    /\ UNCHANGED <<input, matrix, row>>

\* At its end stars and primes on it change places, all other primes and the
\* covers are forgotten.
Step4Flip == /\ step = "step4" /\ Continuations = {} /\ step' = "step2"
             /\ mask' = [i \in Index |-> [k \in Index |->
                           IF \E l \in DOMAIN seq : seq[l] = <<i, k>>
                           THEN (IF mask[i][k] = "prime" THEN "star" ELSE "normal")
                           ELSE (IF mask[i][k] = "prime" THEN "normal" ELSE mask[i][k])]]
             /\ row_mask' = None /\ col_mask' = None
             /\ seq' = <<>>
             /\ UNCHANGED <<input, matrix, row>>

\* The smallest uncovered value is added to covered rows and subtracted from
\* uncovered columns; 100000 is the code's start value.
Step5 == /\ step = "step5" /\ step' = "step3"
         /\ LET h == Min({100000} \union {matrix[p[1]][p[2]] : p \in
                            {q \in Index \X Index : /\ ~row_mask[q[1]] /\ ~col_mask[q[2]]
                                                    /\ matrix[q[1]][q[2]] # 0}})
            IN  matrix' = [i \in Index |-> [k \in Index |->
                             matrix[i][k] + (IF row_mask[i] THEN h ELSE 0)
                                          - (IF col_mask[k] THEN 0 ELSE h)]]
         /\ UNCHANGED <<input, mask, row_mask, col_mask, row, seq>>

Next == Solve \/ Minimize \/ Step1 \/ Step2 \/ Step3 \/ Step4Extend \/ Step4Flip \/ Step5

Spec == Init /\ [][Next]_vars /\ WF_vars(Next)

\* What Solve returns and what min_cost_matching keeps of it.
Pairs == Stars \intersect Cells
matches == {p \in Pairs : LET c == Capped(p[1], p[2]) IN c = NaN \/ c <= max_distance}

-----------------------------------------------------------------------------
\* The largest matchings of a matrix and their cost, without the padding.
FullMatchings ==
    {S \in kSubset(IF input.rows < input.cols THEN input.rows ELSE input.cols, Cells) :
        \A p, q \in S : p # q => p[1] # q[1] /\ p[2] # q[2]}

TotalCost(S) == MapThenSumSet(LAMBDA p : Cost(p[1], p[2]), S)

\* Rounding may leave the distance of two equal features just below zero, one
\* unit of the model; the solver may be off by that much for each of them.
Rounding == Cardinality({p \in Cells : Cost(p[1], p[2]) < 0})

(***************************************************************************)
(* What tracker::_match relies on: the solver returns a largest matching    *)
(* and no other one is cheaper, whatever the padding of a rectangular       *)
(* matrix and the repairs of stars along alternating paths do; costs below  *)
(* zero, which minimize_along_direction does not reduce, spoil the optimum  *)
(* by no more than the rounding that made them.  No kept pair has a cost    *)
(* above max_distance; a NaN one is kept.                                   *)
(***************************************************************************)
MunkresOptimal ==
    step = "done" => /\ Pairs \in FullMatchings
                /\ \A S \in FullMatchings : TotalCost(Pairs) <= TotalCost(S) + Rounding
                /\ \A p \in matches : Cost(p[1], p[2]) <= max_distance
=============================================================================
