------------------------------ MODULE Assignment ------------------------------
(***************************************************************************)
(* One association of a frame: the tracker that the configuration chose     *)
(* builds a cost matrix of tracks and detections and calls its own solver.  *)
(***************************************************************************)
EXTENDS Lapjv

CONSTANT NaN     \* see Munkres

ASSUME NaNAssumption == NaN \notin Int
ASSUME CostsAssumption == \A s \in Shapes : Costs(s) \subseteq Int \union {NaN}

VARIABLES
    solver,     \* "lapjv" for ByteTrack, "munkres" for DeepSORT
    step, matrix, mask, row_mask, col_mask, row, seq   \* the state of Munkres

lapjvVars == <<pc, x, y, v, free_rows, ret, round, carr, next, path, j>>
munkresVars == <<step, matrix, mask, row_mask, col_mask, row, seq>>
allVars == <<vars, solver, munkresVars>>

M == INSTANCE Munkres WITH max_distance <- CostLimit, NaN <- NaN

\* A cost of ByteTrack is 1 - IOU, which is never NaN and never below zero.
IsIouCost == \A i \in DOMAIN input.c, k \in 0 .. input.cols - 1 :
                input.c[i][k] # NaN /\ input.c[i][k] >= 0

AssignmentInit == /\ Init /\ M!Init
                  /\ solver \in {"lapjv", "munkres"}
                  /\ solver = "lapjv" => IsIouCost

Solved == IF solver = "lapjv" THEN pc = "done" ELSE step = "done"

Lapjv == solver = "lapjv" /\ Next /\ UNCHANGED <<solver, munkresVars>>
Munkres == solver = "munkres" /\ M!Next /\ UNCHANGED <<solver, lapjvVars>>
Return == Solved /\ UNCHANGED allVars

AssignmentNext == Lapjv \/ Munkres \/ Return

\* The calling thread runs on: unless the call has returned, it takes another
\* step (weak fairness of AssignmentNext, which a running solver enables).
Runs == []<><<AssignmentNext>>_allVars \/ <>[]Solved

AssignmentSpec == AssignmentInit /\ [][AssignmentNext]_allVars /\ Runs

(***************************************************************************)
(* DeepSORT's matching is a cheapest one, on rectangular matrices, with     *)
(* costs that rounding left below zero (which minimize_along_direction does *)
(* not reduce) and with NaN.                                                *)
(***************************************************************************)
MunkresOptimal == solver = "munkres" => M!MunkresOptimal

(***************************************************************************)
(* Both solvers return: neither the reinsertion of evicted rows in          *)
(* _carr_dense, nor the path searches, nor the cycle of steps 3, 4 and 5 of *)
(* Munkres can go on for ever and hold the frame.                           *)
(***************************************************************************)
SolverReturns == <>Solved
=============================================================================
