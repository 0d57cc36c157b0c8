------------------------------ MODULE PostProcess ------------------------------
(***************************************************************************)
(* post_process of postprocess.cc: the network outputs of one frame become  *)
(* a group of results.  Every inference worker runs it on its own frame;    *)
(* the label table and the flag that says it is loaded are static and       *)
(* shared.  Plain loads and stores of the two are taken to happen in        *)
(* program order.  Arrays start at 1 and 0 stands for the code's -1 in the  *)
(* index array.                                                             *)
(***************************************************************************)
EXTENDS Integers, FiniteSets, FiniteSetsExt, Sequences, Selection

CONSTANTS
    Workers,        \* threads of the pool
    Inputs,         \* network outputs of the workers' frames, see Heads
    ClassNum,       \* OBJ_CLASS_NUM
    LabelFiles,     \* numbers of lines a label file may have, 0 if it cannot be opened
    ConfThreshold,  \* conf_threshold in dequantised units
    NmsThreshold,   \* nms_threshold in percent
    MaxResults,     \* OBJ_NUMB_MAX_SIZE
    ModelSize,      \* model_in_w = model_in_h
    Pads,           \* [left, top] of the letterbox
    Scale           \* scale_w = scale_h = Scale[1] / Scale[2]

Classes == 1 .. ClassNum

(***************************************************************************)
(* The outputs of a frame are three heads with their own quantisation; a    *)
(* head is a sequence of cells in the order process() visits them, a cell a *)
(* quantised confidence, one quantised score per class and the box its      *)
(* coordinates stand for, possibly outside the picture.                     *)
(***************************************************************************)
Heads ==
    LET box == [x : Int, y : Int, w : Int, h : Int]
        cell == [conf : Int, probs : [Classes -> Int], box : box]
    IN  [1 .. 3 -> [zp : Int, scale : Nat \ {0}, cells : Seq(cell)]]

ASSUME PostProcessAssumption ==
    /\ ClassNum \in Nat \ {0} /\ LabelFiles \subseteq Nat /\ MaxResults \in Nat \ {0}
    /\ ConfThreshold \in Int /\ NmsThreshold \in 0 .. 100 /\ ModelSize \in Nat
    /\ Scale[1] \in Nat \ {0} /\ Scale[2] \in Nat \ {0}
    /\ Pads \in [left : Int, top : Int]
    /\ Inputs \subseteq [Workers -> Heads]

VARIABLES
    lines,      \* lines of the label file of this run
    init,       \* the static flag: -1 until some worker has loaded the labels
    labels,     \* per class, whether its pointer is set
    job         \* per worker, its position in the code and its locals

vars == <<lines, init, labels, job>>

deqnt_affine_to_f32(q, head) == (q - head.zp) * head.scale

\* Division that truncates towards zero, as a conversion to integer does.
Truncated(a, b) == IF a >= 0 THEN a \div b ELSE -((-a) \div b)

\* qnt_f32_to_affine of the threshold: rounded towards zero, clipped to int8.
thres_i8(head) == LET q == Truncated(ConfThreshold + head.zp * head.scale, head.scale)
                  IN  IF q < -128 THEN -128 ELSE IF q > 127 THEN 127 ELSE q

\* The first class with the highest score.
maxClassId(cell) == Min({c \in Classes : \A d \in Classes : cell.probs[d] <= cell.probs[c]})

IsValid(cell, head) ==
    cell.conf >= thres_i8(head) /\ cell.probs[maxClassId(cell)] > thres_i8(head)

\* process() on one head: what its cells add to filterBoxes, objProbs, classId.
process(head) ==
    LET valid == {i \in DOMAIN head.cells : IsValid(head.cells[i], head)}
        Candidate(cell) ==
            [box |-> cell.box, class |-> maxClassId(cell),
             prob |-> deqnt_affine_to_f32(cell.probs[maxClassId(cell)], head)
                        * deqnt_affine_to_f32(cell.conf, head)]
        cells == Selected(head.cells, valid)
    IN  [i \in DOMAIN cells |-> Candidate(cells[i])]

NoRange == [left |-> 0, right |-> 0, low |-> 0, high |-> 0, key |-> 0, index |-> 0]

Idle(heads) == [pc |-> "enter", heads |-> heads, line |-> 0, dets |-> <<>>, probs |-> <<>>,
                order |-> <<>>, ranges |-> <<>>, range |-> NoRange, left |-> {}, group |-> <<>>]

Init == /\ lines \in LabelFiles
        /\ init = -1
        /\ labels = [c \in Classes |-> FALSE]
        /\ \E heads \in Inputs : job = [w \in Workers |-> Idle(heads[w])]

Become(w, pc) == job' = [job EXCEPT ![w].pc = pc]

-----------------------------------------------------------------------------
\* The test of the static flag on entry, and the call of loadLabelName.
Enter(w) == /\ job[w].pc = "enter"
            /\ Become(w, IF init = -1 THEN "load" ELSE "decode")
            /\ UNCHANGED <<lines, init, labels>>

\* Mutant: the flag is set before the table is read.
LoadLabelEarly(w) == /\ job[w].pc = "load"
                     /\ job[w].line < lines /\ job[w].line < ClassNum
                     /\ labels' = [labels EXCEPT ![job[w].line + 1] = TRUE]
                     /\ job' = [job EXCEPT ![w].line = @ + 1]
                     /\ init' = 0
                     /\ UNCHANGED lines

\* One turn of readLines: one more label while the file and the table last.
LoadLabel(w) == /\ job[w].pc = "load"
                /\ job[w].line < lines /\ job[w].line < ClassNum
                /\ labels' = [labels EXCEPT ![job[w].line + 1] = TRUE]
                /\ job' = [job EXCEPT ![w].line = @ + 1]
                /\ UNCHANGED <<lines, init>>

\* loadLabelName returns 0 however many lines there were.
Loaded(w) == /\ job[w].pc = "load"
             /\ job[w].line >= lines \/ job[w].line >= ClassNum
             /\ init' = 0
             /\ Become(w, "decode")
             /\ UNCHANGED <<lines, labels>>

\* Decoding of the three heads; without a candidate the group stays empty.
Decode(w) ==
    /\ job[w].pc = "decode"
    /\ LET heads == job[w].heads
           dets == process(heads[1]) \o process(heads[2]) \o process(heads[3])
           n == Len(dets)
       IN  job' = [job EXCEPT ![w] =
              IF n = 0 THEN [@ EXCEPT !.pc = "done"]
              ELSE [@ EXCEPT !.pc = "sort", !.dets = dets,
                             !.probs = [i \in 1 .. n |-> dets[i].prob],
                             !.order = [i \in 1 .. n |-> i],
                             !.ranges = <<<<1, n>>>>]]
    /\ UNCHANGED <<lines, init, labels>>

(***************************************************************************)
(* quick_sort_indice_inverse on the next range of its recursion.  The key   *)
(* and its index are taken out of the left end; each round moves a larger   *)
(* value from the right and a smaller one from the left.                    *)
(***************************************************************************)
SortCall(w) ==
    /\ job[w].pc = "sort" /\ job[w].range = NoRange /\ job[w].ranges # <<>>
    /\ LET r == Head(job[w].ranges)
       IN  job' = [job EXCEPT ![w].ranges = Tail(@),
                              ![w].range = IF r[1] >= r[2] THEN NoRange
                                 ELSE [left |-> r[1], right |-> r[2], low |-> r[1], high |-> r[2],
                                       key |-> job[w].probs[r[1]], index |-> job[w].order[r[1]]]]
    /\ UNCHANGED <<lines, init, labels>>

Moved(a, from, to) == [a EXCEPT ![to] = a[from]]

SortRound(w) ==
    LET r == job[w].range
        p == job[w].probs
        high == Max({r.low} \union {h \in r.low + 1 .. r.high : p[h] > r.key})
        p1 == Moved(p, high, r.low)
        low == Min({high} \union {l \in r.low .. high - 1 : p1[l] < r.key})
    IN  /\ job[w].pc = "sort" /\ r.low < r.high
        /\ job' = [job EXCEPT
              ![w].probs = Moved(p1, low, high),
              ![w].order = Moved(Moved(@, high, r.low), low, high),
              ![w].range = [r EXCEPT !.low = low, !.high = high]]
        /\ UNCHANGED <<lines, init, labels>>

\* Mutant: the key is put back without its index.
SortPlaceKeyOnly(w) ==
    LET r == job[w].range
    IN  /\ job[w].pc = "sort" /\ r # NoRange /\ r.low = r.high
        /\ job' = [job EXCEPT
              ![w].probs[r.low] = r.key,
              ![w].range = NoRange,
              ![w].ranges = <<<<r.left, r.low - 1>>, <<r.low + 1, r.right>>>> \o @]
        /\ UNCHANGED <<lines, init, labels>>

\* The key goes into the hole that is left; then the two parts are sorted.
SortPlace(w) ==
    LET r == job[w].range
    IN  /\ job[w].pc = "sort" /\ r # NoRange /\ r.low = r.high
        /\ job' = [job EXCEPT
              ![w].probs[r.low] = r.key,
              ![w].order[r.low] = r.index,
              ![w].range = NoRange,
              ![w].ranges = <<<<r.left, r.low - 1>>, <<r.low + 1, r.right>>>> \o @]
        /\ UNCHANGED <<lines, init, labels>>

Sorted(w) == /\ job[w].pc = "sort" /\ job[w].range = NoRange /\ job[w].ranges = <<>>
             /\ job' = [job EXCEPT ![w].pc = "nms", ![w].left = DOMAIN job[w].dets]
             /\ UNCHANGED <<lines, init, labels>>

-----------------------------------------------------------------------------
\* CalculateOverlap compared with the threshold: corners are inclusive.
Side(a0, a1, b0, b1) == LET s == Min({a1, b1}) - Max({a0, b0}) + 1 IN IF s > 0 THEN s ELSE 0

Overlap(a, b) ==
    LET i == Side(a.x, a.x + a.w, b.x, b.x + b.w) * Side(a.y, a.y + a.h, b.y, b.y + b.h)
        u == (a.w + 1) * (a.h + 1) + (b.w + 1) * (b.h + 1) - i
    IN  u > 0 /\ 100 * i > NmsThreshold * u

(***************************************************************************)
(* One position of nms().  A pass per class, in increasing order, visits    *)
(* the positions i with classIds[i] = the class; classIds is in the order   *)
(* of decoding and position i holds another box after the sort, so it is    *)
(* not the class of the box that decides when the position is visited.      *)
(***************************************************************************)
NextPosition(w) ==
    CHOOSE i \in job[w].left : \A k \in job[w].left :
       \/ job[w].dets[i].class < job[w].dets[k].class
       \/ job[w].dets[i].class = job[w].dets[k].class /\ i <= k

\* Mutant: the comparison starts one position late.
SuppressedLate(w, i) ==
    LET d == job[w].dets
        o == job[w].order
    IN  [k \in DOMAIN o |->
           IF o[i] # 0 /\ k > i + 1 /\ o[k] # 0 /\ Overlap(d[o[i]].box, d[o[k]].box)
           THEN 0 ELSE o[k]]

\* The box at position i suppresses every later one it overlaps.
Suppressed(w, i) ==
    LET d == job[w].dets
        o == job[w].order
    IN  [k \in DOMAIN o |->
           IF o[i] # 0 /\ k > i /\ o[k] # 0 /\ Overlap(d[o[i]].box, d[o[k]].box)
           THEN 0 ELSE o[k]]

nms(w) == /\ job[w].pc = "nms" /\ job[w].left # {}
          /\ LET i == NextPosition(w)
             IN  job' = [job EXCEPT ![w].order = Suppressed(w, i), ![w].left = @ \ {i}]
          /\ UNCHANGED <<lines, init, labels>>

\* After the last pass `left` holds the positions that become results.
NmsDone(w) == /\ job[w].pc = "nms" /\ job[w].left = {}
              /\ job' = [job EXCEPT ![w].pc = "emit",
                           ![w].left = {i \in DOMAIN job[w].order : job[w].order[i] # 0}]
              /\ UNCHANGED <<lines, init, labels>>

-----------------------------------------------------------------------------
\* clamp() to the model's picture, then back to the camera's by the scale.
Coordinate(v) == ((IF v > 0 THEN (IF v < ModelSize THEN v ELSE ModelSize) ELSE 0)
                    * Scale[2]) \div Scale[1]

\* One result; `src` records which candidate it is.  strncpy from a label
\* that was never loaded ends the process.
Emit(w) ==
    /\ job[w].pc = "emit" /\ job[w].left # {} /\ Len(job[w].group) < MaxResults
    /\ LET i == Min(job[w].left)
           n == job[w].order[i]
           b == job[w].dets[n].box
           x1 == b.x - Pads.left
           y1 == b.y - Pads.top
           g == job[w].group
           result == [src |-> n, class |-> job[w].dets[n].class, prop |-> job[w].probs[i],
                      left |-> Coordinate(x1), top |-> Coordinate(y1),
                      right |-> Coordinate(x1 + b.w), bottom |-> Coordinate(y1 + b.h)]
       IN  job' = [job EXCEPT ![w] =
              IF labels[result.class]
              THEN [@ EXCEPT !.group = Append(g, result), !.left = job[w].left \ {i}]
              ELSE [@ EXCEPT !.pc = "crashed"]]
    /\ UNCHANGED <<lines, init, labels>>

Done(w) == /\ job[w].pc = "emit" /\ (job[w].left = {} \/ Len(job[w].group) = MaxResults)
           /\ Become(w, "done")
           /\ UNCHANGED <<lines, init, labels>>

Step(w) == \/ Enter(w) \/ LoadLabel(w) \/ Loaded(w) \/ Decode(w)
           \/ SortCall(w) \/ SortRound(w) \/ SortPlace(w) \/ Sorted(w)
           \/ nms(w) \/ NmsDone(w) \/ Emit(w) \/ Done(w)

Next == \E w \in Workers : Step(w)

Spec == Init /\ [][Next]_vars

-----------------------------------------------------------------------------
(***************************************************************************)
(* Two workers that make their first calls at the same time never meet a    *)
(* label that is still unset: a process that dies in strncpy has a label    *)
(* file without a line for the class.                                       *)
(***************************************************************************)
LabelsReadyForAll ==
    \A w \in Workers : job[w].pc = "crashed" =>
       job[w].dets[job[w].order[Min(job[w].left)]].class > lines

\* The positions of the index array that survived, once suppression is over.
Kept(w) == {job[w].group[i].src : i \in DOMAIN job[w].group}

(***************************************************************************)
(* Suppression, although it visits the positions in an order that mixes     *)
(* the classes of other boxes: no two results overlap, whatever their       *)
(* classes, and a candidate is missing only if the group is full or a       *)
(* candidate with at least its score overlaps it.                           *)
(***************************************************************************)
NonMaximumSuppressed ==
    \A w \in Workers : job[w].pc = "done" =>
       LET d == job[w].dets
       IN  /\ \A a, b \in Kept(w) : a # b => ~Overlap(d[a].box, d[b].box)
           /\ \A n \in DOMAIN d \ Kept(w) :
                 \/ Len(job[w].group) = MaxResults
                 \/ \E m \in DOMAIN d \ {n} :
                       d[m].prob >= d[n].prob /\ Overlap(d[m].box, d[n].box)

(***************************************************************************)
(* The sort moves scores and indices together: every result carries the     *)
(* score and class of its own box, results are in descending order, none    *)
(* occurs twice, and a group that is full holds the best of the survivors.  *)
(***************************************************************************)
ResultsAreRanked ==
    \A w \in Workers :
       LET g == job[w].group
           d == job[w].dets
       IN  /\ \A i \in DOMAIN g : g[i].prop = d[g[i].src].prob /\ g[i].class = d[g[i].src].class
           /\ \A i, k \in DOMAIN g : i < k => g[i].prop >= g[k].prop /\ g[i].src # g[k].src
           /\ job[w].pc = "emit" =>
                 \A p \in job[w].left : \A i \in DOMAIN g : job[w].probs[p] <= g[i].prop
=============================================================================
