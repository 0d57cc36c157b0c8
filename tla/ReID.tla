--------------------------------- MODULE ReID ---------------------------------
(***************************************************************************)
(* The appearance features of DeepSORT's detections: DeepSort::sort splits  *)
(* them into halves, two threads run FeatureTensor::getRectsFeature with a  *)
(* network of their own, and the features are copied back by position.      *)
(* A feature is identified by the detection whose crop it was computed of.  *)
(***************************************************************************)
EXTENDS Integers, Sequences, Selection

CONSTANTS
    Rows, Cols,    \* size of the camera's picture
    MaxFailures,   \* bound: rknn_run fails at most so often
    Nothing        \* a feature or a pointer that was never set

VARIABLES
    dets,          \* detections of this call: [id, left, top, right, bottom]
    feature,       \* per detection, the id of what its feature was computed of
    ext,           \* per extractor: pc, the first and last index of its part,
                   \* the crops still to run, the next feature to write and the
                   \* content of _output_buff
    failures,      \* failed runs so far
    missed,        \* ids of the detections of this call whose run failed
    crashed        \* read through an unset _output_buff

vars == <<dets, feature, ext, failures, missed, crashed>>

Extractors == {1, 2}

Off(out) == [pc |-> "off", first |-> 1, last |-> 0, crops |-> <<>>, pos |-> 0, out |-> out]

\* rknn_fp::rknn_fp, one network per extractor: any error on the way ends the
\* process, and _output_buff is left as it is.
Init == /\ dets = <<>> /\ feature = <<>>
        /\ ext = [e \in Extractors |-> Off(Nothing)]
        /\ failures = 0 /\ missed = {} /\ crashed = FALSE

Truncated(a, b) == IF a >= 0 THEN a \div b ELSE -((-a) \div b)

(***************************************************************************)
(* The crop of a box: as wide as half its height, centred on it, clipped to *)
(* the picture; conversions to integer truncate.  An empty one is skipped.  *)
(***************************************************************************)
IsCropped(d) ==
    LET w == d.right - d.left
        h == d.bottom - d.top
        x0 == Truncated(4 * d.left - h + 2 * w, 4)
        x == IF x0 >= 0 THEN x0 ELSE 0
        y == IF d.top >= 0 THEN d.top ELSE 0
        width == IF x + h \div 2 <= Cols THEN h \div 2 ELSE Cols - x
        height == IF y + h <= Rows THEN h ELSE Rows - y
    IN  width > 0 /\ height > 0

Idle == \A e \in Extractors : ext[e].pc = "off"

\* border = numOfDetections >> 1; a single detection is one extractor's.
Halves(n) == IF n < 2 THEN [e \in Extractors |-> IF e = 1 THEN <<1, n>> ELSE <<1, 0>>]
             ELSE [e \in Extractors |-> IF e = 1 THEN <<1, n \div 2>> ELSE <<n \div 2 + 1, n>>]

\* DeepSort::sort up to the start of the threads.
Sort(boxes) ==
    /\ Idle
    /\ dets' = boxes
    /\ feature' = [i \in DOMAIN boxes |-> Nothing]
    /\ ext' = [e \in Extractors |->
                 LET part == Halves(Len(boxes))[e]
                 IN  [Off(ext[e].out) EXCEPT !.first = part[1], !.last = part[2],
                        !.pc = IF part[1] <= part[2] THEN "crop" ELSE "off"]]
    /\ missed' = {}
    /\ UNCHANGED <<failures, crashed>>

\* The detections of an extractor whose crop is not empty, in order.
Crops(e) == Selected(dets, {i \in ext[e].first .. ext[e].last : IsCropped(dets[i])})

\* Mutant: the second part is copied back from its start.
CropFromStart(e) ==
    /\ ext[e].pc = "crop"
    /\ ext' = [ext EXCEPT ![e].pc = "infer", ![e].pos = 1, ![e].crops = Crops(e)]
    /\ UNCHANGED <<dets, feature, failures, missed, crashed>>

\* getRectsFeature up to the call of doInference.
Crop(e) ==
    /\ ext[e].pc = "crop"
    /\ ext' = [ext EXCEPT ![e].pc = "infer", ![e].pos = ext[e].first, ![e].crops = Crops(e)]
    /\ UNCHANGED <<dets, feature, failures, missed, crashed>>

(***************************************************************************)
(* One turn of doInference: the k-th crop's output goes to the k-th         *)
(* detection of the part.  A failed run is not noticed: _output_buff still  *)
(* shows the last output, and points nowhere before the first one.          *)
(***************************************************************************)
Write(e, out) == /\ feature' = [feature EXCEPT ![ext[e].pos] = out]
                 /\ ext' = [ext EXCEPT ![e].pos = @ + 1, ![e].crops = Tail(@), ![e].out = out]

Infer(e) == /\ ext[e].pc = "infer" /\ ext[e].crops # <<>> /\ ~crashed
            /\ Write(e, Head(ext[e].crops).id)
            /\ UNCHANGED <<dets, failures, missed, crashed>>

InferFails(e) == /\ ext[e].pc = "infer" /\ ext[e].crops # <<>> /\ ~crashed
                 /\ failures < MaxFailures
                 /\ failures' = failures + 1
                 /\ missed' = missed \union {Head(ext[e].crops).id}
                 /\ Write(e, ext[e].out)
                 /\ crashed' \in {FALSE, ext[e].out = Nothing}
                 /\ UNCHANGED dets

Finish(e) == /\ ext[e].pc = "infer" /\ ext[e].crops = <<>>
             /\ ext' = [ext EXCEPT ![e] = Off(ext[e].out)]
             /\ UNCHANGED <<dets, feature, failures, missed, crashed>>

Thread(e) == Crop(e) \/ Infer(e) \/ InferFails(e) \/ Finish(e)

-----------------------------------------------------------------------------
\* The detections of the same extractor up to the i-th.
PartUpTo(i) == LET h == Halves(Len(dets))
                   e == IF i <= h[1][2] THEN 1 ELSE 2
               IN  h[e][1] .. i

(***************************************************************************)
(* When the threads have joined, a detection has the feature of its own     *)
(* crop, whatever the order the two networks ran in, unless its run failed  *)
(* or a box before it in its half (or itself) has an empty crop: only then  *)
(* the features of that half have moved up or are missing.                  *)
(***************************************************************************)
OwnFeature ==
    Idle => \A i \in DOMAIN dets :
              \/ feature[i] = dets[i].id
              \/ dets[i].id \in missed
              \/ \E k \in PartUpTo(i) : ~IsCropped(dets[k])
=============================================================================
