------------------------------- MODULE Detection -------------------------------
(***************************************************************************)
(* From the network outputs to DeepSORT's input: the pool's workers run     *)
(* post_process on one frame each, and the stream's thread hands their      *)
(* groups, in frame order, to DeepSortWrapper::Update (with ReID in every   *)
(* frame) while later frames are still being processed.                     *)
(***************************************************************************)
EXTENDS PostProcess

CONSTANTS MaxFailures, Nothing

VARIABLES
    frame,      \* the frame whose group the stream's thread takes next
    dets, feature, ext, failures, missed, crashed    \* see ReID

CameraSize == (ModelSize * Scale[2]) \div Scale[1]

R == INSTANCE ReID WITH Rows <- CameraSize, Cols <- CameraSize

reidVars == <<dets, feature, ext, failures, missed, crashed>>
allVars == <<vars, frame, reidVars>>

DetectionInit == Init /\ R!Init /\ frame = 1

\* Update drops results whose box has become empty.
HasArea(r) == r.right > r.left /\ r.bottom > r.top

Boxes(f) ==
    LET all == job[f].group
        g == Selected(all, {i \in DOMAIN all : HasArea(all[i])})
    IN  [i \in DOMAIN g |-> [id |-> <<f, g[i].src>>, left |-> g[i].left, top |-> g[i].top,
                             right |-> g[i].right, bottom |-> g[i].bottom]]

\* A group without a usable box goes to sort_interval, which runs no network.
Update == /\ frame \in Workers /\ job[frame].pc = "done" /\ ~crashed
          /\ R!Idle
          /\ IF Boxes(frame) = <<>> THEN UNCHANGED reidVars ELSE R!Sort(Boxes(frame))
          /\ frame' = frame + 1
          /\ UNCHANGED vars

Alive == ~crashed /\ \A w \in Workers : job[w].pc # "crashed"

Worker == \E w \in Workers : Step(w) /\ UNCHANGED <<frame, reidVars>>
Network == \E e \in R!Extractors : R!Thread(e) /\ UNCHANGED <<vars, frame>>

\* The frames of the model are through, or the process has died.
Rest == /\ ~Alive \/ (frame \notin Workers /\ R!Idle)
        /\ UNCHANGED allVars

DetectionNext == (Alive /\ (Worker \/ Update \/ Network)) \/ Rest

DetectionSpec == DetectionInit /\ [][DetectionNext]_allVars

(***************************************************************************)
(* featuretensor.cpp 27-52, deepsort.cpp 108-134: in the frames of a stream *)
(* every detection gets the feature of its own crop, unless its run failed  *)
(* or an empty crop in its half shifted the features (see ReID).            *)
(***************************************************************************)
OwnFeature == R!OwnFeature
=============================================================================
