------------------------------ MODULE DeepSort ------------------------------
(***************************************************************************)
(* DeepSortWrapper::Update and the tracker below it (src/src/deepsort):    *)
(* the life of a Track (track.cpp), what association may match             *)
(* (tracker.cpp, linear_assignment.cpp), the feature gallery               *)
(* (nn_matching.cpp), and which identities are drawn.                      *)
(*                                                                         *)
(* The re-identification network runs in one frame out of ReidInterval; in *)
(* the others, and whenever nothing was detected, tracks are only          *)
(* predicted.  Boxes, Kalman states and costs are abstracted to their      *)
(* outcome: how many detections there are and which candidates they match. *)
(* A feature vector is identified by the frame it was computed in.         *)
(***************************************************************************)
EXTENDS Naturals, Sequences, FiniteSets

CONSTANTS
    MaxAge,             \* tracker::max_age
    NInit,              \* tracker::n_init
    Budget,             \* NearNeighborDisMetric::budget
    ReidInterval,       \* reid_interval_, at least 1
    MaxFrames,          \* bound: frames
    MaxDets,            \* bound: detections per frame
    MaxId               \* bound: identities handed out

ASSUME DeepSortAssumption ==
    /\ MaxAge \in Nat \ {0} /\ NInit \in Nat \ {0}
    /\ Budget \in Nat /\ Budget >= 2 /\ NInit <= Budget
    /\ ReidInterval \in Nat \ {0}
    /\ MaxFrames \in Nat /\ MaxDets \in Nat /\ MaxId \in Nat

VARIABLES
    frame_count_,
    tracks,             \* tracker::tracks; seen: frame of the last match
    next_idx,           \* tracker::_next_idx
    samples,            \* gallery: features of every target, oldest first
    output,             \* identities drawn, or the raw detections
    sorted,             \* newest frame with an association (0: none)
    steady              \* frames in a row that lost no possible match

vars == <<frame_count_, tracks, next_idx, samples, output, sorted, steady>>

Init ==
    /\ frame_count_ = 0 /\ tracks = {} /\ next_idx = 1
    /\ samples = [id \in {} |-> <<>>]
    /\ output = [ids |-> {}, raw |-> FALSE]
    /\ sorted = 0 /\ steady = 0

Ids(ts) == {t.track_id : t \in ts}

Confirmed(ts) == {t \in ts : t.state = "Confirmed"}

-----------------------------------------------------------------------------
(* Track *)

(* _initiate_track and the constructor *)
NewTrack(id, now) ==
    [track_id |-> id, hits |-> 1, time_since_update |-> 0, state |-> "Tentative",
     features |-> <<now>>, seen |-> now]

\* Mutant: the prediction does not age the track.
PreditAgeless(t) == t

predit(t) == [t EXCEPT !.time_since_update = @ + 1]

(* Track::update: one more feature and hit; n_init hits confirm. *)
TrackUpdate(t, now) ==
    [t EXCEPT !.hits = @ + 1, !.time_since_update = 0,
              !.features = Append(@, now), !.seen = now,
              !.state = IF @ = "Tentative" /\ t.hits + 1 >= NInit
                        THEN "Confirmed" ELSE @]

\* Mutant: a tentative track survives a miss.
MarkMissedLate(t) ==
    [t EXCEPT !.state = IF t.time_since_update > MaxAge THEN "Deleted" ELSE @]

mark_missed(t) ==
    [t EXCEPT !.state = IF @ = "Tentative" \/ t.time_since_update > MaxAge
                        THEN "Deleted" ELSE @]

-----------------------------------------------------------------------------
(* Association and gallery *)

(* matching_cascade: the confirmed tracks, one level for each              *)
(* time_since_update in 1 .. max_age; the gated metric decides.            *)
CascadeCandidates(ts) == {t \in Confirmed(ts) : t.time_since_update \in 1 .. MaxAge}

\* Mutant: the IOU round skips the unconfirmed tracks.
IouCandidatesConfirmed(ts) == {t \in Confirmed(ts) : t.time_since_update = 1}

(* The IOU round: the unconfirmed tracks and the confirmed ones left with  *)
(* time_since_update 1; iou_cost is infinite for a track that was not      *)
(* updated one frame ago.                                                  *)
IouCandidates(ts) ==
    {t \in (ts \ Confirmed(ts)) \cup {u \in Confirmed(ts) : u.time_since_update = 1} :
        t.time_since_update <= 1}

(* _match with d detections: which tracks the two rounds may match. *)
Matches(ts, d) ==
    {m \in SUBSET (CascadeCandidates(ts) \cup IouCandidates(ts)) : Cardinality(m) <= d}

(* One target of partial_fit.  A full gallery makes room by shifting from  *)
(* row addSize - 1.                                                        *)
Fit(old, new) ==
    IF Len(old) + Len(new) <= Budget THEN old \o new
    ELSE IF Len(new) >= Budget THEN SubSeq(new, 1, Budget)
    ELSE SubSeq(old, Len(new), Budget - 1) \o new

FeaturesOf(id, ts) == (CHOOSE t \in ts : t.track_id = id).features

\* Mutant: targets that are gone keep their gallery.
PartialFitKeeps(active) ==
    [id \in DOMAIN samples \cup Ids(active) |->
        IF id \notin Ids(active) THEN samples[id]
        ELSE IF id \in DOMAIN samples THEN Fit(samples[id], FeaturesOf(id, active))
        ELSE FeaturesOf(id, active)]

(* partial_fit: add the new features, erase the targets not active. *)
partial_fit(active) ==
    [id \in Ids(active) |->
        IF id \in DOMAIN samples THEN Fit(samples[id], FeaturesOf(id, active))
        ELSE FeaturesOf(id, active)]

(* tracker::predict *)
Predict == {predit(t) : t \in tracks}

(* tracker::update with d detections, of which those in m are matched:     *)
(* update, mark the missed, start new tracks, drop the deleted, and move   *)
(* the features of confirmed tracks to the gallery.                        *)
TrackerUpdate(now, d, m) ==
    LET fresh == {NewTrack(id, now) : id \in next_idx .. next_idx + d - Cardinality(m) - 1}
        after == {TrackUpdate(t, now) : t \in m}
                   \cup {mark_missed(t) : t \in Predict \ m} \cup fresh
        kept == {t \in after : t.state # "Deleted"}
    IN /\ tracks' = (kept \ Confirmed(kept))
                      \cup {[t EXCEPT !.features = <<>>] : t \in Confirmed(kept)}
       /\ next_idx' = next_idx + d - Cardinality(m)
       /\ samples' = partial_fit(Confirmed(kept))

(* DeepSort::sort: the features of all d detections, predict, update.  A   *)
(* frame is steady when no match that was possible failed.                 *)
Sort(now, d) ==
    \E m \in Matches(Predict, d) :
        /\ next_idx + d - Cardinality(m) - 1 <= MaxId
        /\ TrackerUpdate(now, d, m)
        /\ sorted' = now
        /\ steady' = IF \/ Cardinality(m) = d
                        \/ \A n \in Matches(Predict, d) : n \subseteq m
                     THEN steady + 1 ELSE 0

(* DeepSort::sort_interval: predict only. *)
SortInterval(d) ==
    /\ tracks' = Predict
    /\ steady' = IF d > 0 THEN steady + 1 ELSE 0
    /\ UNCHANGED <<next_idx, samples, sorted>>

-----------------------------------------------------------------------------
(* DeepSortWrapper *)

MaxShownAge == IF ReidInterval > 1 THEN ReidInterval ELSE 1

(* The confirmed tracks updated recently enough. *)
Drawn(ts) == Ids({t \in Confirmed(ts) : t.time_since_update <= MaxShownAge})

(* DeepSortWrapper::Update on a frame with detections (some) of which d    *)
(* have a non-empty box.  With nothing to draw the raw detections are.     *)
Update(some, d) ==
    LET now == frame_count_ + 1
        run_reid == some /\ (ReidInterval <= 1 \/ (now - 1) % ReidInterval = 0)
    IN /\ frame_count_ < MaxFrames
       /\ d > 0 => some
       /\ frame_count_' = now
       /\ \/ run_reid /\ d > 0 /\ Sort(now, d)
          \/ ~(run_reid /\ d > 0) /\ SortInterval(d)
       /\ LET ids == Drawn(tracks')
          IN output' = [ids |-> ids, raw |-> ids = {} /\ some]

Next == \E some \in BOOLEAN, d \in 0 .. MaxDets : Update(some, d)

Spec == Init /\ [][Next]_vars

-----------------------------------------------------------------------------
(* Properties *)

(* nn_matching.cpp 27, 33-80, tracker.cpp 92-106: distance() looks up the  *)
(* gallery of every confirmed track and would use an empty one for a       *)
(* missing target.  Whatever comes and goes, exactly the confirmed tracks  *)
(* have a gallery, of 1 to Budget features in the order they were seen,    *)
(* the last one from the track's last match.                               *)
GalleryFollowsTracks ==
    /\ DOMAIN samples = Ids(Confirmed(tracks))
    /\ \A t \in Confirmed(tracks) :
        LET g == samples[t.track_id]
        IN /\ Len(g) \in 1 .. Budget
           /\ g[Len(g)] = t.seen
           /\ \A i, j \in 1 .. Len(g) : i < j => g[i] < g[j]

(* DeepSortWrapper.cpp 78-86, tracker.cpp 28-33: every path through Update *)
(* predicts each track exactly once, so the age test of the drawing code   *)
(* counts frames: an identity is drawn only if it was matched, for at      *)
(* least the second time, within the last re-identification interval.      *)
DrawnIdsAreRecent ==
    \A id \in output.ids :
        \E t \in tracks :
            /\ t.track_id = id
            /\ t.hits >= 2
            /\ frame_count_ - t.seen <= MaxShownAge

(* tracker.cpp 84-96, track.cpp 81-88: after an association no track is    *)
(* older than max_age and no tentative one missed it; frames without an    *)
(* association may let tracks grow older but never revive or add one.      *)
StaleTracksLeave ==
    \A t \in tracks :
        /\ sorted - t.seen <= MaxAge
        /\ t.state = "Tentative" => t.seen = sorted

(* README.md 228 (with tracking on, the overlay shows ID:<track_id>) and   *)
(* DeepSortWrapper.cpp 113-115 (raw boxes only before confirmation or when *)
(* association fails temporarily): a scene in which something is detected  *)
(* in every frame and no possible match fails shows identities after       *)
(* n_init re-identification intervals.                                     *)
IdsShownWhenSteady ==
    steady >= NInit * ReidInterval => output.ids # {}
=============================================================================
