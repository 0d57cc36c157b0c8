---------------------------- MODULE ByteTracker ----------------------------
(***************************************************************************)
(* BYTETracker::update (src/src/bytetrack/BYTETracker.cpp) and the life of *)
(* an STrack (STrack.cpp): which tracks are tracked, lost or removed after *)
(* each frame, and which identities are shown.                             *)
(*                                                                         *)
(* Boxes, Kalman states and the assignment are abstracted to their         *)
(* outcome: which candidates the three association rounds match, how many  *)
(* strong detections are left over, and which tracked/lost pairs overlap.  *)
(* The update works in place on this->tracked_stracks and                  *)
(* this->lost_stracks and then merges copies by track_id; the lists are    *)
(* sets of track records here, so that two records with one id can occur.  *)
(*                                                                         *)
(* Identities come from a static counter that the threads of all streams   *)
(* increment without a lock (next_id: read, write, and the read of the     *)
(* return statement).  The steps of the other streams come between those   *)
(* of this one in any order, and increments can be lost.  Nothing else is  *)
(* shared, so the rest of update() is one step, which uses the identities  *)
(* drawn for it.                                                           *)
(***************************************************************************)
EXTENDS Naturals, FiniteSets

CONSTANTS
    MaxTimeLost,        \* max_time_lost = fps / 30 * track_buffer
    OtherStreams,       \* the other streams, one thread each
    MaxFrameId,         \* bound: frames
    MaxId               \* bound: largest value of the id counter

ASSUME ByteAssumption == MaxTimeLost \in Nat /\ MaxFrameId \in Nat /\ MaxId \in Nat

VARIABLES
    frame_id,
    tracked_stracks,    \* BYTETracker::tracked_stracks
    lost_stracks,       \* BYTETracker::lost_stracks
    removed_stracks,    \* ids in BYTETracker::removed_stracks
    count,              \* _count of STrack::next_id, shared by all streams
    idpc,               \* where this stream is in next_id
    mine,               \* the value of _count it read there
    drawn,              \* identities drawn for the frame being processed
    pending,            \* <<stream, value of _count it read and has not written back>>
    raced,              \* history: another stream was in next_id together with this one
    used,               \* history: ids that were ever in the two lists
    duplicates          \* ids dropped by remove_duplicate_stracks last time

listVars == <<frame_id, tracked_stracks, lost_stracks, removed_stracks, used, duplicates>>
vars == <<listVars, count, idpc, mine, drawn, pending, raced>>

Init ==
    /\ frame_id = 0
    /\ tracked_stracks = {} /\ lost_stracks = {} /\ removed_stracks = {}
    /\ count = 0 /\ idpc = "idle" /\ mine = 0 /\ drawn = {} /\ pending = {}
    /\ raced = FALSE /\ used = {} /\ duplicates = {}

Ids(tracks) == {t.track_id : t \in tracks}

(* STrack::update and STrack::re_activate(new_id = false): the same here. *)
Matched(t, now) == [t EXCEPT !.state = "Tracked", !.is_activated = TRUE, !.frame_id = now]

MarkLost(t) == [t EXCEPT !.state = "Lost"]

MarkRemoved(t) == [t EXCEPT !.state = "Removed"]

\* Mutant: a new track is confirmed at once and dated one frame back.
ActivateStale(id, now) ==
    [track_id |-> id, state |-> "Tracked", is_activated |-> TRUE,
     frame_id |-> now - 1, start_frame |-> now]

(* STrack::activate: confirmed at once only in the very first frame. *)
Activate(id, now) ==
    [track_id |-> id, state |-> "Tracked", is_activated |-> (now = 1),
     frame_id |-> now, start_frame |-> now]

\* Mutant: the second list is appended without looking at the ids.
JointAll(a, b) == a \cup b

(* joint_stracks: a, and of b what a has no id of; of several tracks of b  *)
(* with one id the first, which is the one that was lost first.            *)
joint_stracks(a, b) ==
    a \cup {t \in b : /\ t.track_id \notin Ids(a)
                     /\ \A u \in b : u.track_id = t.track_id => t.frame_id <= u.frame_id}

\* Mutant: nothing is subtracted.
SubNothing(a, ids) == a

(* sub_stracks: a without the ids given. *)
sub_stracks(a, ids) == {t \in a : t.track_id \notin ids}

\* Mutant: a lost track expires one frame early.
ExpiredEarly(t, now) == now - t.frame_id >= MaxTimeLost

(* frame_id - end_frame() > max_time_lost *)
Expired(t, now) == now - t.frame_id > MaxTimeLost

(* remove_duplicate_stracks: of a tracked and a lost track on the same     *)
(* spot the one that was followed for longer stays, the lost one on a tie. *)
Age(t) == t.frame_id - t.start_frame

LosesTracked(pairs) == {p[1] : p \in {q \in pairs : Age(q[1]) <= Age(q[2])}}

LosesLost(pairs) == {p[2] : p \in {q \in pairs : Age(q[1]) > Age(q[2])}}

(* linear_assignment on the IOU distances: it can match any of the tracks. *)
Assignments(tracks) == SUBSET tracks

(* The pairs with pdist < 0.15. *)
Overlaps(a, b) == SUBSET (a \X b)

(* update().  m1, m2, m3: tracks matched in the three rounds (strong       *)
(* detections with tracked and lost tracks, weak ones with the tracked     *)
(* tracks left, left-over strong ones with unconfirmed tracks); drawn has  *)
(* the identities of the unmatched detections with score >= high_thresh.   *)
Associate(m1, m2, m3) ==
    LET now == frame_id + 1
        confirmed == {t \in tracked_stracks : t.is_activated}
        unconfirmed == tracked_stracks \ confirmed
        strack_pool == joint_stracks(confirmed, lost_stracks)
        r_tracked == {t \in strack_pool \ m1 : t.state = "Tracked"}
        InPlace(t) == IF t \in m1 \cup m2 \cup m3 THEN Matched(t, now)
                      ELSE IF t \in r_tracked THEN MarkLost(t)
                      ELSE IF t \in unconfirmed THEN MarkRemoved(t)
                      ELSE t
        newly_lost == {MarkLost(t) : t \in r_tracked \ m2}
        fresh == {Activate(id, now) : id \in drawn}
        activated == fresh \cup {Matched(t, now) :
                        t \in m2 \cup m3 \cup {u \in m1 : u.state = "Tracked"}}
        refind == {Matched(t, now) : t \in {u \in m1 : u.state # "Tracked"}}
        lost1 == {InPlace(t) : t \in lost_stracks}
        expired == {t \in lost1 : Expired(t, now)}
        lost2 == (lost1 \ expired) \cup {MarkRemoved(t) : t \in expired}
        kept == {t \in {InPlace(u) : u \in tracked_stracks} : t.state = "Tracked"}
        tracked1 == joint_stracks(joint_stracks(kept, activated), refind)
        lost3 == sub_stracks(sub_stracks(lost2, Ids(tracked1)) \cup newly_lost,
                             removed_stracks)
    IN /\ m1 \in Assignments(strack_pool)
       /\ m2 \in Assignments(r_tracked)
       /\ m3 \in Assignments(unconfirmed)
       /\ frame_id' = now
       /\ removed_stracks' = removed_stracks \cup Ids(unconfirmed \ m3) \cup Ids(expired)
       /\ \E pairs \in Overlaps(tracked1, lost3) :
            /\ tracked_stracks' = tracked1 \ LosesTracked(pairs)
            /\ lost_stracks' = lost3 \ LosesLost(pairs)
            /\ duplicates' = Ids(LosesTracked(pairs)) \cup Ids(LosesLost(pairs))
       /\ used' = used \cup Ids(tracked_stracks' \cup lost_stracks')

Update ==
    /\ frame_id < MaxFrameId /\ idpc = "idle"
    /\ \E m1 \in SUBSET (tracked_stracks \cup lost_stracks) :
       \E m2 \in SUBSET tracked_stracks :
       \E m3 \in SUBSET tracked_stracks : Associate(m1, m2, m3)
    /\ drawn' = {}
    /\ UNCHANGED <<count, idpc, mine, pending, raced>>

(* STrack::next_id, called by activate for a new track: _count++ is a read *)
NextIdRead ==
    /\ frame_id < MaxFrameId /\ count < MaxId /\ idpc = "idle"
    /\ idpc' = "read" /\ mine' = count
    /\ raced' = (raced \/ pending # {})
    /\ UNCHANGED <<listVars, count, drawn, pending>>

(* ... and a write, ... *)
NextIdWrite ==
    /\ idpc = "read"
    /\ idpc' = "written" /\ count' = mine + 1 /\ mine' = 0
    /\ UNCHANGED <<listVars, drawn, pending, raced>>

\* Mutant: a new track is numbered by the length of the lists.
ReturnLength ==
    /\ idpc = "written"
    /\ idpc' = "idle"
    /\ drawn' = drawn \cup {Cardinality(tracked_stracks \cup lost_stracks)
                                 + Cardinality(drawn) + 1}
    /\ UNCHANGED <<listVars, count, mine, pending, raced>>

(* ... and return _count reads it once more. *)
NextIdReturn ==
    /\ idpc = "written"
    /\ idpc' = "idle" /\ drawn' = drawn \cup {count}
    /\ UNCHANGED <<listVars, count, mine, pending, raced>>

(* next_id in the thread of another stream: the read ... *)
OtherRead(s) ==
    /\ count < MaxId /\ \A p \in pending : p[1] # s
    /\ pending' = pending \cup {<<s, count>>}
    /\ raced' = (raced \/ idpc # "idle")
    /\ UNCHANGED <<listVars, count, idpc, mine, drawn>>

(* ... and the write. *)
OtherWrite(p) ==
    /\ count' = p[2] + 1
    /\ pending' = pending \ {p}
    /\ UNCHANGED <<listVars, idpc, mine, drawn, raced>>

Next ==
    \/ Update \/ NextIdRead \/ NextIdWrite \/ NextIdReturn
    \/ \E s \in OtherStreams : OtherRead(s)
    \/ \E p \in pending : OtherWrite(p)

Spec == Init /\ [][Next]_vars

-----------------------------------------------------------------------------
(* Properties *)

Present == tracked_stracks \cup lost_stracks

(* BYTETracker.cpp 162-192, 254-270, STrack.cpp 191-196: whatever ids the  *)
(* unlocked counter hands out, no two tracks drawn on one frame carry the  *)
(* same identity; and unless two threads were in the counter at the same   *)
(* time, no identity stands for two tracks, in one list or in both.        *)
UniqueIds ==
    /\ \A t, u \in tracked_stracks : t.track_id = u.track_id => t = u
    /\ ~raced => /\ \A t, u \in Present : t.track_id = u.track_id => t = u
                 /\ tracked_stracks \cap lost_stracks = {}

(* BYTETracker.cpp 125-131, 169-174, 194-231: every track that is drawn    *)
(* was matched with a detection of this very frame; a track of an earlier  *)
(* frame is lost, or expired in this frame.                                *)
ShownTracksAreFresh ==
    /\ \A t \in tracked_stracks : t.state = "Tracked" /\ t.frame_id = frame_id
    /\ \A t \in lost_stracks : t.frame_id < frame_id /\ t.state # "Tracked"

(* BYTETracker.cpp 162-167, 183-185: an expired track stays one frame      *)
(* among the lost ones, because the subtraction uses the list of removed   *)
(* tracks before this frame's are added.  It is never there longer, even   *)
(* when another stream corrupts the id counter.                            *)
ExpiredTracksLeave ==
    \A t \in lost_stracks :
        \/ frame_id - t.frame_id <= MaxTimeLost + 1
        \/ frame_id - t.frame_id <= 2

(* BYTETracker.cpp 125-131, 162-167, 179-185: a confirmed track without a  *)
(* match is kept, and can be found again under its identity, until its     *)
(* last match is more than max_time_lost frames back, and one frame more.  *)
(* Exceptions: a duplicate, and a track whose id is in removed_stracks     *)
(* (it was found again in that extra frame): that one goes at once; and    *)
(* nothing is promised once two threads were in the id counter together.   *)
LostTracksAreKept ==
    [][\A t \in Present :
          (/\ t.is_activated /\ ~raced'
           /\ frame_id' - t.frame_id <= MaxTimeLost + 1
           /\ ~(t \in tracked_stracks /\ t.track_id \in removed_stracks))
          => t.track_id \in Ids(Present)' \cup duplicates']_vars

(* BYTETracker.cpp 72, 154-160, STrack.cpp 191-196: an identity that has   *)
(* left both lists never comes back: what is new in the lists was never in *)
(* them before (until two threads are in the counter at the same time).    *)
GoneForGood ==
    [][~raced' => \A t \in Present' :
          t.track_id \in Ids(Present) \/ t.track_id \notin used]_vars
=============================================================================
