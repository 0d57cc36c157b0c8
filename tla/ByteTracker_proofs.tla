------------------------- MODULE ByteTracker_proofs -------------------------
(***************************************************************************)
(* For any max_time_lost and any number of other streams: which identities *)
(* ByteTrack shows, keeps and drops, whatever the association rounds match *)
(* and however the streams interleave in the unlocked id counter.          *)
(***************************************************************************)
EXTENDS ByteTracker, TLAPS

Track == [track_id : Nat, state : {"Tracked", "Lost", "Removed"},
          is_activated : BOOLEAN, frame_id : Nat, start_frame : Nat]

TypeOK ==
    /\ frame_id \in Nat
    /\ tracked_stracks \in SUBSET Track /\ lost_stracks \in SUBSET Track
    /\ count \in Nat /\ mine \in Nat /\ drawn \in SUBSET Nat
    /\ idpc \in {"idle", "read", "written"}
    /\ pending \in SUBSET (OtherStreams \X Nat)
    /\ raced \in BOOLEAN

(* A lost track that is overdue is also known as removed: it waits for the *)
(* next subtraction.                                                       *)
OverdueAreRemoved ==
    \A t \in lost_stracks :
        frame_id - t.frame_id > MaxTimeLost /\ frame_id - t.frame_id > 1
        => t.track_id \in removed_stracks

(* Two lost tracks with one identity were not lost in the same frame. *)
LostAtDifferentTimes ==
    \A t, u \in lost_stracks :
        t.track_id = u.track_id /\ t.frame_id = u.frame_id => t = u

(* The lists, whatever the id counter does. *)
ListInv ==
    /\ TypeOK /\ ShownTracksAreFresh /\ OverdueAreRemoved /\ LostAtDifferentTimes
    /\ ExpiredTracksLeave
    /\ \A t, u \in tracked_stracks : t.track_id = u.track_id => t = u
    /\ Ids(Present) \subseteq used /\ used \subseteq Nat

(* The counter while no two streams were in it together: it is above every *)
(* identity handed out, and so is every value another stream writes back.  *)
CounterInv ==
    /\ \A i \in used \cup drawn : i <= count /\ \A p \in pending : i <= p[2]
    /\ drawn \cap used = {}
    /\ idpc # "idle" => pending = {}
    /\ idpc = "read" => mine = count
    /\ idpc = "written" => count \notin used \cup drawn

(* What the lists are then. *)
IdentityInv ==
    /\ \A t, u \in Present : t.track_id = u.track_id => t = u
    /\ \A t \in lost_stracks :
          t.track_id \in removed_stracks => frame_id - t.frame_id > MaxTimeLost

ByteInv == ListInv /\ (~raced => CounterInv /\ IdentityInv)

-----------------------------------------------------------------------------
(* Track records *)

LEMMA TrackFacts ==
    ASSUME NEW t \in Track, NEW now \in Nat
    PROVE  /\ t.track_id \in Nat /\ t.frame_id \in Nat /\ t.is_activated \in BOOLEAN
           /\ Matched(t, now) \in Track /\ Matched(t, now).track_id = t.track_id
           /\ Matched(t, now).frame_id = now /\ Matched(t, now).state = "Tracked"
           /\ MarkLost(t) \in Track /\ MarkLost(t).track_id = t.track_id
           /\ MarkLost(t).frame_id = t.frame_id /\ MarkLost(t).state = "Lost"
           /\ MarkRemoved(t) \in Track /\ MarkRemoved(t).track_id = t.track_id
           /\ MarkRemoved(t).frame_id = t.frame_id /\ MarkRemoved(t).state = "Removed"
  BY DEF Track, Matched, MarkLost, MarkRemoved

LEMMA ActivateFacts ==
    ASSUME NEW id \in Nat, NEW now \in Nat
    PROVE  /\ Activate(id, now) \in Track /\ Activate(id, now).track_id = id
           /\ Activate(id, now).frame_id = now /\ Activate(id, now).state = "Tracked"
  BY DEF Track, Activate

-----------------------------------------------------------------------------
(* What one update() comes to.  The lists of the code overlap (activated   *)
(* tracks are still in tracked_stracks, found ones still in lost_stracks)  *)
(* and are merged by identity; these are the parts that remain.            *)

now == frame_id + 1

Confirmed == {t \in tracked_stracks : t.is_activated}

(* The matched tracks among the tracked ones, the new ones and the lost    *)
(* ones that were found again.                                             *)
Kept(m1, m2, m3) == {Matched(t, now) : t \in (m1 \cup m2 \cup m3) \cap tracked_stracks}

New == {Activate(id, now) : id \in drawn}

Found(m1) == {Matched(t, now) : t \in m1 \cap lost_stracks}

Shown(m1, m2, m3) ==
    LET kept == Kept(m1, m2, m3)
        new == {x \in New : x.track_id \notin Ids(kept)}
    IN kept \cup new \cup {x \in Found(m1) : x.track_id \notin Ids(kept \cup new)}

(* The confirmed tracks without a match, and the lost ones. *)
Missed(m1, m2) == {MarkLost(t) : t \in Confirmed \ (m1 \cup m2)}

Aged(t) == IF Expired(t, now) THEN MarkRemoved(t) ELSE t

Old(m1) == {Aged(t) : t \in lost_stracks \ m1}

Lost(m1, m2, m3) ==
    {x \in Missed(m1, m2) \cup {y \in Old(m1) : y.track_id \notin Ids(Shown(m1, m2, m3))} :
        x.track_id \notin removed_stracks}

(* The three rounds match disjoint sets of tracks, and of the lost tracks  *)
(* with one identity only the first lost.                                  *)
Rounds(m1, m2, m3) ==
    /\ m1 \subseteq Confirmed \cup lost_stracks
    /\ \A t \in m1 \cap lost_stracks : \A u \in lost_stracks :
          u.track_id = t.track_id => t.frame_id <= u.frame_id
    /\ m2 \subseteq Confirmed \ m1
    /\ m3 \subseteq tracked_stracks \ Confirmed

(* What remains after the duplicates, some of the shown and of the lost    *)
(* tracks, are dropped.                                                    *)
WithoutDuplicates(m1, m2, m3) ==
    \E X, Y : /\ tracked_stracks' = Shown(m1, m2, m3) \ X
              /\ lost_stracks' = Lost(m1, m2, m3) \ Y
              /\ duplicates' = Ids(X) \cup Ids(Y)

(* Joining lists of one frame only compares identities. *)
LEMMA JointOfOneFrame ==
    ASSUME NEW a, NEW b, NEW n \in Nat, \A t \in b : t.frame_id = n
    PROVE  joint_stracks(a, b) = a \cup {t \in b : t.track_id \notin Ids(a)}
  BY DEF joint_stracks

LEMMA Outcome ==
    ASSUME ListInv, NEW m1, NEW m2, NEW m3, Associate(m1, m2, m3), drawn \subseteq Nat
    PROVE  /\ Rounds(m1, m2, m3)
           /\ frame_id' = now
           /\ removed_stracks' = removed_stracks
                \cup Ids((tracked_stracks \ Confirmed) \ m3)
                \cup Ids({t \in lost_stracks \ m1 : Expired(t, now)})
           /\ used' = used \cup Ids(tracked_stracks' \cup lost_stracks')
           /\ WithoutDuplicates(m1, m2, m3)
<1> DEFINE unconfirmed == tracked_stracks \ Confirmed
           strack_pool == joint_stracks(Confirmed, lost_stracks)
           r_tracked == {t \in strack_pool \ m1 : t.state = "Tracked"}
           InPlace(t) == IF t \in m1 \cup m2 \cup m3 THEN Matched(t, now)
                         ELSE IF t \in r_tracked THEN MarkLost(t)
                         ELSE IF t \in unconfirmed THEN MarkRemoved(t)
                         ELSE t
           newly_lost == {MarkLost(t) : t \in r_tracked \ m2}
           fresh == {Activate(id, now) : id \in drawn}
           activated == fresh \cup {Matched(t, now) :
                           t \in m2 \cup m3 \cup {u \in m1 : u.state = "Tracked"}}
           refind == {Matched(t, now) : t \in {u \in m1 : u.state # "Tracked"}}
           lost1 == {InPlace(t) : t \in lost_stracks}
           expired == {t \in lost1 : Expired(t, now)}
           lost2 == (lost1 \ expired) \cup {MarkRemoved(t) : t \in expired}
           kept == {t \in {InPlace(u) : u \in tracked_stracks} : t.state = "Tracked"}
           tracked1 == joint_stracks(joint_stracks(kept, activated), refind)
           lost3 == sub_stracks(sub_stracks(lost2, Ids(tracked1)) \cup newly_lost,
                                removed_stracks)
<1>1. /\ m1 \in Assignments(strack_pool) /\ m2 \in Assignments(r_tracked)
      /\ m3 \in Assignments(unconfirmed) /\ frame_id' = now
      /\ removed_stracks' = removed_stracks \cup Ids(unconfirmed \ m3) \cup Ids(expired)
      /\ used' = used \cup Ids(tracked_stracks' \cup lost_stracks')
      /\ \E pairs \in Overlaps(tracked1, lost3) :
            /\ tracked_stracks' = tracked1 \ LosesTracked(pairs)
            /\ lost_stracks' = lost3 \ LosesLost(pairs)
            /\ duplicates' = Ids(LosesTracked(pairs)) \cup Ids(LosesLost(pairs))
  BY DEF Associate, Confirmed, now
<1> HIDE DEF tracked1, lost3, kept, activated, refind, lost1, lost2, expired, newly_lost
<1>t. /\ frame_id \in Nat /\ now \in Nat /\ now > frame_id
      /\ tracked_stracks \subseteq Track /\ lost_stracks \subseteq Track
  BY DEF ListInv, TypeOK, now
<1>f. /\ \A t \in tracked_stracks : t.state = "Tracked" /\ t.frame_id = frame_id
      /\ \A t \in lost_stracks : t.frame_id < frame_id /\ t.state # "Tracked"
  BY DEF ListInv, ShownTracksAreFresh
<1>d. tracked_stracks \cap lost_stracks = {}
  BY <1>f, Zenon
<1>p. /\ strack_pool \subseteq Confirmed \cup lost_stracks /\ Confirmed \subseteq strack_pool
      /\ \A t \in strack_pool \cap lost_stracks : \A u \in lost_stracks :
            u.track_id = t.track_id => t.frame_id <= u.frame_id
  <2>1. Confirmed \cap lost_stracks = {}
    BY <1>d DEF Confirmed
  <2> QED BY <2>1 DEF joint_stracks
<1>q. r_tracked = Confirmed \ m1
  <2>1. \A t \in Confirmed : t.state = "Tracked"
    BY <1>f DEF Confirmed
  <2> QED BY <1>f, <1>p, <2>1
<1>2. Rounds(m1, m2, m3)
  <2>1. m1 \subseteq strack_pool /\ m2 \subseteq r_tracked /\ m3 \subseteq unconfirmed
    BY <1>1 DEF Assignments
  <2> QED BY <2>1, <1>p, <1>q DEF Rounds
<1> HIDE DEF r_tracked, strack_pool
<1>r. /\ m1 \subseteq Confirmed \cup lost_stracks /\ m2 \subseteq Confirmed \ m1
      /\ m3 \subseteq tracked_stracks \ Confirmed
      /\ Confirmed \subseteq tracked_stracks
  BY <1>2 DEF Rounds, Confirmed
<1>3. kept = Kept(m1, m2, m3)
  <2>1. ASSUME NEW t \in tracked_stracks
        PROVE  /\ t \in m1 \cup m2 \cup m3 =>
                    InPlace(t) = Matched(t, now) /\ InPlace(t).state = "Tracked"
               /\ t \notin m1 \cup m2 \cup m3 => InPlace(t).state # "Tracked"
    <3>1. t \in Track
      BY <1>t
    <3>2. t \in r_tracked \/ t \in unconfirmed \/ t \in m1
      BY <1>q
    <3>3. /\ Matched(t, now).state = "Tracked"
          /\ MarkLost(t).state = "Lost" /\ MarkRemoved(t).state = "Removed"
      BY <3>1, <1>t, TrackFacts
    <3> QED BY <3>2, <3>3
  <2> HIDE DEF InPlace
  <2> QED BY <2>1 DEF kept, Kept
<1>4. {u \in m1 : u.state = "Tracked"} = m1 \cap tracked_stracks
      /\ {u \in m1 : u.state # "Tracked"} = m1 \cap lost_stracks
  BY <1>r, <1>f
<1>5. refind = Found(m1)
  BY <1>4 DEF refind, Found
<1>6. activated = New \cup Kept(m1, m2, m3)
  <2>1. m2 \cup m3 \cup {u \in m1 : u.state = "Tracked"}
          = (m1 \cup m2 \cup m3) \cap tracked_stracks
    BY <1>4, <1>r
  <2> QED BY <2>1 DEF activated, New, Kept
<1>7. /\ \A x \in activated : x.frame_id = now
      /\ \A x \in refind : x.frame_id = now
  <2>1. \A x \in New : x.frame_id = now
    BY <1>t, ActivateFacts DEF New
  <2>2. \A t \in tracked_stracks \cup lost_stracks : Matched(t, now).frame_id = now
    BY <1>t, TrackFacts
  <2>3. \A x \in Kept(m1, m2, m3) \cup Found(m1) : x.frame_id = now
    BY <2>2 DEF Kept, Found
  <2> QED BY <2>1, <2>3, <1>5, <1>6
<1>8. tracked1 = Shown(m1, m2, m3)
  <2> DEFINE k == Kept(m1, m2, m3)
             new == {x \in New : x.track_id \notin Ids(k)}
  <2>1. joint_stracks(kept, activated) = k \cup {t \in activated : t.track_id \notin Ids(k)}
    BY <1>3, <1>7, <1>t, JointOfOneFrame
  <2>2. \A x \in k : x.track_id \in Ids(k)
    BY DEF Ids
  <2>3. joint_stracks(kept, activated) = k \cup new
    BY <2>1, <2>2, <1>6
  <2>4. tracked1 = (k \cup new) \cup {t \in refind : t.track_id \notin Ids(k \cup new)}
    BY <2>3, <1>7, <1>t, JointOfOneFrame DEF tracked1
  <2> QED BY <2>4, <1>5 DEF Shown
<1>9. ASSUME NEW t \in lost_stracks
      PROVE  /\ t \in m1 => InPlace(t) = Matched(t, now) /\ ~Expired(InPlace(t), now)
             /\ t \notin m1 => InPlace(t) = t
  <2>1. t \notin m2 /\ t \notin m3 /\ t \notin r_tracked /\ t \notin unconfirmed
    BY <1>d, <1>r, <1>q
  <2>2. Matched(t, now).frame_id = now
    BY <1>t, TrackFacts
  <2>3. ~Expired(Matched(t, now), now)
    BY <2>2, <1>t, ByteAssumption DEF Expired
  <2> QED BY <2>1, <2>3
<1> HIDE DEF InPlace
<1>10. expired = {t \in lost_stracks \ m1 : Expired(t, now)}
  BY <1>9 DEF expired, lost1
<1>11. lost2 = Old(m1) \cup Found(m1)
  <2>1. ASSUME NEW x \in lost2 PROVE x \in Old(m1) \cup Found(m1)
    <3>1. CASE x \in lost1 \ expired
      <4>1. PICK t \in lost_stracks : x = InPlace(t)
        BY <3>1 DEF lost1
      <4>2. CASE t \in m1
        BY <4>1, <4>2, <1>9 DEF Found
      <4>3. CASE t \notin m1
        <5>1. x = t /\ ~Expired(t, now)
          BY <4>1, <4>3, <3>1, <1>9, <1>10
        <5> QED BY <5>1, <4>3 DEF Old, Aged
      <4> QED BY <4>2, <4>3
    <3>2. CASE x \in {MarkRemoved(t) : t \in expired}
      BY <3>2, <1>10 DEF Old, Aged
    <3> QED BY <3>1, <3>2 DEF lost2
  <2>2. ASSUME NEW x \in Old(m1) PROVE x \in lost2
    <3>1. PICK t \in lost_stracks \ m1 : x = Aged(t)
      BY DEF Old
    <3>2. CASE Expired(t, now)
      BY <3>1, <3>2, <1>10 DEF Aged, lost2
    <3>3. CASE ~Expired(t, now)
      <4>1. x = t /\ InPlace(t) = t
        BY <3>1, <3>3, <1>9 DEF Aged
      <4>2. x \in lost1 /\ x \notin expired
        BY <4>1, <3>3, <1>10 DEF lost1
      <4> QED BY <4>2 DEF lost2
    <3> QED BY <3>2, <3>3
  <2>3. ASSUME NEW x \in Found(m1) PROVE x \in lost2
    <3>1. PICK t \in m1 \cap lost_stracks : x = Matched(t, now)
      BY DEF Found
    <3>2. x = InPlace(t) /\ ~Expired(x, now)
      BY <3>1, <1>9
    <3>3. x \in lost1 /\ x \notin expired
      BY <3>1, <3>2, <1>10 DEF lost1
    <3> QED BY <3>3 DEF lost2
  <2> QED BY <2>1, <2>2, <2>3
<1>12. \A x \in Found(m1) : x.track_id \in Ids(tracked1)
  BY <1>8 DEF Shown, Ids
<1>13. newly_lost = Missed(m1, m2)
  BY <1>q, <1>r DEF newly_lost, Missed
<1>14. lost3 = Lost(m1, m2, m3)
  BY <1>8, <1>11, <1>12, <1>13 DEF lost3, sub_stracks, Lost
<1>15. PICK pairs : /\ tracked_stracks' = tracked1 \ LosesTracked(pairs)
                    /\ lost_stracks' = lost3 \ LosesLost(pairs)
                    /\ duplicates' = Ids(LosesTracked(pairs)) \cup Ids(LosesLost(pairs))
  BY <1>1
<1>16. WithoutDuplicates(m1, m2, m3)
  BY <1>15, <1>8, <1>14 DEF WithoutDuplicates
<1> QED BY <1>1, <1>2, <1>10, <1>16

(* Where a shown and where a lost track comes from. *)
LEMMA ShownOrigin ==
    ASSUME ListInv, NEW m1, NEW m2, NEW m3, NEW x \in Shown(m1, m2, m3), drawn \subseteq Nat
    PROVE  /\ x \in Track /\ x.state = "Tracked" /\ x.frame_id = now
           /\ \/ \E t \in (m1 \cup m2 \cup m3) \cap tracked_stracks :
                    x = Matched(t, now) /\ x.track_id = t.track_id
              \/ \E id \in drawn : x = Activate(id, now) /\ x.track_id = id
                                   /\ id \notin Ids(Kept(m1, m2, m3))
              \/ \E t \in m1 \cap lost_stracks :
                    /\ x = Matched(t, now) /\ x.track_id = t.track_id
                    /\ x.track_id \notin Ids(Kept(m1, m2, m3))
                    /\ x.track_id \notin drawn
<1>t. /\ now \in Nat /\ tracked_stracks \subseteq Track /\ lost_stracks \subseteq Track
  BY DEF ListInv, TypeOK, now
<1> DEFINE k == Kept(m1, m2, m3)
           new == {y \in New : y.track_id \notin Ids(k)}
<1>1. CASE x \in k
  <2>1. PICK t \in (m1 \cup m2 \cup m3) \cap tracked_stracks : x = Matched(t, now)
    BY <1>1 DEF Kept
  <2>2. x \in Track /\ x.state = "Tracked" /\ x.frame_id = now /\ x.track_id = t.track_id
    <3>1. t \in Track
      BY <1>t
    <3>2. /\ Matched(t, now) \in Track /\ Matched(t, now).track_id = t.track_id
          /\ Matched(t, now).frame_id = now /\ Matched(t, now).state = "Tracked"
      BY <3>1, <1>t, TrackFacts
    <3> QED BY <2>1, <3>2
  <2> QED BY <2>1, <2>2
<1>2. CASE x \in new
  <2>1. PICK id \in drawn : x = Activate(id, now)
    BY <1>2 DEF New
  <2>2. x \in Track /\ x.state = "Tracked" /\ x.frame_id = now /\ x.track_id = id
    BY <2>1, <1>t, ActivateFacts
  <2> QED BY <1>2, <2>1, <2>2
<1>3. CASE x \in Found(m1) /\ x.track_id \notin Ids(k \cup new)
  <2>1. PICK t \in m1 \cap lost_stracks : x = Matched(t, now)
    BY <1>3 DEF Found
  <2>2. x \in Track /\ x.state = "Tracked" /\ x.frame_id = now /\ x.track_id = t.track_id
    <3>1. t \in Track
      BY <1>t
    <3>2. /\ Matched(t, now) \in Track /\ Matched(t, now).track_id = t.track_id
          /\ Matched(t, now).frame_id = now /\ Matched(t, now).state = "Tracked"
      BY <3>1, <1>t, TrackFacts
    <3> QED BY <2>1, <3>2
  <2>3. x.track_id \notin Ids(k)
    BY <1>3 DEF Ids
  <2>4. ASSUME x.track_id \in drawn PROVE FALSE
    <3>1. Activate(x.track_id, now) \in New /\ Activate(x.track_id, now).track_id = x.track_id
      BY <2>4, <1>t, ActivateFacts DEF New
    <3>2. Activate(x.track_id, now) \in new
      BY <3>1, <2>3
    <3> QED BY <3>1, <3>2, <1>3 DEF Ids
  <2> QED BY <2>1, <2>2, <2>3, <2>4
<1> QED BY <1>1, <1>2, <1>3 DEF Shown

LEMMA LostOrigin ==
    ASSUME ListInv, NEW m1, NEW m2, NEW m3, NEW x \in Lost(m1, m2, m3)
    PROVE  /\ x \in Track /\ x.track_id \notin removed_stracks
           /\ \/ \E t \in Confirmed \ (m1 \cup m2) :
                    /\ x = MarkLost(t) /\ x.track_id = t.track_id
                    /\ x.frame_id = frame_id /\ x.state = "Lost" /\ t \in tracked_stracks
              \/ \E t \in lost_stracks \ m1 :
                    /\ x = Aged(t) /\ x.track_id = t.track_id /\ x.frame_id = t.frame_id
                    /\ x.frame_id < frame_id /\ x.state # "Tracked"
                    /\ x.track_id \notin Ids(Shown(m1, m2, m3))
<1>t. /\ frame_id \in Nat /\ tracked_stracks \subseteq Track /\ lost_stracks \subseteq Track
  BY DEF ListInv, TypeOK
<1>f. /\ \A t \in tracked_stracks : t.state = "Tracked" /\ t.frame_id = frame_id
      /\ \A t \in lost_stracks : t.frame_id < frame_id /\ t.state # "Tracked"
  BY DEF ListInv, ShownTracksAreFresh
<1>1. CASE x \in Missed(m1, m2)
  <2>1. PICK t \in Confirmed \ (m1 \cup m2) : x = MarkLost(t)
    BY <1>1 DEF Missed
  <2>2. t \in tracked_stracks
    BY DEF Confirmed
  <2>3. x \in Track /\ x.track_id = t.track_id /\ x.frame_id = t.frame_id /\ x.state = "Lost"
    BY <2>1, <2>2, <1>t, TrackFacts
  <2>4. x.track_id \notin removed_stracks
    BY DEF Lost
  <2> QED BY <2>1, <2>2, <2>3, <2>4, <1>f
<1>2. CASE x \in Old(m1) /\ x.track_id \notin Ids(Shown(m1, m2, m3))
  <2>1. PICK t \in lost_stracks \ m1 : x = Aged(t)
    BY <1>2 DEF Old
  <2>2. /\ x \in Track /\ x.track_id = t.track_id /\ x.frame_id = t.frame_id
        /\ x.state # "Tracked"
    BY <2>1, <1>t, <1>f, TrackFacts DEF Aged
  <2>3. x.track_id \notin removed_stracks
    BY DEF Lost
  <2> QED BY <1>2, <2>1, <2>2, <2>3, <1>f
<1> QED BY <1>1, <1>2 DEF Lost

(* No two shown tracks have one identity: not even when the counter hands  *)
(* out an identity twice.                                                  *)
LEMMA ShownUnique ==
    ASSUME ListInv, NEW m1, NEW m2, NEW m3, Rounds(m1, m2, m3), drawn \subseteq Nat,
           NEW x \in Shown(m1, m2, m3), NEW y \in Shown(m1, m2, m3),
           x.track_id = y.track_id
    PROVE  x = y
<1> DEFINE k == Kept(m1, m2, m3)
           Old1(z) == \E t \in (m1 \cup m2 \cup m3) \cap tracked_stracks :
                         z = Matched(t, now) /\ z.track_id = t.track_id
           New1(z) == \E id \in drawn : z = Activate(id, now) /\ z.track_id = id
                                         /\ id \notin Ids(k)
           Found1(z) == \E t \in m1 \cap lost_stracks :
                           /\ z = Matched(t, now) /\ z.track_id = t.track_id
                           /\ z.track_id \notin Ids(k)
                           /\ z.track_id \notin drawn
<1>1. (Old1(x) \/ New1(x) \/ Found1(x)) /\ (Old1(y) \/ New1(y) \/ Found1(y))
  <2>1. \A z \in Shown(m1, m2, m3) : Old1(z) \/ New1(z) \/ Found1(z)
    BY ShownOrigin, Zenon
  <2> QED BY <2>1
<1>2. \A z : Old1(z) => z.track_id \in Ids(k)
  BY DEF Kept, Ids
<1>3. CASE Old1(x) /\ Old1(y)
  BY <1>3 DEF ListInv
<1>4. CASE New1(x) /\ New1(y)
  BY <1>4
<1>5. CASE Found1(x) /\ Found1(y)
  <2>1. PICK t \in m1 \cap lost_stracks : x = Matched(t, now) /\ x.track_id = t.track_id
    BY <1>5
  <2>2. PICK u \in m1 \cap lost_stracks : y = Matched(u, now) /\ y.track_id = u.track_id
    BY <1>5
  <2>3. t.frame_id <= u.frame_id /\ u.frame_id <= t.frame_id
    <3>1. t.track_id = u.track_id
      BY <2>1, <2>2
    <3> QED BY <3>1 DEF Rounds
  <2>4. t \in Track /\ u \in Track
    BY DEF ListInv, TypeOK
  <2>5. t.frame_id = u.frame_id
    BY <2>3, <2>4 DEF Track
  <2>6. t = u
    BY <2>1, <2>2, <2>5 DEF ListInv, LostAtDifferentTimes
  <2> QED BY <2>1, <2>2, <2>6
<1>6. (New1(x) \/ Found1(x) => x.track_id \notin Ids(k))
      /\ (New1(y) \/ Found1(y) => y.track_id \notin Ids(k))
  OBVIOUS
<1>7. (New1(x) => x.track_id \in drawn) /\ (Found1(x) => x.track_id \notin drawn)
      /\ (New1(y) => y.track_id \in drawn) /\ (Found1(y) => y.track_id \notin drawn)
  OBVIOUS
<1> HIDE DEF Old1, New1, Found1, k
<1> QED BY <1>1, <1>2, <1>3, <1>4, <1>5, <1>6, <1>7

-----------------------------------------------------------------------------
(* The lists *)

(* Update keeps the lists in order whatever identities were drawn. *)
LEMMA ListUpdate ==
    ASSUME ListInv, Update
    PROVE  ListInv'
<1>t. /\ frame_id \in Nat /\ now \in Nat /\ now = frame_id + 1 /\ drawn \subseteq Nat
      /\ tracked_stracks \subseteq Track /\ lost_stracks \subseteq Track
  BY DEF ListInv, TypeOK, now
<1>1. PICK m1, m2, m3 : Associate(m1, m2, m3)
  BY DEF Update
<1>2. /\ Rounds(m1, m2, m3) /\ frame_id' = now
      /\ removed_stracks' = removed_stracks
            \cup Ids((tracked_stracks \ Confirmed) \ m3)
            \cup Ids({t \in lost_stracks \ m1 : Expired(t, now)})
      /\ used' = used \cup Ids(tracked_stracks' \cup lost_stracks')
  BY <1>1, <1>t, Outcome
<1>3. /\ tracked_stracks' \subseteq Shown(m1, m2, m3)
      /\ lost_stracks' \subseteq Lost(m1, m2, m3)
  <2>1. WithoutDuplicates(m1, m2, m3)
    BY <1>1, <1>t, Outcome
  <2> QED BY <2>1 DEF WithoutDuplicates
<1>4. \A x \in tracked_stracks' : x \in Track /\ x.state = "Tracked" /\ x.frame_id = now
  BY <1>3, <1>t, ShownOrigin
<1>5. \A x \in lost_stracks' : x \in Track /\ x.frame_id < now /\ x.state # "Tracked"
  <2> SUFFICES ASSUME NEW x \in Lost(m1, m2, m3)
               PROVE  x \in Track /\ x.frame_id < now /\ x.state # "Tracked"
    BY <1>3
  <2>1. /\ x \in Track /\ x.state # "Tracked"
        /\ x.frame_id = frame_id \/ x.frame_id < frame_id
    BY LostOrigin
  <2> QED BY <2>1, <1>t DEF Track
<1>6. TypeOK'
  BY <1>2, <1>4, <1>5 DEF Update, ListInv, TypeOK, now
<1>7. ShownTracksAreFresh'
  BY <1>2, <1>4, <1>5 DEF ShownTracksAreFresh
<1>8. OverdueAreRemoved'
  <2> SUFFICES ASSUME NEW x \in lost_stracks', now - x.frame_id > MaxTimeLost,
                      now - x.frame_id > 1
               PROVE  x.track_id \in removed_stracks'
    BY <1>2 DEF OverdueAreRemoved
  <2>1. x.frame_id # frame_id
    BY <1>t
  <2>2. PICK t \in lost_stracks \ m1 : x.track_id = t.track_id /\ x.frame_id = t.frame_id
    BY <1>3, <2>1, LostOrigin
  <2>3. Expired(t, now)
    BY <2>2 DEF Expired
  <2> QED BY <2>2, <2>3, <1>2 DEF Ids
<1>9. LostAtDifferentTimes'
  <2> SUFFICES ASSUME NEW x \in lost_stracks', NEW y \in lost_stracks',
                      x.track_id = y.track_id, x.frame_id = y.frame_id
               PROVE  x = y
    BY DEF LostAtDifferentTimes
  <2>1. CASE x.frame_id = frame_id
    <3> DEFINE Miss(z) == \E t \in tracked_stracks : z = MarkLost(t) /\ z.track_id = t.track_id
    <3>0. ASSUME NEW z \in Lost(m1, m2, m3), z.frame_id = frame_id PROVE Miss(z)
      BY <3>0, <1>t, LostOrigin
    <3>1. PICK t \in tracked_stracks : x = MarkLost(t) /\ x.track_id = t.track_id
      BY <2>1, <1>3, <3>0
    <3>2. PICK u \in tracked_stracks : y = MarkLost(u) /\ y.track_id = u.track_id
      BY <2>1, <1>3, <3>0
    <3> QED BY <3>1, <3>2 DEF ListInv
  <2>2. CASE x.frame_id # frame_id
    <3>1. PICK t \in lost_stracks : /\ x = Aged(t) /\ x.track_id = t.track_id
                                    /\ x.frame_id = t.frame_id
      BY <2>2, <1>3, <1>t, LostOrigin
    <3>2. PICK u \in lost_stracks : /\ y = Aged(u) /\ y.track_id = u.track_id
                                    /\ y.frame_id = u.frame_id
      BY <2>2, <1>3, <1>t, LostOrigin
    <3> QED BY <3>1, <3>2 DEF ListInv, LostAtDifferentTimes
  <2> QED BY <2>1, <2>2
<1>10. ExpiredTracksLeave'
  <2> SUFFICES ASSUME NEW x \in lost_stracks'
               PROVE  now - x.frame_id <= MaxTimeLost + 1 \/ now - x.frame_id <= 2
    BY <1>2 DEF ExpiredTracksLeave
  <2>1. CASE x.frame_id = frame_id
    BY <2>1, <1>t
  <2>2. CASE x.frame_id # frame_id
    <3>1. PICK t \in lost_stracks : /\ x.track_id = t.track_id /\ x.frame_id = t.frame_id
                                    /\ x.track_id \notin removed_stracks
      BY <2>2, <1>3, <1>t, LostOrigin
    <3>2. ~(frame_id - t.frame_id > MaxTimeLost /\ frame_id - t.frame_id > 1)
      BY <3>1 DEF ListInv, OverdueAreRemoved
    <3>3. t.frame_id \in Nat
      BY <1>t, TrackFacts
    <3> QED BY <3>1, <3>2, <3>3, <1>t, ByteAssumption
  <2> QED BY <2>1, <2>2
<1>11. \A x, y \in tracked_stracks' : x.track_id = y.track_id => x = y
  BY <1>2, <1>3, <1>t, ShownUnique
<1>12. Ids(Present)' \subseteq used' /\ used' \subseteq Nat
  <2>1. \A x \in tracked_stracks' \cup lost_stracks' : x.track_id \in Nat
    BY <1>4, <1>5 DEF Track
  <2> QED BY <2>1, <1>2 DEF ListInv, Ids, Present
<1> QED BY <1>6, <1>7, <1>8, <1>9, <1>10, <1>11, <1>12 DEF ListInv

(* The other steps do not touch the lists. *)
LEMMA ListQuiet ==
    ASSUME ListInv, UNCHANGED listVars, TypeOK'
    PROVE  ListInv'
  BY DEF ListInv, listVars, ShownTracksAreFresh, OverdueAreRemoved, LostAtDifferentTimes,
         ExpiredTracksLeave, Ids, Present

LEMMA CounterTypes ==
    ASSUME ListInv,
           \/ NextIdRead \/ NextIdWrite \/ NextIdReturn
           \/ \E s \in OtherStreams : OtherRead(s)
           \/ \E p \in pending : OtherWrite(p)
           \/ UNCHANGED vars
    PROVE  TypeOK' /\ UNCHANGED listVars
<1>t. TypeOK
  BY DEF ListInv
<1>1. CASE NextIdRead \/ NextIdWrite \/ NextIdReturn
  <2>1. raced' \in BOOLEAN
    <3>1. raced' = raced \/ raced' = (raced \/ pending # {})
      BY <1>1 DEF NextIdRead, NextIdWrite, NextIdReturn
    <3> QED BY <3>1, <1>t, Zenon DEF TypeOK
  <2>2. count' \in Nat /\ mine' \in Nat /\ drawn' \in SUBSET Nat
    <3>1. count' \in {count, mine + 1} /\ mine' \in {mine, count, 0}
          /\ drawn' \in {drawn, drawn \cup {count}}
      BY <1>1 DEF NextIdRead, NextIdWrite, NextIdReturn
    <3> QED BY <3>1, <1>t DEF TypeOK
  <2>3. idpc' \in {"idle", "read", "written"} /\ UNCHANGED <<listVars, pending>>
    BY <1>1 DEF NextIdRead, NextIdWrite, NextIdReturn
  <2> QED BY <2>1, <2>2, <2>3, <1>t DEF TypeOK, listVars
<1>2. ASSUME NEW s \in OtherStreams, OtherRead(s) PROVE TypeOK' /\ UNCHANGED listVars
  BY <1>2, <1>t DEF OtherRead, TypeOK, listVars
<1>3. ASSUME NEW p \in pending, OtherWrite(p) PROVE TypeOK' /\ UNCHANGED listVars
  <2>1. p[2] \in Nat
    BY <1>t DEF TypeOK
  <2> QED BY <2>1, <1>3, <1>t DEF OtherWrite, TypeOK, listVars
<1>4. CASE UNCHANGED vars
  BY <1>4, <1>t DEF vars, listVars, TypeOK
<1> QED BY <1>1, <1>2, <1>3, <1>4

-----------------------------------------------------------------------------
(* The identities *)

LEMMA InitByteInv == Init => ByteInv
<1> SUFFICES ASSUME Init PROVE ByteInv
  OBVIOUS
<1>1. Present = {} /\ Ids(Present) = {}
  BY DEF Init, Present, Ids
<1>2. TypeOK
  BY DEF Init, TypeOK
<1>3. ListInv
  BY <1>1, <1>2 DEF Init, ListInv, ShownTracksAreFresh, OverdueAreRemoved,
                    LostAtDifferentTimes, ExpiredTracksLeave
<1>4. CounterInv /\ IdentityInv
  BY <1>1 DEF Init, CounterInv, IdentityInv
<1> QED BY <1>3, <1>4 DEF ByteInv

(* A step of the counter by which no two streams come together in it. *)
LEMMA CounterStep ==
    ASSUME ByteInv, ~raced',
           \/ NextIdRead \/ NextIdWrite \/ NextIdReturn
           \/ \E s \in OtherStreams : OtherRead(s)
           \/ \E p \in pending : OtherWrite(p)
    PROVE  ~raced /\ CounterInv' /\ UNCHANGED listVars
<1>l. UNCHANGED listVars
  BY CounterTypes DEF ByteInv
<1>u. used' = used
  BY <1>l DEF listVars
<1>t. /\ count \in Nat /\ mine \in Nat /\ drawn \subseteq Nat /\ used \subseteq Nat
      /\ pending \subseteq OtherStreams \X Nat /\ raced \in BOOLEAN
      /\ idpc \in {"idle", "read", "written"}
  BY DEF ByteInv, ListInv, TypeOK
<1>r. ~raced
  BY <1>t DEF NextIdRead, NextIdWrite, NextIdReturn, OtherRead, OtherWrite
<1>c. CounterInv
  BY <1>r DEF ByteInv
<1>1. CASE NextIdRead
  <2>1. pending = {} /\ pending' = {} /\ idpc' = "read" /\ mine' = count'
        /\ UNCHANGED <<count, drawn>>
    BY <1>1 DEF NextIdRead
  <2> QED BY <2>1, <1>u, <1>c, <1>r, <1>l DEF CounterInv
<1>2. CASE NextIdWrite
  <2>1. /\ pending = {} /\ pending' = {} /\ idpc' = "written" /\ count' = count + 1
        /\ UNCHANGED drawn
    BY <1>2, <1>c DEF NextIdWrite, CounterInv
  <2>2. \A i \in used \cup drawn : i <= count /\ i \in Nat
    BY <1>c, <1>t DEF CounterInv
  <2>3. \A i \in used \cup drawn : i <= count' /\ i # count'
    BY <2>1, <2>2, <1>t
  <2> QED BY <2>1, <2>3, <1>u, <1>c, <1>r, <1>l DEF CounterInv
<1>3. CASE NextIdReturn
  <2>1. /\ pending = {} /\ pending' = {} /\ idpc' = "idle" /\ drawn' = drawn \cup {count}
        /\ count' = count /\ count \notin used
    BY <1>3, <1>c DEF NextIdReturn, CounterInv
  <2>2. \A i \in used \cup drawn : i <= count
    BY <1>c DEF CounterInv
  <2> QED BY <2>1, <2>2, <1>t, <1>u, <1>c, <1>r, <1>l DEF CounterInv
<1>4. ASSUME NEW s \in OtherStreams, OtherRead(s) PROVE CounterInv'
  <2>1. /\ pending' = pending \cup {<<s, count>>} /\ idpc = "idle"
        /\ UNCHANGED <<count, idpc, mine, drawn>>
    BY <1>4 DEF OtherRead
  <2>2. \A i \in used \cup drawn : i <= count /\ \A p \in pending' : i <= p[2]
    BY <2>1, <1>c DEF CounterInv
  <2> QED BY <2>1, <2>2, <1>u, <1>c DEF CounterInv
<1>5. ASSUME NEW p \in pending, OtherWrite(p) PROVE CounterInv'
  <2>1. /\ pending' = pending \ {p} /\ count' = p[2] + 1 /\ idpc = "idle"
        /\ UNCHANGED <<idpc, mine, drawn>>
    BY <1>5, <1>c DEF OtherWrite, CounterInv
  <2>2. p[2] \in Nat
    BY <1>t
  <2>3. \A i \in used \cup drawn : i <= count' /\ \A q \in pending' : i <= q[2]
    <3>1. \A i \in used \cup drawn : i <= p[2] /\ i \in Nat /\ \A q \in pending' : i <= q[2]
      BY <2>1, <1>c, <1>t DEF CounterInv
    <3> QED BY <3>1, <2>1, <2>2
  <2> QED BY <2>1, <2>3, <1>u, <1>c DEF CounterInv
<1> QED BY <1>1, <1>2, <1>3, <1>4, <1>5, <1>r, <1>l

(* Update, as long as no two streams were in the counter together: every   *)
(* identity stands for one track, and an identity that is known as removed *)
(* while its track is still among the lost ones has expired.               *)
LEMMA IdentityUpdate ==
    ASSUME ByteInv, ~raced, Update
    PROVE  /\ IdentityInv' /\ CounterInv'
           /\ \A t \in Present' : t.track_id \in Ids(Present) \/ t.track_id \notin used
<1>i. ListInv /\ CounterInv /\ IdentityInv
  BY DEF ByteInv
<1>t. /\ frame_id \in Nat /\ now \in Nat /\ now = frame_id + 1 /\ drawn \subseteq Nat
      /\ tracked_stracks \subseteq Track /\ lost_stracks \subseteq Track
  BY <1>i DEF ListInv, TypeOK, now
<1>f. tracked_stracks \cap lost_stracks = {}
  BY <1>i, Zenon DEF ListInv, ShownTracksAreFresh
<1>q. \A t, u \in tracked_stracks \cup lost_stracks : t.track_id = u.track_id => t = u
  BY <1>i DEF IdentityInv, Present
<1>k. \A t \in tracked_stracks \cup lost_stracks :
          t.track_id \in Ids(Present) /\ t.track_id \in used /\ t.track_id \notin drawn
  BY <1>i DEF ListInv, CounterInv, Ids, Present
<1>1. PICK m1, m2, m3 : Associate(m1, m2, m3)
  BY DEF Update
<1>2. /\ Rounds(m1, m2, m3) /\ frame_id' = now
      /\ removed_stracks' = removed_stracks
            \cup Ids((tracked_stracks \ Confirmed) \ m3)
            \cup Ids({t \in lost_stracks \ m1 : Expired(t, now)})
      /\ used' = used \cup Ids(tracked_stracks' \cup lost_stracks')
  BY <1>1, <1>i, <1>t, Outcome
<1>3. /\ tracked_stracks' \subseteq Shown(m1, m2, m3)
      /\ lost_stracks' \subseteq Lost(m1, m2, m3)
  <2>1. WithoutDuplicates(m1, m2, m3)
    BY <1>1, <1>i, <1>t, Outcome
  <2> QED BY <2>1 DEF WithoutDuplicates
<1>4. \A x \in Shown(m1, m2, m3) :
          \/ \E t \in (m1 \cup m2 \cup m3) \cap tracked_stracks : x.track_id = t.track_id
          \/ x.track_id \in drawn
          \/ \E t \in m1 \cap lost_stracks : x.track_id = t.track_id
  <2> SUFFICES ASSUME NEW x \in Shown(m1, m2, m3)
               PROVE  \/ \E t \in (m1 \cup m2 \cup m3) \cap tracked_stracks :
                            x.track_id = t.track_id
                      \/ x.track_id \in drawn
                      \/ \E t \in m1 \cap lost_stracks : x.track_id = t.track_id
    OBVIOUS
  <2> QED BY <1>i, <1>t, ShownOrigin
<1>5. ASSUME NEW x \in Lost(m1, m2, m3)
      PROVE  \E t \in tracked_stracks \cup lost_stracks :
                /\ x.track_id = t.track_id
                /\ \/ t \in Confirmed \ (m1 \cup m2) /\ x = MarkLost(t) /\ t \in tracked_stracks
                   \/ t \in lost_stracks \ m1 /\ x = Aged(t) /\ x.frame_id = t.frame_id
                      /\ x.track_id \notin Ids(Shown(m1, m2, m3))
  BY <1>i, LostOrigin
<1>m. Confirmed \subseteq tracked_stracks /\ m3 \cap Confirmed = {}
  BY <1>2 DEF Rounds, Confirmed
<1>6. \A x \in Present', y \in Present' : x.track_id = y.track_id => x = y
  <2>1. ASSUME NEW x \in Shown(m1, m2, m3), NEW y \in Lost(m1, m2, m3),
               x.track_id = y.track_id
        PROVE  FALSE
    <3>1. PICK u \in tracked_stracks \cup lost_stracks :
                /\ y.track_id = u.track_id
                /\ \/ u \in Confirmed \ (m1 \cup m2) /\ u \in tracked_stracks
                   \/ y.track_id \notin Ids(Shown(m1, m2, m3))
      BY <1>5
    <3>2. x.track_id \in Ids(Shown(m1, m2, m3))
      BY DEF Ids
    <3>3. u \in Confirmed \ (m1 \cup m2) /\ u \in tracked_stracks
      BY <3>1, <3>2, <2>1
    <3>4. x.track_id \notin drawn
      BY <3>1, <2>1, <1>k
    <3>5. ASSUME NEW t \in (m1 \cup m2 \cup m3) \cap tracked_stracks, x.track_id = t.track_id
          PROVE  FALSE
      <4>1. t = u
        BY <3>1, <3>5, <2>1, <1>q
      <4> QED BY <4>1, <3>3, <1>m
    <3>6. ASSUME NEW t \in m1 \cap lost_stracks, x.track_id = t.track_id
          PROVE  FALSE
      <4>1. t = u
        BY <3>1, <3>6, <2>1, <1>q
      <4> QED BY <4>1, <3>3, <1>f
    <3> QED BY <1>4, <3>4, <3>5, <3>6
  <2>2. ASSUME NEW x \in Lost(m1, m2, m3), NEW y \in Lost(m1, m2, m3),
               x.track_id = y.track_id
        PROVE  x = y
    <3>1. PICK t \in tracked_stracks \cup lost_stracks :
                /\ x.track_id = t.track_id
                /\ \/ t \in tracked_stracks /\ x = MarkLost(t)
                   \/ t \in lost_stracks /\ x = Aged(t)
      BY <1>5
    <3>2. PICK u \in tracked_stracks \cup lost_stracks :
                /\ y.track_id = u.track_id
                /\ \/ u \in tracked_stracks /\ y = MarkLost(u)
                   \/ u \in lost_stracks /\ y = Aged(u)
      BY <1>5
    <3>3. t = u
      BY <3>1, <3>2, <2>2, <1>q
    <3> QED BY <3>1, <3>2, <3>3, <1>f
  <2>3. \A x, y \in Shown(m1, m2, m3) : x.track_id = y.track_id => x = y
    BY <1>2, <1>i, <1>t, ShownUnique
  <2> QED BY <2>1, <2>2, <2>3, <1>3 DEF Present
<1>7. ASSUME NEW x \in lost_stracks', x.track_id \in removed_stracks'
      PROVE  now - x.frame_id > MaxTimeLost
  <2>1. x.track_id \notin removed_stracks
    BY <1>3, <1>i, LostOrigin
  <2>2. PICK t \in tracked_stracks \cup lost_stracks :
            /\ x.track_id = t.track_id
            /\ \/ t \in Confirmed
               \/ t \in lost_stracks \ m1 /\ x.frame_id = t.frame_id
    BY <1>3, <1>5
  <2>3. CASE x.track_id \in Ids((tracked_stracks \ Confirmed) \ m3)
    <3>1. PICK u \in tracked_stracks \ Confirmed : x.track_id = u.track_id
      BY <2>3 DEF Ids
    <3>2. t = u
      BY <3>1, <2>2, <1>q
    <3> QED BY <3>1, <3>2, <2>2, <1>f
  <2>4. CASE x.track_id \in Ids({u \in lost_stracks \ m1 : Expired(u, now)})
    <3>1. PICK u \in lost_stracks : x.track_id = u.track_id /\ Expired(u, now)
      BY <2>4 DEF Ids
    <3>2. t = u
      BY <3>1, <2>2, <1>q
    <3>3. x.frame_id = u.frame_id
      BY <3>1, <3>2, <2>2, <1>f, <1>m
    <3> QED BY <3>1, <3>3 DEF Expired
  <2> QED BY <1>2, <1>7, <2>1, <2>3, <2>4
<1>8. \A x \in Present' : x.track_id \in Ids(Present) \cup drawn
  <2>1. \A x \in Shown(m1, m2, m3) : x.track_id \in Ids(Present) \cup drawn
    BY <1>4, <1>k
  <2>2. \A x \in Lost(m1, m2, m3) : x.track_id \in Ids(Present)
    BY <1>5, <1>k
  <2> QED BY <2>1, <2>2, <1>3 DEF Present
<1>9. CounterInv'
  <2>1. /\ drawn' = {} /\ idpc = "idle" /\ UNCHANGED <<count, idpc, mine, pending>>
    BY DEF Update
  <2>2. used' \subseteq used \cup drawn
    <3>1. Ids(Present) \subseteq used
      BY <1>i DEF ListInv
    <3> QED BY <3>1, <1>2, <1>8 DEF Ids, Present
  <2> QED BY <2>1, <2>2, <1>i DEF CounterInv
<1>10. IdentityInv'
  BY <1>6, <1>7, <1>2 DEF IdentityInv
<1>11. \A t \in Present' : t.track_id \in Ids(Present) \/ t.track_id \notin used
  BY <1>8, <1>i DEF CounterInv
<1> QED BY <1>9, <1>10, <1>11

LEMMA ByteStep == ASSUME ByteInv, [Next]_vars PROVE ByteInv'
<1>1. CASE Update
  <2>1. ListInv'
    BY <1>1, ListUpdate DEF ByteInv
  <2>2. raced' = raced
    BY <1>1 DEF Update
  <2> QED BY <1>1, <2>1, <2>2, IdentityUpdate DEF ByteInv
<1>2. CASE \/ NextIdRead \/ NextIdWrite \/ NextIdReturn
           \/ \E s \in OtherStreams : OtherRead(s)
           \/ \E p \in pending : OtherWrite(p)
  <2>1. ListInv' /\ UNCHANGED listVars
    BY <1>2, CounterTypes, ListQuiet DEF ByteInv
  <2>2. ASSUME ~raced' PROVE CounterInv' /\ IdentityInv'
    <3>1. ~raced /\ CounterInv'
      BY <1>2, <2>2, CounterStep
    <3> QED BY <3>1, <2>1 DEF ByteInv, IdentityInv, Present, listVars
  <2> QED BY <2>1, <2>2 DEF ByteInv
<1>3. CASE UNCHANGED vars
  <2>1. ListInv'
    BY <1>3, CounterTypes, ListQuiet DEF ByteInv
  <2> QED BY <1>3, <2>1 DEF ByteInv, vars, listVars, CounterInv, IdentityInv, Present
<1> QED BY <1>1, <1>2, <1>3 DEF Next

LEMMA ByteInvariant == Spec => []ByteInv
  BY InitByteInv, ByteStep, PTL DEF Spec

(* BYTETracker.cpp 162-192, 254-270, STrack.cpp 191-196: for any number of *)
(* streams, no two drawn tracks carry one identity, and no two tracks at   *)
(* all as long as no other stream was in next_id together with this one.   *)
THEOREM IdentitiesAreUnique == Spec => []UniqueIds
<1>1. ByteInv => UniqueIds
  <2> SUFFICES ASSUME ByteInv PROVE UniqueIds
    OBVIOUS
  <2>1. tracked_stracks \cap lost_stracks = {}
    BY Zenon DEF ByteInv, ListInv, ShownTracksAreFresh
  <2> QED BY <2>1 DEF ByteInv, ListInv, IdentityInv, UniqueIds
<1> QED BY <1>1, ByteInvariant, PTL

(* BYTETracker.cpp 125-131, 169-174: what is drawn was matched in this     *)
(* frame, for any max_time_lost and any association outcome.               *)
THEOREM DrawnTracksAreFresh == Spec => []ShownTracksAreFresh
<1>1. ByteInv => ShownTracksAreFresh
  BY DEF ByteInv, ListInv
<1> QED BY <1>1, ByteInvariant, PTL

(* BYTETracker.cpp 162-167, 183-185: a lost track is gone one frame after  *)
(* it expired, whatever the id counter does.                               *)
THEOREM ExpiredAreDropped == Spec => []ExpiredTracksLeave
<1>1. ByteInv => ExpiredTracksLeave
  BY DEF ByteInv, ListInv
<1> QED BY <1>1, ByteInvariant, PTL

(* BYTETracker.cpp 72, 154-160, STrack.cpp 191-196: an identity that left  *)
(* the lists never comes back, for any number of frames and streams, as    *)
(* long as no other stream was in next_id together with this one.          *)
THEOREM IdentitiesAreNotReused == Spec => GoneForGood
<1>1. ASSUME ByteInv, [Next]_vars
      PROVE  [~raced' => \A t \in Present' :
                 t.track_id \in Ids(Present) \/ t.track_id \notin used]_vars
  <2> SUFFICES ASSUME ~raced'
               PROVE  \A t \in Present' : t.track_id \in Ids(Present) \/ t.track_id \notin used
    OBVIOUS
  <2>1. CASE Update
    <3>1. ~raced
      BY <2>1 DEF Update
    <3> QED BY <1>1, <2>1, <3>1, IdentityUpdate
  <2>2. CASE UNCHANGED listVars
    BY <2>2 DEF listVars, Present, Ids
  <2>3. Update \/ UNCHANGED listVars
    BY <1>1 DEF Next, NextIdRead, NextIdWrite, NextIdReturn, OtherRead, OtherWrite, vars
  <2> QED BY <2>1, <2>2, <2>3
<1> QED BY <1>1, ByteInvariant, PTL DEF Spec, GoneForGood

(* The promise of LostTracksAreKept for one update(). *)
LEMMA KeptByUpdate ==
    ASSUME ByteInv, ~raced, Update, NEW t \in Present, t.is_activated,
           frame_id' - t.frame_id <= MaxTimeLost + 1,
           ~(t \in tracked_stracks /\ t.track_id \in removed_stracks)
    PROVE  t.track_id \in Ids(Present)' \cup duplicates'
<1>i. ListInv /\ IdentityInv
  BY DEF ByteInv
<1>t. /\ frame_id \in Nat /\ now \in Nat /\ now = frame_id + 1 /\ drawn \subseteq Nat
      /\ tracked_stracks \subseteq Track /\ lost_stracks \subseteq Track
  BY <1>i DEF ListInv, TypeOK, now
<1>p. t \in tracked_stracks \/ t \in lost_stracks
  BY DEF Present
<1>1. PICK m1, m2, m3 : Associate(m1, m2, m3)
  BY DEF Update
<1>2. WithoutDuplicates(m1, m2, m3) /\ frame_id' = now
  BY <1>1, <1>i, <1>t, Outcome
<1>3. ASSUME NEW x \in Shown(m1, m2, m3) \cup Lost(m1, m2, m3), x.track_id = t.track_id
      PROVE  t.track_id \in Ids(Present)' \cup duplicates'
  BY <1>3, <1>2 DEF WithoutDuplicates, Ids, Present
<1>4. CASE t \in tracked_stracks /\ t \in m1 \cup m2 \cup m3
  <2>1. Matched(t, now) \in Shown(m1, m2, m3)
    BY <1>4 DEF Shown, Kept
  <2>2. Matched(t, now).track_id = t.track_id
    BY <1>4, <1>t, TrackFacts
  <2> QED BY <2>1, <2>2, <1>3
<1>5. CASE t \in tracked_stracks /\ t \notin m1 \cup m2 \cup m3
  <2>1. MarkLost(t).track_id = t.track_id
    BY <1>5, <1>t, TrackFacts
  <2>2. MarkLost(t) \in Missed(m1, m2)
    BY <1>5 DEF Missed, Confirmed
  <2>3. MarkLost(t) \in Lost(m1, m2, m3)
    BY <1>5, <2>1, <2>2 DEF Lost
  <2> QED BY <2>1, <2>3, <1>3
<1>6. CASE t \in lost_stracks /\ t.track_id \in Ids(Shown(m1, m2, m3))
  BY <1>6, <1>3 DEF Ids
<1>7. CASE t \in lost_stracks /\ t.track_id \notin Ids(Shown(m1, m2, m3))
  <2>1. t \notin m1
    <3> SUFFICES ASSUME t \in m1 PROVE FALSE
      OBVIOUS
    <3>1. Matched(t, now) \in Found(m1) /\ Matched(t, now).track_id = t.track_id
      BY <1>7, <1>t, TrackFacts DEF Found
    <3> QED BY <3>1, <1>7 DEF Shown, Ids
  <2>2. t.track_id \notin removed_stracks
    <3>1. t.frame_id \in Nat
      BY <1>7, <1>t, TrackFacts
    <3>2. ~(frame_id - t.frame_id > MaxTimeLost)
      BY <1>2, <1>t, <3>1, ByteAssumption
    <3> QED BY <3>2, <1>7, <1>i DEF IdentityInv
  <2>3. Aged(t).track_id = t.track_id
    BY <1>7, <1>t, TrackFacts DEF Aged
  <2>4. Aged(t) \in Old(m1)
    BY <1>7, <2>1 DEF Old
  <2>5. Aged(t) \in Lost(m1, m2, m3)
    BY <1>7, <2>2, <2>3, <2>4 DEF Lost
  <2> QED BY <2>3, <2>5, <1>3
<1> QED BY <1>p, <1>4, <1>5, <1>6, <1>7

(* BYTETracker.cpp 125-131, 162-167, 179-185: for any max_time_lost, a     *)
(* confirmed track that is not matched keeps its identity until it is      *)
(* overdue, up to the exceptions that LostTracksAreKept names.             *)
THEOREM LostAreKept == Spec => LostTracksAreKept
<1> DEFINE Overlooked(t) == /\ t.is_activated /\ ~raced'
                            /\ frame_id' - t.frame_id <= MaxTimeLost + 1
                            /\ ~(t \in tracked_stracks /\ t.track_id \in removed_stracks)
<1>1. ASSUME ByteInv, [Next]_vars
      PROVE  [\A t \in Present : Overlooked(t) =>
                 t.track_id \in Ids(Present)' \cup duplicates']_vars
  <2> SUFFICES ASSUME NEW t \in Present, Overlooked(t)
               PROVE  t.track_id \in Ids(Present)' \cup duplicates'
    OBVIOUS
  <2>1. CASE Update
    <3>1. ~raced
      BY <2>1 DEF Update
    <3> QED BY <1>1, <2>1, <3>1, KeptByUpdate
  <2>2. CASE UNCHANGED listVars
    BY <2>2 DEF listVars, Present, Ids
  <2>3. Update \/ UNCHANGED listVars
    BY <1>1 DEF Next, NextIdRead, NextIdWrite, NextIdReturn, OtherRead, OtherWrite, vars
  <2> QED BY <2>1, <2>2, <2>3
<1> QED BY <1>1, ByteInvariant, PTL DEF Spec, LostTracksAreKept
=============================================================================
