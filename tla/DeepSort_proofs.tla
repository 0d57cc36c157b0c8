-------------------------- MODULE DeepSort_proofs --------------------------
(***************************************************************************)
(* For any max_age, n_init, gallery budget and re-identification interval: *)
(* the tracks DeepSort keeps, the galleries it matches them with and the   *)
(* identities it draws agree with when the tracks were last matched.       *)
(***************************************************************************)
EXTENDS DeepSort, FiniteSetTheorems, FunctionTheorems, SequenceTheorems, TLAPS

Track == [track_id : Nat, hits : Nat, time_since_update : Nat,
          state : {"Tentative", "Confirmed", "Deleted"}, features : Seq(Nat), seen : Nat]

(* Features in the order they were computed, the last one in frame f. *)
History(s, f) ==
    /\ s \in Seq(Nat) /\ Len(s) >= 1 /\ s[Len(s)] = f
    /\ \A i, j \in 1 .. Len(s) : i < j => s[i] < s[j]

(* What one track must satisfy after frame f, if the newest frame with an  *)
(* association is s: its age counts frames, it missed no more than max_age *)
(* of them, and a track holds its features until it is confirmed.          *)
TrackOK(t, f, s) ==
    /\ t \in Track /\ t.state \in {"Tentative", "Confirmed"}
    /\ t.seen <= s /\ s - t.seen <= MaxAge
    /\ t.time_since_update = f - t.seen
    /\ t.state = "Tentative" => /\ t.seen = s /\ t.hits >= 1
                                /\ t.hits = 1 \/ t.hits < NInit
                                /\ History(t.features, t.seen) /\ Len(t.features) = t.hits
    /\ t.state = "Confirmed" => t.hits >= 2 /\ t.features = <<>>

TracksInv ==
    /\ frame_count_ \in Nat /\ sorted \in Nat /\ sorted <= frame_count_ /\ next_idx \in Nat
    /\ \A t \in tracks : TrackOK(t, frame_count_, sorted) /\ t.track_id < next_idx
    /\ \A t, u \in tracks : t.track_id = u.track_id => t = u

GalleryInv ==
    /\ DOMAIN samples = Ids(Confirmed(tracks))
    /\ \A t \in Confirmed(tracks) :
          History(samples[t.track_id], t.seen) /\ Len(samples[t.track_id]) <= Budget

DeepInv == TracksInv /\ GalleryInv /\ DrawnIdsAreRecent

-----------------------------------------------------------------------------
(* Features *)

LEMMA HistoryOne == ASSUME NEW now \in Nat PROVE History(<<now>>, now) /\ Len(<<now>>) = 1
<1>1. <<now>> \in Seq(Nat) /\ Len(<<now>>) = 1 /\ <<now>>[1] = now
  OBVIOUS
<1> QED BY <1>1 DEF History

LEMMA HistoryBounded ==
    ASSUME NEW s, NEW f, History(s, f), NEW i \in 1 .. Len(s)
    PROVE  s[i] \in Nat /\ s[i] <= f /\ Len(s) \in Nat
<1>1. s \in Seq(Nat) /\ Len(s) \in Nat /\ Len(s) \in 1 .. Len(s) /\ s[Len(s)] = f
  BY DEF History
<1>2. s[i] \in Nat /\ s[Len(s)] \in Nat
  BY <1>1
<1>3. CASE i = Len(s)
  BY <1>1, <1>2, <1>3
<1>4. CASE i < Len(s)
  <2>1. s[i] < s[Len(s)]
    BY <1>1, <1>4 DEF History
  <2> QED BY <2>1, <1>1, <1>2
<1> QED BY <1>1, <1>2, <1>3, <1>4

LEMMA HistoryAppend ==
    ASSUME NEW s, NEW f, History(s, f), NEW now \in Nat, f < now
    PROVE  History(Append(s, now), now) /\ Len(Append(s, now)) = Len(s) + 1
<1> DEFINE a == Append(s, now)
<1>1. /\ s \in Seq(Nat) /\ Len(s) \in Nat /\ a \in Seq(Nat) /\ Len(a) = Len(s) + 1
      /\ a[Len(s) + 1] = now /\ \A i \in 1 .. Len(s) : a[i] = s[i]
  BY DEF History
<1> HIDE DEF a
<1>2. \A i \in 1 .. Len(s) : a[i] \in Nat /\ a[i] <= f /\ f \in Nat
  <2>1. f \in Nat
    BY DEF History
  <2> QED BY <1>1, <2>1, HistoryBounded
<1>3. ASSUME NEW i \in 1 .. Len(a), NEW j \in 1 .. Len(a), i < j PROVE a[i] < a[j]
  <2>1. i \in 1 .. Len(s)
    BY <1>1, <1>3
  <2>2. CASE j \in 1 .. Len(s)
    BY <1>1, <1>3, <2>1, <2>2 DEF History
  <2>3. CASE j = Len(s) + 1
    BY <1>1, <1>2, <2>1, <2>3
  <2> QED BY <1>1, <2>2, <2>3
<1>4. History(a, now)
  BY <1>1, <1>3 DEF History
<1> QED BY <1>1, <1>4 DEF a

LEMMA HistoryShort ==
    ASSUME NEW s, NEW f, History(s, f), NEW n \in 1 .. Len(s)
    PROVE  History(SubSeq(s, 1, n), s[n]) /\ Len(SubSeq(s, 1, n)) = n
<1> DEFINE b == SubSeq(s, 1, n)
<1>1. s \in Seq(Nat) /\ Len(s) \in Nat /\ \A i \in 1 .. Len(s) : s[i] \in Nat
  BY DEF History
<1>2. b \in Seq(Nat) /\ Len(b) = n /\ \A i \in 1 .. n : b[i] = s[i]
  BY <1>1
<1> HIDE DEF b
<1>3. ASSUME NEW i \in 1 .. Len(b), NEW j \in 1 .. Len(b), i < j PROVE b[i] < b[j]
  <2>1. i \in 1 .. Len(s) /\ j \in 1 .. Len(s) /\ b[i] = s[i] /\ b[j] = s[j]
    BY <1>1, <1>2
  <2> QED BY <2>1, <1>3 DEF History
<1>4. History(b, s[n])
  BY <1>1, <1>2, <1>3 DEF History
<1> QED BY <1>2, <1>4 DEF b

(* A target's gallery keeps its order when the feature of frame now is     *)
(* added, full or not, and does not change when there is none.             *)
LEMMA FitOne ==
    ASSUME NEW s, NEW f, History(s, f), Len(s) <= Budget, NEW now \in Nat, f < now
    PROVE  History(Fit(s, <<now>>), now) /\ Len(Fit(s, <<now>>)) <= Budget
<1>1. s \in Seq(Nat) /\ Len(s) \in Nat \ {0} /\ Len(<<now>>) = 1
  BY DEF History
<1>b. Budget \in Nat /\ Budget >= 2
  BY DeepSortAssumption
<1>2. \A q \in Seq(Nat) : q \o <<now>> = Append(q, now)
  OBVIOUS
<1>3. CASE Len(s) + 1 <= Budget
  <2>1. Fit(s, <<now>>) = Append(s, now)
    BY <1>1, <1>2, <1>3 DEF Fit
  <2>2. History(Append(s, now), now) /\ Len(Append(s, now)) = Len(s) + 1
    BY HistoryAppend
  <2> QED BY <2>1, <2>2, <1>3
<1>4. CASE ~(Len(s) + 1 <= Budget)
  <2>1. Len(s) = Budget /\ Budget - 1 \in 1 .. Len(s)
    BY <1>1, <1>4, <1>b
  <2> DEFINE r == SubSeq(s, 1, Budget - 1)
  <2>2. History(r, s[Budget - 1]) /\ Len(r) = Budget - 1
    BY <2>1, HistoryShort
  <2>3. s[Budget - 1] < now
    <3>1. s[Budget - 1] \in Nat /\ s[Budget - 1] <= f /\ f \in Nat
      <4>1. f \in Nat
        BY DEF History
      <4> QED BY <2>1, <4>1, HistoryBounded
    <3> QED BY <3>1
  <2>4. Fit(s, <<now>>) = r \o <<now>>
    BY <1>1, <1>4, <1>b DEF Fit
  <2>5. r \in Seq(Nat)
    BY <2>2 DEF History
  <2>6. Fit(s, <<now>>) = Append(r, now)
    BY <2>4, <2>5, <1>2
  <2>7. History(Append(r, now), now) /\ Len(Append(r, now)) = Len(r) + 1
    BY <2>2, <2>3, HistoryAppend
  <2> HIDE DEF r
  <2>8. Len(Append(r, now)) <= Budget
    BY <2>2, <2>7, <1>b
  <2> QED BY <2>6, <2>7, <2>8
<1> QED BY <1>3, <1>4

LEMMA FitNone ==
    ASSUME NEW s, NEW f, History(s, f), Len(s) <= Budget
    PROVE  Fit(s, <<>>) = s
<1>1. s \in Seq(Nat) /\ Len(s) \in Nat /\ Len(<<>>) = 0
  BY DEF History
<1>2. s \o <<>> = s
  BY <1>1
<1> QED BY <1>1, <1>2 DEF Fit

-----------------------------------------------------------------------------
(* Track records *)

LEMMA PreditFacts ==
    ASSUME NEW t \in Track
    PROVE  LET u == predit(t)
           IN /\ u \in Track /\ u.track_id = t.track_id /\ u.hits = t.hits
              /\ u.time_since_update = t.time_since_update + 1 /\ u.state = t.state
              /\ u.features = t.features /\ u.seen = t.seen
  BY DEF Track, predit

LEMMA UpdateFacts ==
    ASSUME NEW t \in Track, NEW now \in Nat
    PROVE  LET u == TrackUpdate(t, now)
           IN /\ u \in Track /\ u.track_id = t.track_id /\ u.hits = t.hits + 1
              /\ u.time_since_update = 0 /\ u.seen = now
              /\ u.features = Append(t.features, now)
              /\ u.state = IF t.state = "Tentative" /\ t.hits + 1 >= NInit
                           THEN "Confirmed" ELSE t.state
<1> DEFINE a == Append(t.features, now)
           st == IF t.state = "Tentative" /\ t.hits + 1 >= NInit THEN "Confirmed" ELSE t.state
<1>1. a \in Seq(Nat)
  BY DEF Track
<1>2. st \in {"Tentative", "Confirmed", "Deleted"}
  BY DEF Track
<1>3. TrackUpdate(t, now) = [t EXCEPT !.hits = t.hits + 1, !.time_since_update = 0,
                                      !.features = a, !.seen = now, !.state = st]
  BY DEF TrackUpdate
<1> HIDE DEF a, st
<1>4. TrackUpdate(t, now) =
        [track_id |-> t.track_id, hits |-> t.hits + 1, time_since_update |-> 0,
         state |-> st, features |-> a, seen |-> now]
  BY <1>3 DEF Track
<1>5. t.track_id \in Nat /\ t.hits + 1 \in Nat
  BY DEF Track
<1>6. TrackUpdate(t, now) \in Track
  BY <1>1, <1>2, <1>4, <1>5 DEF Track
<1> QED BY <1>4, <1>6 DEF a, st

LEMMA MissedFacts ==
    ASSUME NEW t \in Track
    PROVE  LET u == mark_missed(t)
           IN /\ u \in Track /\ u.track_id = t.track_id /\ u.hits = t.hits
              /\ u.time_since_update = t.time_since_update
              /\ u.features = t.features /\ u.seen = t.seen
              /\ u.state = IF t.state = "Tentative" \/ t.time_since_update > MaxAge
                           THEN "Deleted" ELSE t.state
  BY DEF Track, mark_missed

LEMMA NewFacts ==
    ASSUME NEW id \in Nat, NEW now \in Nat
    PROVE  LET u == NewTrack(id, now)
           IN /\ u \in Track /\ u.track_id = id /\ u.hits = 1
              /\ u.time_since_update = 0 /\ u.seen = now
              /\ u.features = <<now>> /\ u.state = "Tentative"
<1>1. <<now>> \in Seq(Nat)
  OBVIOUS
<1> QED BY <1>1 DEF Track, NewTrack

LEMMA ClearedFacts ==
    ASSUME NEW t \in Track
    PROVE  LET u == [t EXCEPT !.features = <<>>]
           IN /\ u \in Track /\ u.track_id = t.track_id /\ u.hits = t.hits
              /\ u.time_since_update = t.time_since_update
              /\ u.features = <<>> /\ u.seen = t.seen /\ u.state = t.state
<1>1. <<>> \in Seq(Nat)
  OBVIOUS
<1> QED BY <1>1 DEF Track

-----------------------------------------------------------------------------
(* One association *)

(* The tracks that tracker::update keeps, before the features of confirmed *)
(* ones move to the gallery.                                               *)
Kept(now, d, m) ==
    {t \in {TrackUpdate(t, now) : t \in m} \cup {mark_missed(t) : t \in Predict \ m}
             \cup {NewTrack(id, now) : id \in next_idx .. next_idx + d - Cardinality(m) - 1} :
        t.state # "Deleted"}

(* How such a track differs from what the invariant says of it later: if   *)
(* it is confirmed it may still hold features.  They are the new ones of a *)
(* target that has a gallery, or all those of a target that has none.      *)
KeptOK(t, now) ==
    /\ t \in Track /\ t.state \in {"Tentative", "Confirmed"}
    /\ t.seen <= now /\ now - t.seen <= MaxAge
    /\ t.time_since_update = now - t.seen
    /\ t.state = "Tentative" => /\ t.seen = now /\ t.hits >= 1
                                /\ t.hits = 1 \/ t.hits < NInit
                                /\ History(t.features, t.seen) /\ Len(t.features) = t.hits
    /\ t.state = "Confirmed" =>
          /\ t.hits >= 2
          /\ \/ \E u \in Confirmed(tracks) :
                   /\ u.track_id = t.track_id
                   /\ \/ t.features = <<>> /\ t.seen = u.seen
                      \/ t.features = <<now>> /\ t.seen = now
             \/ /\ t.track_id \notin Ids(Confirmed(tracks))
                /\ History(t.features, t.seen) /\ Len(t.features) <= Budget

LEMMA PredictFacts ==
    ASSUME TracksInv, NEW p \in Predict
    PROVE  \E t \in tracks :
              /\ p = predit(t) /\ t \in Track /\ p \in Track
              /\ p.track_id = t.track_id /\ p.hits = t.hits
              /\ p.time_since_update = t.time_since_update + 1 /\ p.state = t.state
              /\ p.features = t.features /\ p.seen = t.seen
              /\ TrackOK(t, frame_count_, sorted) /\ t.track_id < next_idx
<1>1. PICK t \in tracks : p = predit(t)
  BY DEF Predict
<1>2. TrackOK(t, frame_count_, sorted) /\ t.track_id < next_idx /\ t \in Track
  BY DEF TracksInv, TrackOK
<1> QED BY <1>1, <1>2, PreditFacts

(* The predicted tracks have distinct identities, so there are finitely    *)
(* many matches.                                                           *)
LEMMA PredictUnique ==
    ASSUME TracksInv, NEW p \in Predict, NEW q \in Predict, p.track_id = q.track_id
    PROVE  p = q
<1>1. PICK t \in tracks : p = predit(t) /\ p.track_id = t.track_id
  BY PredictFacts
<1>2. PICK u \in tracks : q = predit(u) /\ q.track_id = u.track_id
  BY PredictFacts
<1> QED BY <1>1, <1>2 DEF TracksInv

LEMMA MatchesAreFinite ==
    ASSUME TracksInv, NEW m \in SUBSET Predict
    PROVE  Cardinality(m) \in Nat
<1> DEFINE f == [p \in m |-> p.track_id]
<1>1. \A p \in Predict : p.track_id \in Nat /\ p.track_id < next_idx
  BY PredictFacts DEF Track
<1>2. next_idx \in Nat
  BY DEF TracksInv
<1>3. f \in [m -> 0 .. next_idx]
  BY <1>1, <1>2
<1>4. \A p, q \in m : f[p] = f[q] => p = q
  BY PredictUnique
<1>5. f \in Injection(m, 0 .. next_idx)
  BY <1>3, <1>4 DEF Injection, IsInjective
<1>6. IsFiniteSet(0 .. next_idx)
  BY <1>2, FS_Interval
<1>7. IsFiniteSet(m)
  BY <1>5, <1>6, FS_Injection
<1> QED BY <1>7, FS_CardinalityType

(* Every kept track is in order. *)
LEMMA KeptFacts ==
    ASSUME TracksInv, NEW now, now = frame_count_ + 1, NEW d \in Nat, NEW m \in SUBSET Predict,
           Cardinality(m) <= d, NEW x \in Kept(now, d, m)
    PROVE  /\ KeptOK(x, now) /\ x.track_id < next_idx + d - Cardinality(m)
           /\ \/ \E p \in m : x = TrackUpdate(p, now) /\ x.track_id = p.track_id
              \/ \E p \in Predict \ m : x = mark_missed(p) /\ x.track_id = p.track_id
              \/ x = NewTrack(x.track_id, now) /\ x.track_id >= next_idx
<1>t. /\ now \in Nat /\ frame_count_ \in Nat /\ sorted \in Nat /\ next_idx \in Nat
      /\ sorted <= frame_count_ /\ Cardinality(m) \in Nat
  BY MatchesAreFinite DEF TracksInv
<1>a. /\ MaxAge \in Nat \ {0} /\ NInit \in Nat \ {0} /\ Budget \in Nat /\ Budget >= 2
      /\ NInit <= Budget
  BY DeepSortAssumption
<1>d. x.state # "Deleted"
  BY DEF Kept
<1>1. ASSUME NEW p \in m, x = TrackUpdate(p, now)
      PROVE  KeptOK(x, now) /\ x.track_id = p.track_id /\ x.track_id < next_idx
  <2>1. PICK t \in tracks :
              /\ p \in Track /\ t \in Track
              /\ p.track_id = t.track_id /\ p.hits = t.hits /\ p.state = t.state
              /\ p.features = t.features /\ p.seen = t.seen
              /\ TrackOK(t, frame_count_, sorted) /\ t.track_id < next_idx
    BY PredictFacts
  <2>2. /\ x \in Track /\ x.track_id = t.track_id /\ x.hits = t.hits + 1
        /\ x.time_since_update = 0 /\ x.seen = now /\ x.features = Append(t.features, now)
        /\ x.state = IF t.state = "Tentative" /\ t.hits + 1 >= NInit
                     THEN "Confirmed" ELSE t.state
    <3>1. LET u == TrackUpdate(p, now)
          IN /\ u \in Track /\ u.track_id = p.track_id /\ u.hits = p.hits + 1
             /\ u.time_since_update = 0 /\ u.seen = now
             /\ u.features = Append(p.features, now)
             /\ u.state = IF p.state = "Tentative" /\ p.hits + 1 >= NInit
                          THEN "Confirmed" ELSE p.state
      BY <2>1, <1>t, UpdateFacts
    <3> QED BY <1>1, <2>1, <3>1
  <2>3. t.hits \in Nat /\ t.seen \in Nat /\ t.seen < now
    BY <2>1, <1>t DEF Track, TrackOK
  <2>4. CASE t.state = "Confirmed"
    <3>1. t.hits >= 2 /\ t.features = <<>> /\ t \in Confirmed(tracks)
      BY <2>1, <2>4 DEF TrackOK, Confirmed
    <3>2. x.features = <<now>>
      BY <2>2, <3>1
    <3>3. x.state = "Confirmed" /\ x.hits >= 2
      BY <2>2, <2>3, <2>4, <3>1
    <3> QED BY <2>1, <2>2, <3>1, <3>2, <3>3, <1>t, <1>a DEF KeptOK
  <2>5. CASE t.state = "Tentative"
    <3>1. /\ t.hits >= 1
          /\ t.hits = 1 \/ t.hits < NInit
          /\ History(t.features, t.seen) /\ Len(t.features) = t.hits
      BY <2>1, <2>5 DEF TrackOK
    <3>2. History(x.features, now) /\ Len(x.features) = x.hits
      BY <2>2, <2>3, <3>1, <1>t, HistoryAppend
    <3>3. x.track_id \notin Ids(Confirmed(tracks))
      <4> SUFFICES ASSUME NEW u \in Confirmed(tracks), u.track_id = x.track_id PROVE FALSE
        BY DEF Ids
      <4>1. u = t
        BY <2>1, <2>2 DEF TracksInv, Confirmed
      <4> QED BY <4>1, <2>5 DEF Confirmed
    <3>4. CASE t.hits + 1 >= NInit
      <4>1. x.state = "Confirmed" /\ x.hits >= 2 /\ x.hits <= Budget
        <5>1. x.state = "Confirmed" /\ x.hits = t.hits + 1
          BY <2>2, <2>5, <3>4
        <5> QED BY <5>1, <2>3, <3>1, <1>a
      <4> QED BY <2>1, <2>2, <3>2, <3>3, <4>1, <1>t, <1>a DEF KeptOK
    <3>5. CASE ~(t.hits + 1 >= NInit)
      <4>1. x.state = "Tentative" /\ x.hits >= 1 /\ x.hits < NInit
        BY <2>2, <2>3, <2>5, <3>1, <3>5, <1>a
      <4> QED BY <2>1, <2>2, <3>2, <4>1, <1>t, <1>a DEF KeptOK
    <3> QED BY <3>4, <3>5
  <2> QED BY <2>1, <2>2, <2>4, <2>5 DEF TrackOK
<1>2. ASSUME NEW p \in Predict \ m, x = mark_missed(p)
      PROVE  KeptOK(x, now) /\ x.track_id = p.track_id /\ x.track_id < next_idx
  <2>1. PICK t \in tracks :
              /\ p \in Track /\ t \in Track
              /\ p.track_id = t.track_id /\ p.hits = t.hits /\ p.state = t.state
              /\ p.time_since_update = t.time_since_update + 1
              /\ p.features = t.features /\ p.seen = t.seen
              /\ TrackOK(t, frame_count_, sorted) /\ t.track_id < next_idx
    BY PredictFacts
  <2>2. /\ x \in Track /\ x.track_id = t.track_id /\ x.hits = t.hits
        /\ x.time_since_update = t.time_since_update + 1
        /\ x.features = t.features /\ x.seen = t.seen
        /\ x.state = IF t.state = "Tentative" \/ t.time_since_update + 1 > MaxAge
                     THEN "Deleted" ELSE t.state
    BY <1>2, <2>1, MissedFacts
  <2>3. t.state = "Confirmed" /\ x.state = "Confirmed" /\ t.time_since_update + 1 <= MaxAge
    BY <2>1, <2>2, <1>d, <1>a DEF TrackOK, Track
  <2>4. t.seen \in Nat /\ t.seen <= frame_count_ /\ t.time_since_update = frame_count_ - t.seen
    BY <2>1, <1>t DEF TrackOK, Track
  <2>5. /\ x.seen <= now /\ now - x.seen <= MaxAge
        /\ x.time_since_update = now - x.seen
    BY <2>2, <2>3, <2>4, <1>t, <1>a
  <2>6. t.hits >= 2 /\ t.features = <<>> /\ t \in Confirmed(tracks)
    BY <2>1, <2>3 DEF TrackOK, Confirmed
  <2> QED BY <2>1, <2>2, <2>3, <2>5, <2>6 DEF KeptOK
<1>3. ASSUME NEW id \in next_idx .. next_idx + d - Cardinality(m) - 1, x = NewTrack(id, now)
      PROVE  KeptOK(x, now) /\ x.track_id = id
  <2>1. id \in Nat
    BY <1>t
  <2>2. /\ x \in Track /\ x.track_id = id /\ x.hits = 1 /\ x.time_since_update = 0
        /\ x.seen = now /\ x.features = <<now>> /\ x.state = "Tentative"
    BY <1>3, <1>t, <2>1, NewFacts
  <2>3. History(x.features, now) /\ Len(x.features) = 1
    BY <2>2, <1>t, HistoryOne
  <2> QED BY <2>2, <2>3, <1>t, <1>a DEF KeptOK
<1>4. CASE \E p \in m : x = TrackUpdate(p, now)
  <2>1. PICK p \in m : x = TrackUpdate(p, now)
    BY <1>4
  <2>2. KeptOK(x, now) /\ x.track_id = p.track_id /\ x.track_id < next_idx /\ x.track_id \in Nat
    BY <2>1, <1>1 DEF KeptOK, Track
  <2> QED BY <2>1, <2>2, <1>t
<1>5. CASE \E p \in Predict \ m : x = mark_missed(p)
  <2>1. PICK p \in Predict \ m : x = mark_missed(p)
    BY <1>5
  <2>2. KeptOK(x, now) /\ x.track_id = p.track_id /\ x.track_id < next_idx /\ x.track_id \in Nat
    BY <2>1, <1>2 DEF KeptOK, Track
  <2> QED BY <2>1, <2>2, <1>t
<1>6. CASE \E id \in next_idx .. next_idx + d - Cardinality(m) - 1 : x = NewTrack(id, now)
  <2>1. PICK id \in next_idx .. next_idx + d - Cardinality(m) - 1 : x = NewTrack(id, now)
    BY <1>6
  <2>2. KeptOK(x, now) /\ x.track_id = id
    BY <2>1, <1>3
  <2> QED BY <2>1, <2>2, <1>t
<1> QED BY <1>4, <1>5, <1>6 DEF Kept

(* The kept tracks have distinct identities. *)
LEMMA KeptUnique ==
    ASSUME TracksInv, NEW now, now = frame_count_ + 1, NEW d \in Nat, NEW m \in SUBSET Predict,
           Cardinality(m) <= d, NEW x \in Kept(now, d, m), NEW y \in Kept(now, d, m),
           x.track_id = y.track_id
    PROVE  x = y
<1> DEFINE Hit(z) == \E p \in m : z = TrackUpdate(p, now) /\ z.track_id = p.track_id
           Miss(z) == \E p \in Predict \ m : z = mark_missed(p) /\ z.track_id = p.track_id
           Fresh(z) == z = NewTrack(z.track_id, now) /\ z.track_id >= next_idx
<1>1. \A z \in Kept(now, d, m) : Hit(z) \/ Miss(z) \/ Fresh(z)
  BY KeptFacts
<1>2. \A p \in Predict : p.track_id < next_idx /\ p.track_id \in Nat /\ next_idx \in Nat
  BY PredictFacts DEF TracksInv, Track
<1>3. \A z : Hit(z) \/ Miss(z) => ~(z.track_id >= next_idx)
  BY <1>2
<1>4. \A p, q \in Predict : p.track_id = q.track_id => p = q
  BY PredictUnique
<1>5. CASE Hit(x) /\ Hit(y)
  BY <1>4, <1>5
<1>6. CASE Miss(x) /\ Miss(y)
  BY <1>4, <1>6
<1>7. CASE Fresh(x) /\ Fresh(y)
  BY <1>7
<1>8. ~(Hit(x) /\ Miss(y)) /\ ~(Miss(x) /\ Hit(y))
  BY <1>4
<1>9. (Fresh(x) => x.track_id >= next_idx) /\ (Fresh(y) => y.track_id >= next_idx)
  OBVIOUS
<1> HIDE DEF Hit, Miss, Fresh
<1> QED BY <1>1, <1>3, <1>5, <1>6, <1>7, <1>8, <1>9

LEMMA InitDeepInv == Init => DeepInv
<1> SUFFICES ASSUME Init PROVE DeepInv
  OBVIOUS
<1>1. TracksInv
  BY DEF Init, TracksInv
<1>2. Confirmed(tracks) = {} /\ Ids(Confirmed(tracks)) = {} /\ DOMAIN samples = {}
  BY DEF Init, Confirmed, Ids
<1>3. GalleryInv
  BY <1>2 DEF GalleryInv
<1>4. DrawnIdsAreRecent
  BY DEF Init, DrawnIdsAreRecent
<1> QED BY <1>1, <1>3, <1>4 DEF DeepInv

(* tracker::predict alone only ages the tracks. *)
LEMMA IntervalStep ==
    ASSUME TracksInv, GalleryInv, NEW d, SortInterval(d), frame_count_' = frame_count_ + 1
    PROVE  TracksInv' /\ GalleryInv'
<1>t. frame_count_ \in Nat /\ sorted \in Nat /\ sorted <= frame_count_ /\ next_idx \in Nat
  BY DEF TracksInv
<1>u. tracks' = Predict /\ UNCHANGED <<next_idx, samples, sorted>>
  BY DEF SortInterval
<1>1. ASSUME NEW p \in Predict
      PROVE  TrackOK(p, frame_count_', sorted) /\ p.track_id < next_idx
  <2>1. PICK t \in tracks :
              /\ p \in Track /\ t \in Track
              /\ p.track_id = t.track_id /\ p.hits = t.hits
              /\ p.time_since_update = t.time_since_update + 1 /\ p.state = t.state
              /\ p.features = t.features /\ p.seen = t.seen
              /\ TrackOK(t, frame_count_, sorted) /\ t.track_id < next_idx
    BY PredictFacts
  <2>2. p.time_since_update = frame_count_' - p.seen
    BY <2>1, <1>t DEF TrackOK, Track
  <2> QED BY <2>1, <2>2 DEF TrackOK
<1>2. TracksInv'
  BY <1>1, <1>t, <1>u, PredictUnique DEF TracksInv
<1>3. ASSUME NEW p \in Confirmed(Predict)
      PROVE  \E t \in Confirmed(tracks) : p.track_id = t.track_id /\ p.seen = t.seen
  BY PredictFacts DEF Confirmed
<1>4. ASSUME NEW t \in Confirmed(tracks)
      PROVE  \E p \in Confirmed(Predict) : p.track_id = t.track_id
  <2>1. t \in tracks /\ t \in Track /\ t.state = "Confirmed"
    BY DEF Confirmed, TracksInv, TrackOK
  <2>2. predit(t).track_id = t.track_id /\ predit(t).state = t.state
    BY <2>1, PreditFacts
  <2> QED BY <2>1, <2>2 DEF Predict, Confirmed
<1>5. Ids(Confirmed(Predict)) = Ids(Confirmed(tracks))
  BY <1>3, <1>4 DEF Ids
<1>6. GalleryInv'
  BY <1>3, <1>5, <1>u DEF GalleryInv
<1> QED BY <1>2, <1>6

(* An association: tracker::update. *)
LEMMA SortStep ==
    ASSUME TracksInv, GalleryInv, NEW now, now = frame_count_ + 1, NEW d \in Nat,
           Sort(now, d), frame_count_' = now
    PROVE  TracksInv' /\ GalleryInv'
<1>1. PICK m \in Matches(Predict, d) : TrackerUpdate(now, d, m) /\ sorted' = now
  BY DEF Sort
<1>2. m \in SUBSET Predict /\ Cardinality(m) <= d
  BY DEF Matches, CascadeCandidates, IouCandidates, Confirmed
<1>t. /\ now \in Nat /\ frame_count_ \in Nat /\ next_idx \in Nat /\ Cardinality(m) \in Nat
      /\ sorted <= frame_count_ /\ sorted \in Nat
  BY <1>2, MatchesAreFinite DEF TracksInv
<1> DEFINE kept == Kept(now, d, m)
           act == Confirmed(kept)
           clear(t) == [t EXCEPT !.features = <<>>]
<1>3. /\ tracks' = (kept \ act) \cup {clear(t) : t \in act}
      /\ next_idx' = next_idx + d - Cardinality(m)
      /\ samples' = partial_fit(act)
  BY <1>1 DEF TrackerUpdate, Kept
<1> HIDE DEF kept
<1>4. \A x \in kept : KeptOK(x, now) /\ x.track_id < next_idx'
  BY <1>2, <1>3, KeptFacts DEF kept
<1>5. \A x, y \in kept : x.track_id = y.track_id => x = y
  BY <1>2, KeptUnique DEF kept
<1>6. \A x \in act : x \in kept /\ x.state = "Confirmed" /\ x \in Track
  BY <1>4 DEF Confirmed, KeptOK
<1>7. ASSUME NEW x \in act
      PROVE  /\ clear(x) \in Track /\ clear(x).track_id = x.track_id /\ clear(x).hits = x.hits
             /\ clear(x).time_since_update = x.time_since_update /\ clear(x).features = <<>>
             /\ clear(x).seen = x.seen /\ clear(x).state = "Confirmed"
  BY <1>6, ClearedFacts
<1> HIDE DEF clear
<1>8. ASSUME NEW y \in tracks'
      PROVE  /\ TrackOK(y, now, now) /\ y.track_id < next_idx'
             /\ \E x \in kept : /\ y.track_id = x.track_id /\ y.seen = x.seen
                                /\ y.state = x.state
                                /\ y = IF x \in act THEN clear(x) ELSE x
  <2>1. CASE y \in kept \ act
    <3>1. KeptOK(y, now) /\ y.state # "Confirmed" /\ y.track_id < next_idx'
      BY <2>1, <1>4 DEF Confirmed
    <3>2. TrackOK(y, now, now)
      BY <3>1 DEF KeptOK, TrackOK
    <3> QED BY <2>1, <3>1, <3>2
  <2>2. CASE y \in {clear(t) : t \in act}
    <3>1. PICK x \in act : y = clear(x)
      BY <2>2
    <3>2. KeptOK(x, now) /\ x.state = "Confirmed" /\ x.track_id < next_idx' /\ x \in kept
      BY <1>4, <1>6
    <3>3. TrackOK(y, now, now)
      BY <3>1, <3>2, <1>7 DEF KeptOK, TrackOK
    <3> QED BY <3>1, <3>2, <3>3, <1>7
  <2> QED BY <2>1, <2>2, <1>3
<1>9. TracksInv'
  <2>1. next_idx' \in Nat
    BY <1>2, <1>3, <1>t
  <2>2. ASSUME NEW y \in tracks', NEW z \in tracks', y.track_id = z.track_id PROVE y = z
    <3>1. PICK x \in kept : y.track_id = x.track_id /\ y = IF x \in act THEN clear(x) ELSE x
      BY <1>8
    <3>2. PICK w \in kept : z.track_id = w.track_id /\ z = IF w \in act THEN clear(w) ELSE w
      BY <1>8
    <3>3. x = w
      BY <3>1, <3>2, <2>2, <1>5
    <3> QED BY <3>1, <3>2, <3>3
  <2> QED BY <2>1, <2>2, <1>8, <1>1, <1>t DEF TracksInv
<1>10. \A y \in Confirmed(tracks') : \E x \in act : y.track_id = x.track_id /\ y.seen = x.seen
  BY <1>8 DEF Confirmed
<1>11. Ids(Confirmed(tracks')) = Ids(act)
  <2>1. \A x \in act : clear(x) \in Confirmed(tracks') /\ clear(x).track_id = x.track_id
    BY <1>3, <1>7 DEF Confirmed
  <2> QED BY <2>1, <1>10 DEF Ids
<1>12. ASSUME NEW x \in act
       PROVE  History(samples'[x.track_id], x.seen) /\ Len(samples'[x.track_id]) <= Budget
  <2> DEFINE id == x.track_id
  <2>1. id \in Ids(act)
    BY DEF Ids
  <2>2. FeaturesOf(id, act) = x.features
    <3>1. (CHOOSE t \in act : t.track_id = id) = x
      BY <1>5, <1>6
    <3> QED BY <3>1 DEF FeaturesOf
  <2>3. samples'[id] = IF id \in DOMAIN samples THEN Fit(samples[id], x.features)
                       ELSE x.features
    BY <2>1, <2>2, <1>3 DEF partial_fit
  <2>4. KeptOK(x, now) /\ x.state = "Confirmed"
    BY <1>4, <1>6
  <2>5. CASE x.track_id \notin Ids(Confirmed(tracks)) /\ History(x.features, x.seen)
             /\ Len(x.features) <= Budget
    BY <2>3, <2>5 DEF GalleryInv
  <2>6. ASSUME NEW u \in Confirmed(tracks), u.track_id = x.track_id,
               \/ x.features = <<>> /\ x.seen = u.seen
               \/ x.features = <<now>> /\ x.seen = now
        PROVE  History(samples'[id], x.seen) /\ Len(samples'[id]) <= Budget
    <3>1. /\ id \in DOMAIN samples
          /\ History(samples[id], u.seen) /\ Len(samples[id]) <= Budget
      BY <2>6 DEF GalleryInv, Ids
    <3>2. samples'[id] = Fit(samples[id], x.features)
      BY <2>3, <3>1
    <3>3. u.seen < now
      BY <1>t DEF TracksInv, TrackOK, Track, Confirmed
    <3>4. CASE x.features = <<>> /\ x.seen = u.seen
      BY <3>1, <3>2, <3>4, FitNone
    <3>5. CASE x.features = <<now>> /\ x.seen = now
      BY <3>1, <3>2, <3>3, <3>5, <1>t, FitOne
    <3> QED BY <2>6, <3>4, <3>5
  <2> QED BY <2>4, <2>5, <2>6 DEF KeptOK
<1>13. GalleryInv'
  <2>1. DOMAIN samples' = Ids(act)
    BY <1>3 DEF partial_fit
  <2> QED BY <2>1, <1>10, <1>11, <1>12 DEF GalleryInv
<1> QED BY <1>9, <1>13

LEMMA DeepStep == ASSUME DeepInv, [Next]_vars PROVE DeepInv'
<1>1. ASSUME NEW some \in BOOLEAN, NEW d \in 0 .. MaxDets, Update(some, d) PROVE DeepInv'
  <2>d. d \in Nat
    BY DeepSortAssumption
  <2>1. /\ frame_count_' = frame_count_ + 1
        /\ Sort(frame_count_ + 1, d) \/ SortInterval(d)
        /\ output'.ids = Drawn(tracks')
    BY <1>1 DEF Update
  <2>2. TracksInv' /\ GalleryInv'
    BY <2>1, <2>d, SortStep, IntervalStep DEF DeepInv
  <2>3. DrawnIdsAreRecent'
    <3> SUFFICES ASSUME NEW id \in Drawn(tracks')
                 PROVE  \E t \in tracks' : /\ t.track_id = id /\ t.hits >= 2
                                           /\ frame_count_' - t.seen <= MaxShownAge
      BY <2>1 DEF DrawnIdsAreRecent, MaxShownAge
    <3>1. PICK t \in tracks' : /\ t.track_id = id /\ t.state = "Confirmed"
                               /\ t.time_since_update <= MaxShownAge
      BY DEF Drawn, Ids, Confirmed
    <3>2. TrackOK(t, frame_count_', sorted')
      BY <2>2 DEF TracksInv
    <3> QED BY <3>1, <3>2 DEF TrackOK
  <2> QED BY <2>2, <2>3 DEF DeepInv
<1>2. CASE UNCHANGED vars
  BY <1>2 DEF vars, DeepInv, TracksInv, GalleryInv, DrawnIdsAreRecent
<1> QED BY <1>1, <1>2 DEF Next

LEMMA DeepInvariant == Spec => []DeepInv
  BY InitDeepInv, DeepStep, PTL DEF Spec

(* nn_matching.cpp 27, 33-80, tracker.cpp 92-106: for any budget, n_init   *)
(* and max_age, exactly the confirmed tracks have a gallery, within its    *)
(* budget, in order and up to date.                                        *)
THEOREM GalleriesFollowTracks == Spec => []GalleryFollowsTracks
<1>1. DeepInv => GalleryFollowsTracks
  <2> SUFFICES ASSUME DeepInv, NEW t \in Confirmed(tracks)
               PROVE  LET g == samples[t.track_id]
                      IN /\ Len(g) \in 1 .. Budget /\ g[Len(g)] = t.seen
                         /\ \A i, j \in 1 .. Len(g) : i < j => g[i] < g[j]
    BY DEF GalleryFollowsTracks, DeepInv, GalleryInv
  <2>1. History(samples[t.track_id], t.seen) /\ Len(samples[t.track_id]) <= Budget
    BY DEF DeepInv, GalleryInv
  <2> QED BY <2>1, DeepSortAssumption DEF History
<1> QED BY <1>1, DeepInvariant, PTL

(* DeepSortWrapper.cpp 78-86, tracker.cpp 28-33: an identity is drawn only *)
(* within one re-identification interval of the track's last match.        *)
THEOREM DrawnAreRecent == Spec => []DrawnIdsAreRecent
<1>1. DeepInv => DrawnIdsAreRecent
  BY DEF DeepInv
<1> QED BY <1>1, DeepInvariant, PTL

(* tracker.cpp 84-96, track.cpp 81-88: an association leaves no track that *)
(* is older than max_age and no tentative one that it did not match.       *)
THEOREM StaleAreDropped == Spec => []StaleTracksLeave
<1>1. DeepInv => StaleTracksLeave
  BY DEF DeepInv, TracksInv, TrackOK, StaleTracksLeave
<1> QED BY <1>1, DeepInvariant, PTL
=============================================================================
