------------------------- MODULE Transcoder_proofs -------------------------
(***************************************************************************)
(* Proofs about Transcoder for every number of slots, buffers, frames and  *)
(* failing VIDIOC_QBUF calls: the loop, the workers and the driver never   *)
(* share a slot or a capture buffer, and every picture delivered is whole, *)
(* carries its own boxes and follows the ones before it.                   *)
(*                                                                         *)
(* The invariant proved inductive is PipelineInv.  Each action has a lemma *)
(* with one step per part of it.                                           *)
(***************************************************************************)
EXTENDS Transcoder, FiniteSetTheorems, TLAPS

USE TranscoderAssumption

(* The three frame numbers the invariant is about, and where they lie. *)
LEMMA Numbers ==
    ASSUME PipelineInv
    PROVE  /\ captured \in Nat /\ captured <= MaxFrames
           /\ Len(filled) \in Nat /\ Len(pending_jobs_) \in Nat
           /\ Submitted \in Int /\ Submitted <= captured
           /\ Oldest \in Int /\ Oldest >= 1
           /\ OldestHolding \in Int /\ OldestHolding >= Oldest
           /\ Submitted - Oldest < N /\ Submitted >= Oldest - 1
           /\ \A f \in Oldest .. Submitted : f \in Frames
  <1>1. /\ captured \in Nat /\ captured <= MaxFrames
        /\ Len(filled) \in Nat /\ Len(pending_jobs_) \in Nat
    BY DEF PipelineInv, TypeOK, Frames
  <1>2. Submitted \in Int /\ Submitted <= captured
    BY <1>1 DEF Submitted
  <1>3. Oldest \in Int
    BY <1>1, <1>2 DEF Oldest
  <1>4. OldestHolding \in Int /\ OldestHolding >= Oldest
    BY <1>3 DEF OldestHolding
  <1>5. Oldest >= 1
    BY DEF PipelineInv, FrameOrder
  <1>6. Submitted - Oldest < N /\ Submitted >= Oldest - 1
    BY <1>1, <1>2 DEF Oldest, PipelineInv, ControlInv
  <1>7. \A f \in Oldest .. Submitted : f \in Frames
    BY <1>1, <1>2, <1>3, <1>5 DEF Frames
  <1> QED
    BY <1>1, <1>2, <1>3, <1>4, <1>5, <1>6, <1>7

(* A job in flight has a slot and a capture buffer. *)
LEMMA JobTypes ==
    ASSUME PipelineInv, NEW f \in Oldest .. Submitted
    PROVE  /\ f \in Frames /\ job[f].slot \in Slots /\ job[f].cap \in Bufs
           /\ job[f].slot \in Int
  <1>1. f \in Frames
    BY Numbers
  <1>2. job[f] \in [slot : Slots, cap : Bufs]
    BY <1>1 DEF PipelineInv, TypeOK, JobInv
  <1> QED
    BY <1>1, <1>2 DEF Slots

(* Counting back from m_cur_yolo separates the slots of the jobs in flight. *)
LEMMA SlotsDiffer ==
    ASSUME PipelineInv, NEW f \in Oldest .. Submitted, NEW g \in Oldest .. Submitted,
           job[f].slot = job[g].slot
    PROVE  f = g
  <1>1. m_cur_yolo \in Int
    BY DEF PipelineInv, TypeOK
  <1>2. /\ \/ job[f].slot = m_cur_yolo - 1 - (Submitted - f)
           \/ job[f].slot = m_cur_yolo - 1 - (Submitted - f) + N
        /\ \/ job[g].slot = m_cur_yolo - 1 - (Submitted - g)
           \/ job[g].slot = m_cur_yolo - 1 - (Submitted - g) + N
    BY DEF PipelineInv, JobInv
  <1>3. /\ Submitted \in Int /\ Oldest \in Int /\ N \in Int /\ f \in Int /\ g \in Int
        /\ f <= Submitted /\ Oldest <= f /\ g <= Submitted /\ Oldest <= g
        /\ Submitted - Oldest < N
    BY Numbers
  <1>4. f = g \/ f - g = N \/ g - f = N
    BY <1>1, <1>2, <1>3
  <1> QED
    BY <1>3, <1>4

(* The slot the loop is about to use is that of no job in flight. *)
LEMMA NextSlotIsFree ==
    ASSUME PipelineInv, pc = "dqbuf", NEW f \in Oldest .. Submitted
    PROVE  job[f].slot # m_cur_yolo
  <1>1. /\ m_cur_yolo \in Int /\ finished = 0 /\ Len(pending_jobs_) < N
    BY DEF PipelineInv, TypeOK, ControlInv
  <1>2. Submitted - Oldest < N - 1
    BY <1>1, Numbers DEF Oldest
  <1>3. \/ job[f].slot = m_cur_yolo - 1 - (Submitted - f)
        \/ job[f].slot = m_cur_yolo - 1 - (Submitted - f) + N
    BY DEF PipelineInv, JobInv
  <1>4. /\ Submitted \in Int /\ Oldest \in Int /\ N \in Int /\ f \in Int
        /\ f <= Submitted /\ Oldest <= f
    BY Numbers
  <1> QED
    BY <1>1, <1>2, <1>3, <1>4

(* A queued or running job is in flight and holds its capture buffer. *)
LEMMA ActiveJobs ==
    ASSUME PipelineInv, NEW f \in Frames, future[f] \in {"queued", "running"}
    PROVE  f \in Oldest .. Submitted /\ f \in OldestHolding .. Submitted
  <1>1. f \in Oldest .. Submitted
    BY Numbers DEF PipelineInv, FutureInv, Frames
  <1>2. pc \in {"encode", "terminated"} => f # finished
    BY DEF PipelineInv, CollectInv
  <1>3. pc \in {"encode", "terminated"} => finished = Oldest
    BY Numbers DEF PipelineInv, ControlInv, FrameOrder, Oldest
  <1> QED
    BY <1>1, <1>2, <1>3, Numbers DEF OldestHolding

LEMMA InitInv == Init => PipelineInv
  <1> SUFFICES ASSUME Init PROVE PipelineInv
    OBVIOUS
  <1>a. captured = 0 /\ finished = 0 /\ pc = "top"
    BY DEF Init
  <1>b. Len(filled) = 0 /\ Len(pending_jobs_) = 0
    BY DEF Init
  <1>0. Submitted = 0 /\ Oldest = 1 /\ OldestHolding = 1
    <2>1. Submitted = 0
      BY <1>a, <1>b DEF Submitted
    <2>2. Oldest = 1
      BY <1>a, <1>b, <2>1 DEF Oldest
    <2>3. pc \notin {"encode", "terminated"}
      BY <1>a
    <2> QED
      BY <2>1, <2>2, <2>3 DEF OldestHolding
  <1>1. TypeOK
    <2>1. /\ queued \in SUBSET Bufs /\ filled \in Seq(Bufs) /\ lost \in SUBSET Bufs
          /\ content \in [Bufs -> Frames \cup {0}] /\ captured \in Frames \cup {0}
      BY DEF Init
    <2>2. /\ waiting \in Seq(Frames) /\ life = "open"
          /\ future \in [Frames -> {"none", "queued", "running", "ready"}]
          /\ ret \in [Frames -> {"ok", "fail"}]
      BY DEF Init, Pool!Init
    <2>3. /\ inbuf \in [Slots -> Bufs \cup {-1}]
          /\ netin \in [Slots -> Frames \cup {0}]
          /\ last \in [Slots -> Frames \cup {0}]
          /\ out \in [Slots -> Picture]
      BY DEF Init, Picture
    <2>4. draining \in BOOLEAN /\ stop \in BOOLEAN
      BY DEF Init
    <2>5. /\ m_cur_yolo \in 0 .. N
          /\ job \in [Frames -> [slot : Slots, cap : Bufs] \cup {NoJob}]
          /\ pending_jobs_ \in Seq(Frames) /\ finished \in Frames \cup {0}
          /\ overlay \in Frames \cup {0}
          /\ tracked \in Frames \cup {0} /\ delivered \in Picture
      BY DEF Init, Picture
    <2> QED
      BY <1>a, <2>1, <2>2, <2>3, <2>4, <2>5 DEF TypeOK
  <1>2. ControlInv /\ FrameOrder /\ JobInv
    BY <1>0, <1>a, <1>b DEF ControlInv, FrameOrder, JobInv
  <1>3. FutureInv
    BY <1>0 DEF Init, Pool!Init, FutureInv, Frames
  <1>4. BufferInv
    BY <1>0 DEF Init, BufferInv
  <1>5. CollectInv
    BY <1>0 DEF Init, CollectInv
  <1> QED
    BY <1>1, <1>2, <1>3, <1>4, <1>5 DEF PipelineInv

-----------------------------------------------------------------------------
(* The driver and the controlling thread *)

(* The driver fills a queued buffer with the next frame. *)
LEMMA DriverFillInv ==
    ASSUME PipelineInv, NEW b \in Bufs, DriverFill(b)
    PROVE  PipelineInv'
  <1>a. /\ captured' = captured + 1 /\ captured < MaxFrames /\ b \in queued
        /\ queued' = queued \ {b} /\ filled' = Append(filled, b)
        /\ content' = [content EXCEPT ![b] = captured + 1]
    BY DEF DriverFill
  <1>u. UNCHANGED <<lost, waiting, future, life, ret, inbuf, netin, last, out, pc, draining,
                    m_cur_yolo, job, pending_jobs_, finished, overlay, stop, tracked, delivered>>
    BY DEF DriverFill, poolVars, yoloVars, loopVars
  <1>t. TypeOK
    BY DEF PipelineInv
  <1>b. /\ Len(filled') = Len(filled) + 1 /\ filled'[Len(filled) + 1] = b
        /\ \A i \in 1 .. Len(filled) : filled'[i] = filled[i] /\ filled[i] \in Bufs
    BY <1>a, <1>t DEF TypeOK
  <1>n. Submitted' = Submitted /\ Oldest' = Oldest /\ OldestHolding' = OldestHolding
    <2>1. Submitted' = Submitted
      BY <1>a, <1>b, Numbers DEF Submitted
    <2> QED
      BY <1>u, <2>1 DEF Oldest, OldestHolding
  <1>c. /\ content \in [Bufs -> Frames \cup {0}]
        /\ \A c \in Bufs : content'[c] = IF c = b THEN captured + 1 ELSE content[c]
    BY <1>a, <1>t DEF TypeOK
  <1>d. content[b] = 0
    BY <1>a DEF PipelineInv, BufferInv
  <1>1. TypeOK'
    <2>1. /\ queued' \in SUBSET Bufs /\ filled' \in Seq(Bufs)
          /\ captured' \in Frames \cup {0}
      BY <1>a, <1>t, Numbers DEF TypeOK, Frames
    <2>2. content' \in [Bufs -> Frames \cup {0}]
      BY <1>a, <1>t, Numbers DEF TypeOK, Frames
    <2> QED
      BY <2>1, <2>2, <1>t, <1>u DEF TypeOK
  <1>2. ControlInv'
    BY <1>u DEF PipelineInv, ControlInv
  <1>3. FrameOrder'
    <2>1. \A i \in 1 .. Len(filled) : content'[filled'[i]] = Submitted + i
      <3> SUFFICES ASSUME NEW i \in 1 .. Len(filled)
                   PROVE  content'[filled'[i]] = Submitted + i
        OBVIOUS
      <3>1. content[filled[i]] = Submitted + i
        BY DEF PipelineInv, FrameOrder
      <3>2. Submitted + i # 0
        BY Numbers
      <3> QED
        BY <1>b, <1>c, <1>d, <3>1, <3>2
    <2>2. content'[filled'[Len(filled) + 1]] = Submitted + Len(filled) + 1
      BY <1>b, <1>c, Numbers DEF Submitted
    <2> QED
      <3>1. ASSUME NEW i \in 1 .. Len(filled')
            PROVE  content'[filled'[i]] = Submitted + i
        <4>1. i \in 1 .. Len(filled) \/ i = Len(filled) + 1
          BY <1>b, Numbers
        <4>2. CASE i \in 1 .. Len(filled)
          BY <2>1, <4>2
        <4>3. CASE i = Len(filled) + 1
          <5>1. Submitted + i = Submitted + Len(filled) + 1
            BY <4>3, Numbers
          <5> QED
            BY <2>2, <4>3, <5>1
        <4> QED
          BY <4>1, <4>2, <4>3
      <3> QED
        BY <1>n, <1>u, <3>1 DEF PipelineInv, FrameOrder
  <1>4. JobInv'
    BY <1>n, <1>u DEF PipelineInv, JobInv
  <1>5. FutureInv'
    BY <1>n, <1>u DEF PipelineInv, FutureInv
  <1>6. BufferInv'
    <2>1. \A c \in queued' : content'[c] = 0
      BY <1>a, <1>c, <1>t DEF PipelineInv, BufferInv, TypeOK
    <2>2. \A c \in lost' : content'[c] # 0 /\ content'[c] < OldestHolding'
      BY <1>c, <1>d, <1>n, <1>u, <1>t DEF PipelineInv, BufferInv, TypeOK
    <2>3. ASSUME NEW f \in OldestHolding .. Submitted
          PROVE  content'[job'[f].cap] = f
      <3>1. f \in Oldest .. Submitted
        BY Numbers
      <3>2. content[job[f].cap] = f /\ f # 0 /\ job[f].cap \in Bufs
        BY <3>1, Numbers, JobTypes DEF PipelineInv, BufferInv
      <3> QED
        BY <1>c, <1>d, <1>u, <3>2
    <2> QED
      BY <1>n, <2>1, <2>2, <2>3 DEF BufferInv
  <1>7. CollectInv'
    BY <1>n, <1>u DEF PipelineInv, CollectInv
  <1> QED
    BY <1>1, <1>2, <1>3, <1>4, <1>5, <1>6, <1>7 DEF PipelineInv

(* stop() changes nothing the invariant speaks of but its own type; the    *)
(* same holds for a step that changes nothing.                             *)
LEMMA FlagInv ==
    ASSUME PipelineInv, stop' \in BOOLEAN,
           UNCHANGED <<driverVars, poolVars, ret, yoloVars, loopVars, tracked, delivered>>
    PROVE  PipelineInv'
  <1>u. UNCHANGED <<queued, filled, content, captured, lost, waiting, future, life, ret,
                    inbuf, netin, last, out, pc, draining, m_cur_yolo, job,
                    pending_jobs_, finished, overlay, tracked, delivered>>
    BY DEF driverVars, poolVars, yoloVars, loopVars
  <1>n. Submitted' = Submitted /\ Oldest' = Oldest /\ OldestHolding' = OldestHolding
    BY <1>u DEF Submitted, Oldest, OldestHolding
  <1>1. TypeOK'
    BY <1>u DEF PipelineInv, TypeOK
  <1>2. ControlInv' /\ FrameOrder' /\ JobInv'
    BY <1>n, <1>u DEF PipelineInv, ControlInv, FrameOrder, JobInv
  <1>3. FutureInv' /\ BufferInv' /\ CollectInv'
    BY <1>n, <1>u DEF PipelineInv, FutureInv, BufferInv, CollectInv
  <1> QED
    BY <1>1, <1>2, <1>3 DEF PipelineInv

-----------------------------------------------------------------------------
(* The workers *)

(* A worker starts the oldest waiting job: the slot is that job's alone,   *)
(* so clearing its last result touches nobody else's.                      *)
LEMMA StartInferenceInv ==
    ASSUME PipelineInv, StartInference
    PROVE  PipelineInv'
  <1> DEFINE h == Head(waiting)
             s == job[h].slot
  <1>t. TypeOK
    BY DEF PipelineInv
  <1>a. /\ waiting # <<>>
        /\ future' = [future EXCEPT ![h] = "running"] /\ waiting' = Tail(waiting)
        /\ last' = [last EXCEPT ![s] = 0]
        /\ netin' = [netin EXCEPT ![s] = content[inbuf[s]]]
    BY DEF StartInference, PreprocessToInputMem, Pool!Start
  <1>u. UNCHANGED <<queued, filled, content, captured, lost, life, ret, inbuf, out, pc, draining,
                    m_cur_yolo, job, pending_jobs_, finished, overlay, stop, tracked, delivered>>
    BY DEF StartInference, Pool!Start, driverVars, loopVars
  <1>w. /\ Len(waiting) >= 1 /\ Len(waiting) \in Nat /\ h = waiting[1] /\ h \in Frames
        /\ Len(waiting') = Len(waiting) - 1
        /\ \A i \in 1 .. Len(waiting') : waiting'[i] = waiting[i + 1]
        /\ \A i \in 1 .. Len(waiting) : waiting[i] \in Frames
    BY <1>a, <1>t DEF TypeOK
  <1>q. future[h] = "queued"
    BY <1>w DEF PipelineInv, FutureInv
  <1>h. h \in Oldest .. Submitted /\ h \in OldestHolding .. Submitted
    BY <1>q, <1>w, ActiveJobs
  <1>s. s \in Slots /\ content[inbuf[s]] = h
    BY <1>h, JobTypes DEF PipelineInv, JobInv, BufferInv
  <1>n. Submitted' = Submitted /\ Oldest' = Oldest /\ OldestHolding' = OldestHolding
    BY <1>u DEF Submitted, Oldest, OldestHolding
  <1> HIDE DEF s, h
  <1>1. TypeOK'
    <2>1. waiting' \in Seq(Frames)
      BY <1>a, <1>t DEF TypeOK
    <2>2. future' \in [Frames -> {"none", "queued", "running", "ready"}]
      BY <1>a, <1>t DEF TypeOK
    <2>3. last' \in [Slots -> Frames \cup {0}] /\ netin' \in [Slots -> Frames \cup {0}]
      BY <1>a, <1>s, <1>w, <1>t DEF TypeOK
    <2> QED
      BY <2>1, <2>2, <2>3, <1>t, <1>u DEF TypeOK
  <1>2. ControlInv' /\ FrameOrder'
    BY <1>n, <1>u DEF PipelineInv, ControlInv, FrameOrder
  <1>f. \A f \in Frames : future'[f] = IF f = h THEN "running" ELSE future[f]
    BY <1>a, <1>t DEF TypeOK
  <1>3. JobInv'
    <2> SUFFICES ASSUME NEW f \in Oldest .. Submitted
                 PROVE  /\ job[f] # NoJob
                        /\ \/ job[f].slot = m_cur_yolo - 1 - (Submitted - f)
                           \/ job[f].slot = m_cur_yolo - 1 - (Submitted - f) + N
                        /\ inbuf[job[f].slot] = job[f].cap
                        /\ future'[f] = "running" => netin'[job[f].slot] = f
                        /\ future'[f] = "ready" /\ ret[f] = "ok" =>
                              last'[job[f].slot] = f /\ out[job[f].slot].pix = f
      BY <1>n, <1>u DEF JobInv
    <2>1. f \in Frames /\ job[f].slot \in Slots
      BY JobTypes
    <2>2. f # h => job[f].slot # s
      BY <1>h, SlotsDiffer DEF s
    <2>3. f # h => netin'[job[f].slot] = netin[job[f].slot] /\ last'[job[f].slot] = last[job[f].slot]
      BY <1>a, <1>t, <2>1, <2>2 DEF TypeOK
    <2>4. f = h => netin'[job[f].slot] = f
      BY <1>a, <1>s, <1>t, <2>1 DEF TypeOK, s
    <2> QED
      BY <1>f, <2>1, <2>3, <2>4 DEF PipelineInv, JobInv
  <1>4. FutureInv'
    <2>1. \A f \in Frames : f > Submitted => future'[f] = "none"
      BY <1>f, <1>h, Numbers DEF PipelineInv, FutureInv, Frames
    <2>2. \A f \in Frames : f < Oldest => future'[f] \notin {"queued", "running"}
      BY <1>f, <1>h, Numbers DEF PipelineInv, FutureInv
    <2>3. \A i \in 1 .. Len(waiting') : waiting'[i] # h /\ waiting'[i] \in Frames
      BY <1>w DEF PipelineInv, FutureInv
    <2>4. \A i \in 1 .. Len(waiting') : future'[waiting'[i]] = "queued"
      BY <1>f, <1>w, <2>3 DEF PipelineInv, FutureInv
    <2>5. \A i, j \in 1 .. Len(waiting') : waiting'[i] = waiting'[j] => i = j
      BY <1>w DEF PipelineInv, FutureInv
    <2> QED
      BY <1>n, <2>1, <2>2, <2>4, <2>5 DEF FutureInv
  <1>5. BufferInv'
    BY <1>n, <1>u DEF PipelineInv, BufferInv
  <1>6. CollectInv'
    <2>1. pc \in {"track", "render", "encode", "terminated"} =>
             finished \in Frames /\ finished # h
      BY <1>q, <1>t DEF PipelineInv, ControlInv, CollectInv, TypeOK
    <2> QED
      BY <1>f, <1>n, <1>u, <2>1 DEF PipelineInv, CollectInv
  <1> QED
    BY <1>1, <1>2, <1>3, <1>4, <1>5, <1>6 DEF PipelineInv

(* The worker finishes a job: converts the picture that is still in the    *)
(* job's buffer and stores the result of that picture.                     *)
LEMMA FinishInferenceInv ==
    ASSUME PipelineInv, NEW h \in Frames, FinishInference(h)
    PROVE  PipelineInv'
  <1> DEFINE s == job[h].slot
             converted == [out EXCEPT ![s] = [pix |-> content[inbuf[s]], boxes |-> 0]]
  <1>t. TypeOK
    BY DEF PipelineInv
  <1>a. /\ future[h] = "running"
        /\ future' = [future EXCEPT ![h] = "ready"]
        /\ \/ /\ ret' = [ret EXCEPT ![h] = "fail"]
              /\ out' \in {out, converted}
              /\ last' = last
           \/ /\ ret' = [ret EXCEPT ![h] = "ok"]
              /\ out' = converted
              /\ last' = [last EXCEPT ![s] = netin[s]]
    BY DEF FinishInference, ConvertInputToOutputYuv, Pool!Complete
  <1>u. UNCHANGED <<queued, filled, content, captured, lost, waiting, life, inbuf, netin, pc,
                    draining, m_cur_yolo, job, pending_jobs_, finished, overlay, stop,
                    tracked, delivered>>
    BY DEF FinishInference, Pool!Complete, driverVars, loopVars
  <1>h. h \in Oldest .. Submitted /\ h \in OldestHolding .. Submitted
    BY <1>a, ActiveJobs
  <1>s. s \in Slots /\ content[inbuf[s]] = h /\ netin[s] = h
    BY <1>a, <1>h, JobTypes DEF PipelineInv, JobInv, BufferInv
  <1>n. Submitted' = Submitted /\ Oldest' = Oldest /\ OldestHolding' = OldestHolding
    BY <1>u DEF Submitted, Oldest, OldestHolding
  <1>p. [pix |-> content[inbuf[s]], boxes |-> 0] \in Picture
    BY <1>s DEF Picture
  <1>c. /\ converted \in [Slots -> Picture] /\ converted[s].pix = h
        /\ \A r \in Slots : r # s => converted[r] = out[r]
    BY <1>s, <1>p, <1>t DEF TypeOK
  <1> HIDE DEF s, converted
  <1>f. \A f \in Frames : future'[f] = IF f = h THEN "ready" ELSE future[f]
    BY <1>a, <1>t DEF TypeOK
  <1>r. \A f \in Frames : f # h => ret'[f] = ret[f]
    BY <1>a, <1>t DEF TypeOK
  <1>l. /\ last' \in [Slots -> Frames \cup {0}] /\ out' \in [Slots -> Picture]
        /\ ret' \in [Frames -> {"ok", "fail"}]
        /\ \A r \in Slots : r # s => last'[r] = last[r] /\ out'[r] = out[r]
        /\ ret'[h] = "ok" => last'[s] = h /\ out'[s].pix = h
    <2>1. CASE ret' = [ret EXCEPT ![h] = "fail"] /\ out' \in {out, converted} /\ last' = last
      BY <2>1, <1>c, <1>t DEF TypeOK
    <2>2. CASE /\ ret' = [ret EXCEPT ![h] = "ok"] /\ out' = converted
               /\ last' = [last EXCEPT ![s] = netin[s]]
      BY <2>2, <1>c, <1>s, <1>t DEF TypeOK
    <2> QED
      BY <1>a, <2>1, <2>2
  <1>1. TypeOK'
    <2>1. future' \in [Frames -> {"none", "queued", "running", "ready"}]
      BY <1>a, <1>t DEF TypeOK
    <2> QED
      BY <2>1, <1>l, <1>t, <1>u DEF TypeOK
  <1>2. ControlInv' /\ FrameOrder'
    BY <1>n, <1>u DEF PipelineInv, ControlInv, FrameOrder
  <1>3. JobInv'
    <2> SUFFICES ASSUME NEW f \in Oldest .. Submitted
                 PROVE  /\ job[f] # NoJob
                        /\ \/ job[f].slot = m_cur_yolo - 1 - (Submitted - f)
                           \/ job[f].slot = m_cur_yolo - 1 - (Submitted - f) + N
                        /\ inbuf[job[f].slot] = job[f].cap
                        /\ future'[f] = "running" => netin[job[f].slot] = f
                        /\ future'[f] = "ready" /\ ret'[f] = "ok" =>
                              last'[job[f].slot] = f /\ out'[job[f].slot].pix = f
      BY <1>n, <1>u DEF JobInv
    <2>1. f \in Frames /\ job[f].slot \in Slots
      BY JobTypes
    <2>2. f # h => job[f].slot # s
      BY <1>h, SlotsDiffer DEF s
    <2>3. CASE f = h
      BY <2>3, <1>f, <1>l DEF PipelineInv, JobInv, s
    <2>4. CASE f # h
      BY <2>1, <2>2, <2>4, <1>f, <1>l, <1>r DEF PipelineInv, JobInv
    <2> QED
      BY <2>3, <2>4
  <1>4. FutureInv'
    <2>1. \A f \in Frames : f > Submitted => future'[f] = "none"
      BY <1>f, <1>h, Numbers DEF PipelineInv, FutureInv, Frames
    <2>2. \A f \in Frames : f < Oldest => future'[f] \notin {"queued", "running"}
      BY <1>f DEF PipelineInv, FutureInv
    <2>3. \A i \in 1 .. Len(waiting) : waiting[i] \in Frames /\ waiting[i] # h
      BY <1>a, <1>t DEF PipelineInv, FutureInv, TypeOK
    <2>4. \A i \in 1 .. Len(waiting) : future'[waiting[i]] = "queued"
      BY <1>f, <2>3 DEF PipelineInv, FutureInv
    <2> QED
      BY <1>n, <1>u, <2>1, <2>2, <2>4 DEF PipelineInv, FutureInv
  <1>5. BufferInv'
    BY <1>n, <1>u DEF PipelineInv, BufferInv
  <1>6. CollectInv'
    <2>1. pc \in {"track", "render", "encode", "terminated"} =>
             /\ finished \in Frames /\ finished # h /\ finished \in Oldest .. Submitted
      <3>1. pc \in {"track", "render", "encode", "terminated"} =>
               finished \in Frames /\ finished # h /\ finished # 0
        BY <1>a, <1>t DEF PipelineInv, ControlInv, CollectInv, TypeOK
      <3> QED
        BY <3>1, Numbers DEF PipelineInv, FrameOrder, Oldest
    <2>2. pc \in {"encode", "terminated"} =>
             out'[job[finished].slot] = out[job[finished].slot]
      BY <2>1, <1>h, <1>l, SlotsDiffer, JobTypes DEF s
    <2> QED
      BY <1>f, <1>r, <1>n, <1>u, <2>1, <2>2 DEF PipelineInv, CollectInv
  <1> QED
    BY <1>1, <1>2, <1>3, <1>4, <1>5, <1>6 DEF PipelineInv

-----------------------------------------------------------------------------
(* The loop *)

(* The wrap of m_cur_yolo from N to 0 is invisible to JobInv, which counts *)
(* slots modulo N.                                                         *)
LEMMA LoopTopInv ==
    ASSUME PipelineInv, LoopTop
    PROVE  PipelineInv'
  <1>t. TypeOK
    BY DEF PipelineInv
  <1>a. /\ pc = "top"
        /\ \/ pc' = "drain" /\ draining' = TRUE /\ m_cur_yolo' = m_cur_yolo
           \/ /\ pc' = "dqbuf" /\ draining' = draining
              /\ m_cur_yolo' = IF m_cur_yolo >= N THEN 0 ELSE m_cur_yolo
    BY DEF LoopTop
  <1>u. UNCHANGED <<queued, filled, content, captured, lost, waiting, future, life, ret, inbuf,
                    netin, last, out, job, pending_jobs_, finished, overlay, stop,
                    tracked, delivered>>
    BY DEF LoopTop, driverVars, poolVars, yoloVars
  <1>n. Submitted' = Submitted /\ Oldest' = Oldest /\ OldestHolding' = OldestHolding
    BY <1>a, <1>u DEF Submitted, Oldest, OldestHolding
  <1>m. /\ m_cur_yolo \in 0 .. N /\ m_cur_yolo' \in 0 .. N
        /\ m_cur_yolo' = m_cur_yolo \/ (m_cur_yolo = N /\ m_cur_yolo' = 0)
        /\ pc' = "dqbuf" => m_cur_yolo' < N
    BY <1>a, <1>t DEF TypeOK
  <1>1. TypeOK'
    <2>1. draining' \in BOOLEAN
      BY <1>a, <1>t DEF TypeOK
    <2> QED
      BY <1>a, <1>m, <1>t, <1>u, <2>1 DEF TypeOK
  <1>2. ControlInv' /\ FrameOrder'
    BY <1>a, <1>m, <1>n, <1>u DEF PipelineInv, ControlInv, FrameOrder
  <1>3. JobInv'
    <2> SUFFICES ASSUME NEW f \in Oldest .. Submitted
                 PROVE  \/ job[f].slot = m_cur_yolo' - 1 - (Submitted - f)
                        \/ job[f].slot = m_cur_yolo' - 1 - (Submitted - f) + N
      BY <1>n, <1>u DEF PipelineInv, JobInv
    <2>1. \/ job[f].slot = m_cur_yolo - 1 - (Submitted - f)
          \/ job[f].slot = m_cur_yolo - 1 - (Submitted - f) + N
      BY DEF PipelineInv, JobInv
    <2>2. job[f].slot \in Int /\ job[f].slot < N
      BY JobTypes DEF Slots
    <2>3. f \in Int /\ Submitted \in Int /\ Submitted - f < N
      BY Numbers
    <2>4. CASE m_cur_yolo' = m_cur_yolo
      BY <2>1, <2>4
    <2>5. CASE m_cur_yolo = N /\ m_cur_yolo' = 0
      <3>1. job[f].slot # m_cur_yolo - 1 - (Submitted - f) + N
        BY <2>2, <2>3, <2>5
      <3> QED
        BY <2>1, <2>3, <2>5, <3>1
    <2> QED
      BY <1>m, <2>4, <2>5
  <1>4. FutureInv' /\ BufferInv' /\ CollectInv'
    BY <1>a, <1>n, <1>u DEF PipelineInv, FutureInv, BufferInv, CollectInv
  <1> QED
    BY <1>1, <1>2, <1>3, <1>4 DEF PipelineInv

(* No frame: nothing but pc changes. *)
LEMMA DqbufNothingInv ==
    ASSUME PipelineInv, DqbufNothing
    PROVE  PipelineInv'
  <1>u. UNCHANGED <<queued, filled, content, captured, lost, waiting, future, life, ret, inbuf,
                    netin, last, out, draining, m_cur_yolo, job, pending_jobs_, finished,
                    overlay, stop, tracked, delivered>>
    BY DEF DqbufNothing, driverVars, poolVars, yoloVars
  <1>a. pc = "dqbuf" /\ pc' = "top"
    BY DEF DqbufNothing
  <1>n. Submitted' = Submitted /\ Oldest' = Oldest /\ OldestHolding' = OldestHolding
    BY <1>a, <1>u DEF Submitted, Oldest, OldestHolding
  <1>1. TypeOK'
    BY <1>a, <1>u DEF PipelineInv, TypeOK
  <1>2. ControlInv' /\ FrameOrder' /\ JobInv'
    BY <1>a, <1>n, <1>u DEF PipelineInv, ControlInv, FrameOrder, JobInv
  <1>3. FutureInv' /\ BufferInv' /\ CollectInv'
    BY <1>a, <1>n, <1>u DEF PipelineInv, FutureInv, BufferInv, CollectInv
  <1> QED
    BY <1>1, <1>2, <1>3 DEF PipelineInv

(* The oldest filled buffer becomes the job of frame Submitted + 1 in slot *)
(* m_cur_yolo, which NextSlotIsFree says no job in flight uses.            *)
LEMMA DqbufFrameInv ==
    ASSUME PipelineInv, DqbufFrame
    PROVE  PipelineInv'
  <1> DEFINE b == Head(filled)
             g == content[b]
             s == m_cur_yolo
  <1>t. TypeOK
    BY DEF PipelineInv
  <1>a. /\ pc = "dqbuf" /\ filled # <<>>
        /\ inbuf' = [inbuf EXCEPT ![s] = b]
        /\ job' = [job EXCEPT ![g] = [slot |-> s, cap |-> b]]
        /\ waiting' = Append(waiting, g)
        /\ future' = [future EXCEPT ![g] = "queued"]
        /\ pending_jobs_' = Append(pending_jobs_, g)
        /\ filled' = Tail(filled) /\ m_cur_yolo' = m_cur_yolo + 1
        /\ pc' = IF Len(pending_jobs_) + 1 >= N THEN "pop" ELSE "top"
    BY DEF DqbufFrame, Submit, Pool!Accept
  <1>u. UNCHANGED <<queued, content, captured, lost, life, ret, netin, last, out,
                    draining, finished, overlay, stop, tracked, delivered>>
    BY DEF DqbufFrame, Submit, Pool!Accept
  <1>e. /\ Len(filled) >= 1 /\ b = filled[1] /\ b \in Bufs
        /\ Len(filled') = Len(filled) - 1
        /\ \A i \in 1 .. Len(filled') : filled'[i] = filled[i + 1]
    BY <1>a, <1>t DEF TypeOK
  <1>g. g = Submitted + 1 /\ g \in Frames /\ g \in Int
    <2>1. g = Submitted + 1
      BY <1>e DEF PipelineInv, FrameOrder
    <2>2. Submitted + 1 <= captured
      BY <1>e, Numbers DEF Submitted
    <2> QED
      BY <2>1, <2>2, Numbers DEF Frames
  <1>z. finished = 0 /\ Len(pending_jobs_) < N /\ s \in Slots /\ s \in Int
    <2>1. finished = 0 /\ Len(pending_jobs_) < N /\ m_cur_yolo < N
      BY <1>a DEF PipelineInv, ControlInv
    <2> QED
      BY <2>1, <1>t DEF TypeOK, Slots
  <1>p. /\ Len(pending_jobs_') = Len(pending_jobs_) + 1
        /\ pending_jobs_'[Len(pending_jobs_) + 1] = g
        /\ \A i \in 1 .. Len(pending_jobs_) : pending_jobs_'[i] = pending_jobs_[i]
    BY <1>a, <1>g, <1>t DEF TypeOK
  <1>w. /\ Len(waiting') = Len(waiting) + 1 /\ Len(waiting) \in Nat
        /\ waiting'[Len(waiting) + 1] = g
        /\ \A i \in 1 .. Len(waiting) : waiting'[i] = waiting[i] /\ waiting[i] \in Frames
    BY <1>a, <1>g, <1>t DEF TypeOK
  <1>x. pc' \in {"pop", "top"}
    BY <1>a
  <1>n. Submitted' = Submitted + 1 /\ Oldest' = Oldest /\ OldestHolding' = OldestHolding
    <2>1. Submitted' = Submitted + 1
      BY <1>e, <1>u, Numbers DEF Submitted
    <2>2. Oldest' = Oldest
      <3>1. Oldest = Submitted - Len(pending_jobs_) + 1
        BY <1>z DEF Oldest
      <3>2. Oldest' = Submitted' - Len(pending_jobs_') + 1
        BY <1>z, <1>u DEF Oldest
      <3> QED
        BY <1>p, <2>1, <3>1, <3>2, Numbers
    <2> QED
      BY <1>a, <1>x, <2>1, <2>2 DEF OldestHolding
  <1>j. \A f \in Oldest .. Submitted : f \in Frames /\ f # g /\ job'[f] = job[f]
    BY <1>a, <1>g, <1>t, Numbers DEF TypeOK
  <1>k. job'[g] = [slot |-> s, cap |-> b]
    BY <1>a, <1>g, <1>t DEF TypeOK
  <1>i. inbuf'[s] = b /\ \A r \in Slots : r # s => inbuf'[r] = inbuf[r]
    BY <1>a, <1>z, <1>t DEF TypeOK
  <1>f. \A f \in Frames : future'[f] = IF f = g THEN "queued" ELSE future[f]
    BY <1>a, <1>t DEF TypeOK
  <1>o. \A f \in Oldest' .. Submitted' : f = g \/ f \in Oldest .. Submitted
    BY <1>g, <1>n, Numbers
  <1>v. future[g] = "none"
    BY <1>g, Numbers DEF PipelineInv, FutureInv
  <1> HIDE DEF g, s, b
  <1>1. TypeOK'
    <2>1. filled' \in Seq(Bufs) /\ pending_jobs_' \in Seq(Frames) /\ waiting' \in Seq(Frames)
      BY <1>a, <1>g, <1>t DEF TypeOK
    <2>2. future' \in [Frames -> {"none", "queued", "running", "ready"}]
      BY <1>a, <1>t DEF TypeOK
    <2>3. inbuf' \in [Slots -> Bufs \cup {-1}]
      BY <1>a, <1>e, <1>t DEF TypeOK
    <2>4. job' \in [Frames -> [slot : Slots, cap : Bufs] \cup {NoJob}]
      BY <1>a, <1>e, <1>z, <1>t DEF TypeOK
    <2>5. m_cur_yolo' \in 0 .. N
      BY <1>a, <1>z DEF s, Slots
    <2> QED
      BY <1>t, <1>u, <1>x, <2>1, <2>2, <2>3, <2>4, <2>5 DEF TypeOK
  <1>2. ControlInv'
    <2>1. /\ pc' = "pop" => Len(pending_jobs_') = N
          /\ pc' # "pop" => Len(pending_jobs_') < N
      BY <1>a, <1>p, <1>z, Numbers
    <2> QED
      BY <1>u, <1>x, <1>z, <2>1 DEF ControlInv
  <1>3. FrameOrder'
    <2>1. \A i \in 1 .. Len(filled') : content'[filled'[i]] = Submitted' + i
      <3> SUFFICES ASSUME NEW i \in 1 .. Len(filled')
                   PROVE  content[filled[i + 1]] = Submitted + 1 + i
        BY <1>e, <1>n, <1>u
      <3>1. i + 1 \in 1 .. Len(filled) /\ Submitted + (i + 1) = Submitted + 1 + i
        BY <1>e, Numbers
      <3> QED
        BY <3>1 DEF PipelineInv, FrameOrder
    <2>2. \A i \in 1 .. Len(pending_jobs_') :
             pending_jobs_'[i] = Submitted' - Len(pending_jobs_') + i
      <3> SUFFICES ASSUME NEW i \in 1 .. Len(pending_jobs_')
                   PROVE  pending_jobs_'[i] = Submitted - Len(pending_jobs_) + i
        BY <1>n, <1>p, Numbers
      <3>1. CASE i \in 1 .. Len(pending_jobs_)
        BY <1>p, <3>1 DEF PipelineInv, FrameOrder
      <3>2. CASE i = Len(pending_jobs_) + 1
        <4>1. Submitted + 1 = Submitted - Len(pending_jobs_) + i
          BY <3>2, Numbers
        <4> QED
          BY <1>g, <1>p, <3>2, <4>1
      <3> QED
        BY <1>p, <3>1, <3>2, Numbers
    <2> QED
      BY <1>n, <1>u, <1>z, <2>1, <2>2, Numbers DEF FrameOrder
  <1>4. JobInv'
    <2> SUFFICES ASSUME NEW f \in Oldest' .. Submitted'
                 PROVE  /\ job'[f] # NoJob
                        /\ \/ job'[f].slot = m_cur_yolo' - 1 - (Submitted' - f)
                           \/ job'[f].slot = m_cur_yolo' - 1 - (Submitted' - f) + N
                        /\ inbuf'[job'[f].slot] = job'[f].cap
                        /\ future'[f] = "running" => netin[job'[f].slot] = f
                        /\ future'[f] = "ready" /\ ret[f] = "ok" =>
                              last[job'[f].slot] = f /\ out[job'[f].slot].pix = f
      BY <1>u DEF JobInv
    <2>1. CASE f = g
      <3>1. job'[f].slot = m_cur_yolo' - 1 - (Submitted' - f)
        <4>1. job'[f].slot = m_cur_yolo /\ m_cur_yolo \in Int /\ m_cur_yolo' = m_cur_yolo + 1
          BY <2>1, <1>a, <1>k, <1>z DEF s
        <4>2. Submitted' = f /\ f \in Int
          BY <2>1, <1>g, <1>n
        <4> QED
          BY <4>1, <4>2
      <3>2. job'[f] # NoJob
        BY <2>1, <1>k, <1>z DEF NoJob, Slots
      <3>3. inbuf'[job'[f].slot] = job'[f].cap
        BY <2>1, <1>k, <1>i
      <3>4. future'[f] = "queued"
        BY <2>1, <1>f, <1>g
      <3> QED
        BY <3>1, <3>2, <3>3, <3>4
    <2>2. CASE f \in Oldest .. Submitted
      <3>1. job[f].slot # s /\ job[f].slot \in Slots
        BY <2>2, <1>a, NextSlotIsFree, JobTypes DEF s
      <3>2. /\ m_cur_yolo' - 1 - (Submitted' - f) = m_cur_yolo - 1 - (Submitted - f)
            /\ m_cur_yolo' - 1 - (Submitted' - f) + N = m_cur_yolo - 1 - (Submitted - f) + N
        <4>1. m_cur_yolo \in Int /\ m_cur_yolo' = m_cur_yolo + 1
          BY <1>a, <1>z DEF s
        <4>2. Submitted \in Int /\ Submitted' = Submitted + 1
          BY <1>n, Numbers
        <4>3. N \in Int /\ f \in Int
          BY <2>2, Numbers
        <4> QED
          BY <4>1, <4>2, <4>3
      <3>3. future'[f] = future[f] /\ job'[f] = job[f]
        BY <2>2, <1>f, <1>j
      <3>4. inbuf'[job[f].slot] = inbuf[job[f].slot]
        BY <3>1, <1>i
      <3> QED
        BY <2>2, <3>2, <3>3, <3>4 DEF PipelineInv, JobInv
    <2> QED
      BY <1>o, <2>1, <2>2
  <1>5. FutureInv'
    <2>1. \A f \in Frames : f > Submitted' => future'[f] = "none"
      BY <1>f, <1>g, <1>n, Numbers DEF PipelineInv, FutureInv, Frames
    <2>2. \A f \in Frames : f < Oldest' => future'[f] \notin {"queued", "running"}
      BY <1>f, <1>g, <1>n, Numbers DEF PipelineInv, FutureInv, Frames
    <2>3. \A i \in 1 .. Len(waiting) : waiting[i] # g
      BY <1>v DEF PipelineInv, FutureInv
    <2>4. \A i \in 1 .. Len(waiting') : i \in 1 .. Len(waiting) \/ i = Len(waiting) + 1
      BY <1>w
    <2>5. \A i \in 1 .. Len(waiting') : future'[waiting'[i]] = "queued"
      <3> SUFFICES ASSUME NEW i \in 1 .. Len(waiting')
                   PROVE  future'[waiting'[i]] = "queued"
        OBVIOUS
      <3>1. CASE i \in 1 .. Len(waiting)
        <4>1. waiting'[i] = waiting[i] /\ waiting[i] \in Frames /\ waiting[i] # g
          BY <1>w, <2>3, <3>1
        <4>2. future[waiting[i]] = "queued"
          BY <3>1 DEF PipelineInv, FutureInv
        <4> QED
          BY <1>f, <4>1, <4>2
      <3>2. CASE i = Len(waiting) + 1
        BY <1>f, <1>g, <1>w, <3>2
      <3> QED
        BY <2>4, <3>1, <3>2
    <2>6. \A i, j \in 1 .. Len(waiting') : waiting'[i] = waiting'[j] => i = j
      BY <1>w, <2>3, <2>4 DEF PipelineInv, FutureInv
    <2> QED
      BY <2>1, <2>2, <2>5, <2>6 DEF FutureInv
  <1>6. BufferInv'
    <2>1. ASSUME NEW f \in OldestHolding' .. Submitted'
          PROVE  content[job'[f].cap] = f
      <3>1. f = g \/ f \in OldestHolding .. Submitted
        BY <1>g, <1>n, Numbers
      <3>2. CASE f = g
        BY <3>2, <1>k DEF g
      <3>3. CASE f \in OldestHolding .. Submitted
        BY <3>3, <1>j, Numbers DEF PipelineInv, BufferInv
      <3> QED
        BY <3>1, <3>2, <3>3
    <2> QED
      BY <1>n, <1>u, <2>1 DEF PipelineInv, BufferInv
  <1>7. CollectInv'
    BY <1>a, <1>n, <1>u, <1>x DEF PipelineInv, CollectInv
  <1> QED
    BY <1>1, <1>2, <1>3, <1>4, <1>5, <1>6, <1>7 DEF PipelineInv

(* The oldest pending job becomes the one being collected. *)
LEMMA PopFrontInv ==
    ASSUME PipelineInv, PopFront
    PROVE  PipelineInv'
  <1>t. TypeOK
    BY DEF PipelineInv
  <1>a. /\ pc = "pop" \/ (pc = "drain" /\ pending_jobs_ # <<>>)
        /\ finished' = Head(pending_jobs_) /\ pending_jobs_' = Tail(pending_jobs_)
        /\ pc' = "get"
    BY DEF PopFront
  <1>u. UNCHANGED <<queued, filled, content, captured, lost, waiting, future, life, ret, inbuf,
                    netin, last, out, draining, m_cur_yolo, job, overlay, stop,
                    tracked, delivered>>
    BY DEF PopFront, driverVars, poolVars, yoloVars
  <1>l. Len(pending_jobs_) >= 1 /\ Len(pending_jobs_) <= N /\ finished = 0
    <2>1. CASE pc = "pop"
      BY <2>1 DEF PipelineInv, ControlInv
    <2>2. CASE pc = "drain" /\ pending_jobs_ # <<>>
      <3>1. Len(pending_jobs_) >= 1
        BY <2>2, <1>t DEF TypeOK
      <3> QED
        BY <2>2, <3>1, Numbers DEF PipelineInv, ControlInv
    <2> QED
      BY <1>a, <2>1, <2>2
  <1>h. /\ finished' = pending_jobs_[1] /\ finished' \in Frames /\ finished' # 0
        /\ pending_jobs_' \in Seq(Frames)
        /\ Len(pending_jobs_') = Len(pending_jobs_) - 1
        /\ \A i \in 1 .. Len(pending_jobs_') : pending_jobs_'[i] = pending_jobs_[i + 1]
    BY <1>a, <1>l, <1>t DEF TypeOK, Frames
  <1>f. finished' = Submitted - Len(pending_jobs_) + 1
    BY <1>h, <1>l, Numbers DEF PipelineInv, FrameOrder
  <1>n. Submitted' = Submitted /\ Oldest' = Oldest /\ OldestHolding' = OldestHolding
    <2>1. Submitted' = Submitted
      BY <1>u DEF Submitted
    <2>2. Oldest = Submitted - Len(pending_jobs_) + 1
      BY <1>l DEF Oldest
    <2>3. Oldest' = Submitted - Len(pending_jobs_') + 0
      BY <1>h, <2>1 DEF Oldest
    <2>4. Oldest' = Oldest
      BY <1>h, <2>2, <2>3, Numbers
    <2> QED
      BY <1>a, <2>1, <2>4 DEF OldestHolding
  <1>1. TypeOK'
    BY <1>a, <1>h, <1>t, <1>u DEF TypeOK
  <1>2. ControlInv'
    BY <1>a, <1>h, <1>l, Numbers DEF ControlInv
  <1>3. FrameOrder'
    <2>1. \A i \in 1 .. Len(pending_jobs_') :
             pending_jobs_'[i] = Submitted - Len(pending_jobs_') + i
      <3> SUFFICES ASSUME NEW i \in 1 .. Len(pending_jobs_')
                   PROVE  pending_jobs_[i + 1] = Submitted - Len(pending_jobs_') + i
        BY <1>h
      <3>1. i + 1 \in 1 .. Len(pending_jobs_)
        BY <1>h, Numbers
      <3>2. pending_jobs_[i + 1] = Submitted - Len(pending_jobs_) + (i + 1)
        BY <3>1 DEF PipelineInv, FrameOrder
      <3> QED
        BY <1>h, <3>2, Numbers
    <2>2. finished' = Submitted - Len(pending_jobs_')
      BY <1>f, <1>h, Numbers
    <2> QED
      BY <1>n, <1>u, <2>1, <2>2 DEF PipelineInv, FrameOrder
  <1>4. JobInv' /\ FutureInv' /\ BufferInv'
    BY <1>n, <1>u DEF PipelineInv, JobInv, FutureInv, BufferInv
  <1>5. CollectInv'
    BY <1>a, <1>n, <1>u DEF PipelineInv, CollectInv
  <1> QED
    BY <1>1, <1>2, <1>3, <1>4, <1>5 DEF PipelineInv

(* The job being collected is the oldest one in flight. *)
LEMMA CollectedIsOldest ==
    ASSUME PipelineInv, finished # 0
    PROVE  /\ finished = Oldest /\ finished \in Oldest .. Submitted
           /\ finished = Submitted - Len(pending_jobs_) /\ finished \in Frames
  BY Numbers DEF PipelineInv, FrameOrder, Oldest, TypeOK

(* What is left of BufferInv and FrameOrder when the buffer of the         *)
(* collected job is no longer held by it.                                  *)
BuffersAfter ==
    /\ queued' \in SUBSET Bufs /\ lost' \in SUBSET Bufs
    /\ content' \in [Bufs -> Frames \cup {0}]
    /\ \A b \in queued' : content'[b] = 0
    /\ \A b \in lost' : content'[b] # 0 /\ content'[b] < finished + 1
    /\ \A f \in finished + 1 .. Submitted : content'[job[f].cap] = f
    /\ \A i \in 1 .. Len(filled) : content'[filled[i]] = content[filled[i]]

(* VIDIOC_QBUF of the collected job's buffer, successful or not. *)
LEMMA QbufLemma ==
    ASSUME PipelineInv, finished # 0, pc \notin {"encode", "terminated"},
           Qbuf(job[finished].cap)
    PROVE  BuffersAfter
  <1> DEFINE c == job[finished].cap
  <1>t. TypeOK
    BY DEF PipelineInv
  <1>o. OldestHolding = finished
    BY CollectedIsOldest, Numbers DEF OldestHolding
  <1>c. c \in Bufs /\ content[c] = finished /\ finished \in Frames /\ finished \in Int
    <2>1. finished \in OldestHolding .. Submitted
      BY <1>o, CollectedIsOldest
    <2> QED
      BY <2>1, CollectedIsOldest, JobTypes DEF PipelineInv, BufferInv, Frames
  <1>f. ASSUME NEW i \in 1 .. Len(filled)
        PROVE  filled[i] \in Bufs /\ filled[i] # c
    <2>1. content[filled[i]] = Submitted + i /\ filled[i] \in Bufs
      BY <1>t DEF PipelineInv, FrameOrder, TypeOK
    <2>2. Submitted + i # finished
      BY CollectedIsOldest, Numbers
    <2> QED
      BY <1>c, <2>1, <2>2
  <1>j. ASSUME NEW f \in finished + 1 .. Submitted
        PROVE  content[job[f].cap] = f /\ job[f].cap \in Bufs /\ job[f].cap # c
    <2>1. f \in OldestHolding .. Submitted /\ f \in Oldest .. Submitted /\ f # finished
      <3>1. finished = Oldest /\ finished \in Int /\ Submitted \in Int
        BY <1>c, CollectedIsOldest, Numbers
      <3> QED
        BY <1>o, <3>1
    <2>2. content[job[f].cap] = f /\ job[f].cap \in Bufs
      BY <2>1, JobTypes DEF PipelineInv, BufferInv
    <2> QED
      BY <1>c, <2>1, <2>2
  <1>l. \A b \in lost : b \in Bufs /\ content[b] # 0 /\ content[b] < finished + 1 /\ b # c
    BY <1>c, <1>o, <1>t DEF PipelineInv, BufferInv, TypeOK, Frames
  <1>q. \A b \in queued : b \in Bufs /\ content[b] = 0
    BY <1>t DEF PipelineInv, BufferInv, TypeOK
  <1>1. CASE /\ queued' = queued \cup {c}
             /\ content' = [content EXCEPT ![c] = 0] /\ lost' = lost
    <2>1. /\ content' \in [Bufs -> Frames \cup {0}] /\ content'[c] = 0
          /\ \A b \in Bufs : b # c => content'[b] = content[b]
      BY <1>1, <1>c, <1>t DEF TypeOK
    <2> HIDE DEF c
    <2>2. /\ queued' \in SUBSET Bufs /\ lost' \in SUBSET Bufs
          /\ \A b \in queued' : content'[b] = 0
      BY <1>1, <1>c, <1>l, <1>q, <2>1
    <2>3. \A b \in lost' : content'[b] # 0 /\ content'[b] < finished + 1
      BY <1>1, <1>l, <2>1
    <2>4. \A f \in finished + 1 .. Submitted : content'[job[f].cap] = f
      BY <1>j, <2>1
    <2>5. \A i \in 1 .. Len(filled) : content'[filled[i]] = content[filled[i]]
      BY <1>f, <2>1
    <2> QED
      BY <2>1, <2>2, <2>3, <2>4, <2>5 DEF BuffersAfter
  <1>2. CASE lost' = lost \cup {c} /\ queued' = queued /\ content' = content
    <2> HIDE DEF c
    <2>1. \A b \in lost' : content'[b] # 0 /\ content'[b] < finished + 1 /\ b \in Bufs
      BY <1>2, <1>c, <1>l DEF Frames
    <2>2. \A f \in finished + 1 .. Submitted : content'[job[f].cap] = f
      BY <1>2, <1>j
    <2> QED
      BY <1>2, <1>q, <1>t, <2>1, <2>2 DEF BuffersAfter, TypeOK
  <1> QED
    BY <1>1, <1>2 DEF Qbuf

(* "continue": the collected job is gone and its slot is free again. *)
LEMMA ResumeInv ==
    ASSUME PipelineInv, finished # 0, pc # "terminated", Resume, BuffersAfter,
           future[finished] = "ready",
           delivered' \in Picture, delivered'.pix = delivered'.boxes, delivered'.pix <= finished,
           out' \in [Slots -> Picture], \A r \in Slots : out'[r].pix = out[r].pix,
           UNCHANGED <<filled, captured, waiting, future, life, ret, inbuf, netin, last,
                       draining, m_cur_yolo, pending_jobs_, stop, tracked>>
    PROVE  PipelineInv'
  <1>t. TypeOK
    BY DEF PipelineInv
  <1>o. /\ finished = Oldest /\ finished \in Oldest .. Submitted /\ finished \in Int
        /\ finished = Submitted - Len(pending_jobs_) /\ finished \in Frames
    BY CollectedIsOldest DEF Frames
  <1>a. /\ job' = [job EXCEPT ![finished] = NoJob] /\ finished' = 0 /\ overlay' = 0
        /\ pc' \in {"drain", "top"}
    BY DEF Resume
  <1>l. Len(pending_jobs_) < N
    <2>1. pc # "pop"
      BY DEF PipelineInv, ControlInv
    <2> QED
      BY <2>1 DEF PipelineInv, ControlInv
  <1>n. Submitted' = Submitted /\ Oldest' = finished + 1 /\ OldestHolding' = finished + 1
    <2>1. Submitted' = Submitted
      BY DEF Submitted
    <2>2. Oldest' = Submitted - Len(pending_jobs_) + 1
      BY <1>a, <2>1 DEF Oldest
    <2>3. Oldest' = finished + 1
      BY <1>o, <2>2
    <2>4. pc' \notin {"encode", "terminated"}
      BY <1>a
    <2> QED
      BY <1>o, <2>1, <2>3, <2>4 DEF OldestHolding
  <1>j. \A f \in finished + 1 .. Submitted :
           f \in Oldest .. Submitted /\ f \in Frames /\ job'[f] = job[f]
    <2>1. \A f \in finished + 1 .. Submitted : f \in Oldest .. Submitted /\ f # finished
      BY <1>o, Numbers
    <2> QED
      BY <1>a, <1>t, <2>1, Numbers DEF TypeOK
  <1>1. TypeOK'
    <2>1. job' \in [Frames -> [slot : Slots, cap : Bufs] \cup {NoJob}]
      BY <1>a, <1>t DEF TypeOK
    <2>2. queued' \in SUBSET Bufs /\ lost' \in SUBSET Bufs /\ content' \in [Bufs -> Frames \cup {0}]
      BY DEF BuffersAfter
    <2> QED
      BY <1>a, <1>t, <2>1, <2>2 DEF TypeOK
  <1>2. ControlInv'
    BY <1>a, <1>l DEF ControlInv
  <1>3. FrameOrder'
    <2>1. \A i \in 1 .. Len(filled') : content'[filled'[i]] = Submitted' + i
      BY <1>n DEF BuffersAfter, PipelineInv, FrameOrder
    <2>2. Oldest' >= 1
      BY <1>n, <1>o, Numbers
    <2> QED
      BY <1>a, <1>n, <2>1, <2>2 DEF PipelineInv, FrameOrder
  <1>4. JobInv'
    <2>1. \A f \in Oldest .. Submitted : out'[job[f].slot].pix = out[job[f].slot].pix
      BY JobTypes
    <2> QED
      BY <1>j, <1>n, <2>1 DEF PipelineInv, JobInv
  <1>5. FutureInv'
    <2>1. \A f \in Frames : f < finished + 1 => f < Oldest \/ f = finished
      BY <1>o DEF Frames
    <2>2. \A f \in Frames : f < Oldest' => future'[f] \notin {"queued", "running"}
      BY <1>n, <2>1 DEF PipelineInv, FutureInv
    <2> QED
      BY <1>n, <2>2 DEF PipelineInv, FutureInv
  <1>6. BufferInv'
    BY <1>j, <1>n DEF BuffersAfter, BufferInv
  <1>7. CollectInv'
    <2>1. tracked \in Int /\ tracked <= finished /\ delivered'.pix \in Int
      BY <1>o, <1>t DEF PipelineInv, CollectInv, TypeOK, Frames, Picture
    <2>2. delivered'.pix < Oldest' /\ tracked' < Oldest'
      BY <1>n, <1>o, <2>1
    <2> QED
      BY <1>a, <1>n, <1>o, <2>1, <2>2 DEF CollectInv
  <1> QED
    BY <1>1, <1>2, <1>3, <1>4, <1>5, <1>6, <1>7 DEF PipelineInv

(* What the encoder would deliver for the collected job is the frame       *)
(* itself, and newer than what was delivered before.                       *)
LEMMA CollectedPicture ==
    ASSUME PipelineInv, pc = "encode"
    PROVE  out[job[finished].slot] = [pix |-> finished, boxes |-> finished]
  <1>1. finished # 0
    BY DEF PipelineInv, ControlInv
  <1>2. finished \in Oldest .. Submitted /\ job[finished].slot \in Slots
    BY <1>1, CollectedIsOldest, JobTypes
  <1>3. future[finished] = "ready" /\ ret[finished] = "ok"
        /\ out[job[finished].slot].boxes = finished
    BY DEF PipelineInv, CollectInv
  <1>4. out[job[finished].slot].pix = finished
    BY <1>2, <1>3 DEF PipelineInv, JobInv
  <1>5. out[job[finished].slot] \in Picture
    BY <1>2 DEF PipelineInv, TypeOK
  <1> QED
    BY <1>3, <1>4, <1>5 DEF Picture

(* The previous delivery is of an older frame. *)
LEMMA DeliveredOlder ==
    ASSUME PipelineInv, finished # 0
    PROVE  /\ delivered \in Picture /\ delivered.pix = delivered.boxes
           /\ delivered.pix < finished /\ delivered.pix <= finished
  <1>1. finished = Oldest /\ finished \in Int
    BY CollectedIsOldest DEF Frames
  <1>2. delivered \in Picture /\ delivered.pix = delivered.boxes /\ delivered.pix < finished
    BY <1>1 DEF PipelineInv, TypeOK, CollectInv
  <1>3. delivered.pix \in Int
    BY <1>2 DEF Picture, Frames
  <1> QED
    BY <1>1, <1>2, <1>3

(* A failed inference drops the frame; a successful one leaves the job's   *)
(* own detections in overlay.                                              *)
LEMMA GetResultInv ==
    ASSUME PipelineInv, GetResult
    PROVE  PipelineInv'
  <1>t. TypeOK
    BY DEF PipelineInv
  <1>z. finished # 0 /\ pc = "get" /\ future[finished] = "ready"
    BY DEF GetResult, PipelineInv, ControlInv
  <1>u. UNCHANGED <<filled, captured, waiting, future, life, ret, inbuf, netin, last, out,
                    draining, m_cur_yolo, pending_jobs_, stop, tracked, delivered>>
    BY DEF GetResult, poolVars, yoloVars
  <1>1. CASE Qbuf(job[finished].cap) /\ Resume
    <2>1. BuffersAfter
      BY <1>1, <1>z, QbufLemma
    <2>2. delivered' \in Picture /\ delivered'.pix = delivered'.boxes /\ delivered'.pix <= finished
      BY <1>u, <1>z, DeliveredOlder
    <2>3. out' \in [Slots -> Picture] /\ \A r \in Slots : out'[r].pix = out[r].pix
      BY <1>t, <1>u DEF TypeOK
    <2> QED
      BY <1>1, <1>u, <1>z, <2>1, <2>2, <2>3, ResumeInv
  <1>2. CASE /\ ret[finished] = "ok" /\ overlay' = last[job[finished].slot] /\ pc' = "track"
             /\ UNCHANGED <<queued, content, lost, job, finished>>
    <2>1. finished \in Oldest .. Submitted /\ finished \in Frames
      BY <1>z, CollectedIsOldest
    <2>2. overlay' = finished
      BY <1>2, <1>z, <2>1 DEF PipelineInv, JobInv
    <2>n. Submitted' = Submitted /\ Oldest' = Oldest /\ OldestHolding' = OldestHolding
      BY <1>2, <1>u, <1>z DEF Submitted, Oldest, OldestHolding
    <2>3. TypeOK'
      BY <1>2, <1>t, <1>u, <2>1, <2>2 DEF TypeOK
    <2>4. ControlInv' /\ FrameOrder' /\ JobInv'
      BY <1>2, <1>u, <1>z, <2>n DEF PipelineInv, ControlInv, FrameOrder, JobInv
    <2>5. FutureInv' /\ BufferInv'
      BY <1>2, <1>u, <2>n DEF PipelineInv, FutureInv, BufferInv
    <2>6. CollectInv'
      BY <1>2, <1>u, <1>z, <2>2, <2>n DEF PipelineInv, CollectInv
    <2> QED
      BY <2>3, <2>4, <2>5, <2>6 DEF PipelineInv
  <1> QED
    BY <1>1, <1>2 DEF GetResult

(* The tracker sees the detections of the collected frame. *)
LEMMA TrackInv ==
    ASSUME PipelineInv, Track
    PROVE  PipelineInv'
  <1>t. TypeOK
    BY DEF PipelineInv
  <1>a. pc = "track" /\ tracked' = overlay /\ pc' = "render"
    BY DEF Track
  <1>u. UNCHANGED <<queued, filled, content, captured, lost, waiting, future, life, ret, inbuf,
                    netin, last, out, draining, m_cur_yolo, job, pending_jobs_, finished,
                    overlay, stop, delivered>>
    BY DEF Track, driverVars, poolVars, yoloVars
  <1>n. Submitted' = Submitted /\ Oldest' = Oldest /\ OldestHolding' = OldestHolding
    BY <1>a, <1>u DEF Submitted, Oldest, OldestHolding
  <1>o. finished # 0 /\ overlay = finished /\ finished = Oldest
    <2>1. finished # 0 /\ overlay = finished
      BY <1>a DEF PipelineInv, ControlInv, CollectInv
    <2> QED
      BY <2>1, CollectedIsOldest
  <1>1. TypeOK'
    BY <1>a, <1>t, <1>u DEF TypeOK
  <1>2. ControlInv' /\ FrameOrder' /\ JobInv'
    BY <1>a, <1>n, <1>u DEF PipelineInv, ControlInv, FrameOrder, JobInv
  <1>3. FutureInv' /\ BufferInv'
    BY <1>a, <1>n, <1>u DEF PipelineInv, FutureInv, BufferInv
  <1>4. CollectInv'
    BY <1>a, <1>n, <1>o, <1>u, Numbers DEF PipelineInv, CollectInv
  <1> QED
    BY <1>1, <1>2, <1>3, <1>4 DEF PipelineInv

(* The capture buffer goes back; the boxes go into the job's own output. *)
LEMMA RenderInv ==
    ASSUME PipelineInv, Render
    PROVE  PipelineInv'
  <1>t. TypeOK
    BY DEF PipelineInv
  <1>z. /\ finished # 0 /\ pc = "render"
        /\ future[finished] = "ready" /\ ret[finished] = "ok" /\ overlay = finished
    BY DEF Render, PipelineInv, ControlInv, CollectInv
  <1>u. UNCHANGED <<filled, captured, waiting, future, life, ret, inbuf, netin, last,
                    draining, m_cur_yolo, pending_jobs_, stop, tracked, delivered>>
    BY DEF Render, poolVars
  <1>b. BuffersAfter
    BY <1>z, QbufLemma DEF Render
  <1> DEFINE s == job[finished].slot
             drawn == [out EXCEPT ![s].boxes = overlay]
  <1>o. /\ finished \in Oldest .. Submitted /\ finished \in Frames /\ finished \in Int
        /\ finished = Oldest /\ s \in Slots
    BY <1>z, CollectedIsOldest, JobTypes DEF Frames
  <1>p. \A r \in Slots : out[r] \in Picture
    BY <1>t DEF TypeOK
  <1>q. /\ drawn \in [Slots -> Picture] /\ drawn[s].boxes = finished
        /\ \A r \in Slots : drawn[r].pix = out[r].pix
    BY <1>t, <1>z, <1>o, <1>p DEF TypeOK, Picture
  <1> HIDE DEF drawn
  <1>1. CASE Resume /\ out' \in {out, drawn}
    <2>1. out' \in [Slots -> Picture] /\ \A r \in Slots : out'[r].pix = out[r].pix
      BY <1>1, <1>q, <1>t DEF TypeOK
    <2>2. delivered' \in Picture /\ delivered'.pix = delivered'.boxes /\ delivered'.pix <= finished
      BY <1>u, <1>z, DeliveredOlder
    <2> QED
      BY <1>1, <1>b, <1>u, <1>z, <2>1, <2>2, ResumeInv
  <1>2. CASE out' = drawn /\ pc' = "encode" /\ UNCHANGED <<job, finished, overlay>>
    <2>n. Submitted' = Submitted /\ Oldest' = Oldest /\ OldestHolding' = finished + 1
      <3>1. Submitted' = Submitted /\ Oldest' = Oldest
        BY <1>2, <1>u DEF Submitted, Oldest
      <3>2. pc' \in {"encode", "terminated"}
        BY <1>2
      <3> QED
        BY <1>o, <3>1, <3>2 DEF OldestHolding
    <2>q. /\ out' \in [Slots -> Picture] /\ out'[s].boxes = finished
          /\ \A r \in Slots : out'[r].pix = out[r].pix
      BY <1>2, <1>q
    <2>3. TypeOK'
      <3>1. queued' \in SUBSET Bufs /\ lost' \in SUBSET Bufs
            /\ content' \in [Bufs -> Frames \cup {0}]
        BY <1>b DEF BuffersAfter
      <3> QED
        BY <1>2, <1>t, <1>u, <2>q, <3>1 DEF TypeOK
    <2>4. ControlInv'
      BY <1>2, <1>u, <1>z DEF PipelineInv, ControlInv
    <2>5. FrameOrder'
      BY <1>2, <1>b, <1>u, <2>n DEF BuffersAfter, PipelineInv, FrameOrder
    <2>6. JobInv'
      <3>1. \A f \in Oldest .. Submitted : out'[job[f].slot].pix = out[job[f].slot].pix
        BY <2>q, JobTypes
      <3> QED
        BY <1>2, <1>u, <2>n, <3>1 DEF PipelineInv, JobInv
    <2>7. FutureInv'
      BY <1>u, <2>n DEF PipelineInv, FutureInv
    <2>8. BufferInv'
      BY <1>2, <1>b, <2>n DEF BuffersAfter, BufferInv
    <2>9. CollectInv'
      BY <1>2, <1>u, <1>z, <2>n, <2>q DEF PipelineInv, CollectInv
    <2> QED
      BY <2>3, <2>4, <2>5, <2>6, <2>7, <2>8, <2>9 DEF PipelineInv
  <1> QED
    BY <1>1, <1>2 DEF Render, RenderOverlay, drawn

(* Delivered, skipped, or the end of the process. *)
LEMMA EncodeInv ==
    ASSUME PipelineInv, Encode
    PROVE  PipelineInv'
  <1>t. TypeOK
    BY DEF PipelineInv
  <1>z. finished # 0 /\ pc = "encode" /\ future[finished] = "ready"
    BY DEF Encode, PipelineInv, ControlInv, CollectInv
  <1>u. UNCHANGED <<queued, filled, content, captured, lost, waiting, future, life, ret, inbuf,
                    netin, last, out, draining, m_cur_yolo, pending_jobs_, stop, tracked>>
    BY DEF Encode, driverVars, poolVars, yoloVars
  <1>o. finished = Oldest /\ finished \in Frames /\ finished \in Int /\ OldestHolding = finished + 1
    <2>1. finished = Oldest /\ finished \in Frames /\ finished \in Int
      BY <1>z, CollectedIsOldest DEF Frames
    <2> QED
      BY <1>z, <2>1 DEF OldestHolding
  <1>b. BuffersAfter
    <2>1. queued \in SUBSET Bufs /\ lost \in SUBSET Bufs /\ content \in [Bufs -> Frames \cup {0}]
      BY <1>t DEF TypeOK
    <2> QED
      BY <1>o, <1>u, <2>1 DEF BuffersAfter, PipelineInv, BufferInv
  <1>p. out' \in [Slots -> Picture] /\ \A r \in Slots : out'[r].pix = out[r].pix
    BY <1>t, <1>u DEF TypeOK
  <1>1. CASE delivered' = out[job[finished].slot] /\ Resume
    <2>1. delivered' = [pix |-> finished, boxes |-> finished]
      BY <1>1, <1>z, CollectedPicture
    <2>2. delivered' \in Picture /\ delivered'.pix = delivered'.boxes /\ delivered'.pix <= finished
      BY <1>o, <2>1 DEF Picture
    <2> QED
      BY <1>1, <1>b, <1>p, <1>u, <1>z, <2>2, ResumeInv
  <1>2. CASE Resume /\ UNCHANGED delivered
    <2>2. delivered' \in Picture /\ delivered'.pix = delivered'.boxes /\ delivered'.pix <= finished
      BY <1>2, <1>z, DeliveredOlder
    <2> QED
      BY <1>2, <1>b, <1>p, <1>u, <1>z, <2>2, ResumeInv
  <1>3. CASE pc' = "terminated" /\ UNCHANGED <<delivered, job, finished, overlay>>
    <2>n. Submitted' = Submitted /\ Oldest' = Oldest /\ OldestHolding' = OldestHolding
      BY <1>3, <1>u, <1>z DEF Submitted, Oldest, OldestHolding
    <2>1. TypeOK'
      BY <1>3, <1>t, <1>u DEF TypeOK
    <2>2. ControlInv' /\ FrameOrder' /\ JobInv'
      BY <1>3, <1>u, <1>z, <2>n DEF PipelineInv, ControlInv, FrameOrder, JobInv
    <2>3. FutureInv' /\ BufferInv'
      BY <1>3, <1>u, <2>n DEF PipelineInv, FutureInv, BufferInv
    <2>4. CollectInv'
      BY <1>3, <1>u, <1>z, <2>n DEF PipelineInv, CollectInv
    <2> QED
      BY <2>1, <2>2, <2>3, <2>4 DEF PipelineInv
  <1> QED
    BY <1>1, <1>2, <1>3 DEF Encode

(* Closing gives up the buffers; no job is in flight any more. *)
LEMMA CloseInv ==
    ASSUME PipelineInv, Close
    PROVE  PipelineInv'
  <1>t. TypeOK
    BY DEF PipelineInv
  <1>a. /\ pc = "drain" /\ pending_jobs_ = <<>> /\ pc' = "stopped"
        /\ queued' = {} /\ filled' = <<>> /\ lost' = {}
    BY DEF Close
  <1>u. UNCHANGED <<content, captured, waiting, future, life, ret, inbuf, netin, last, out,
                    draining, m_cur_yolo, job, pending_jobs_, finished, overlay, stop,
                    tracked, delivered>>
    BY DEF Close, poolVars, yoloVars
  <1>l. Len(pending_jobs_) = 0 /\ Len(filled') = 0
    BY <1>a
  <1>z. finished = 0
    <2>1. pc = "drain"
      BY <1>a
    <2> QED
      BY <2>1 DEF PipelineInv, ControlInv
  <1>n. /\ Submitted' = captured /\ Submitted' >= Submitted /\ Submitted' \in Int
        /\ Oldest = Submitted + 1 /\ Oldest' = Submitted' + 1 /\ OldestHolding' = Submitted' + 1
    <2>1. Submitted' = captured
      <3>1. captured' = captured /\ Len(filled') = 0 /\ captured \in Int
        BY <1>l, <1>u, Numbers
      <3> QED
        BY <3>1 DEF Submitted
    <2>2. Oldest = Submitted + 1
      BY <1>l, <1>z, Numbers DEF Oldest
    <2>3. Oldest' = Submitted' + 1
      <3>1. Len(pending_jobs_') = 0 /\ finished' = 0
        BY <1>l, <1>u, <1>z
      <3> QED
        BY <2>1, <3>1, Numbers DEF Oldest
    <2>4. pc' \notin {"encode", "terminated"}
      BY <1>a
    <2>5. OldestHolding' = Oldest'
      BY <2>1, <2>3, <2>4, Numbers DEF OldestHolding
    <2> QED
      BY <2>1, <2>2, <2>3, <2>5, Numbers
  <1>1. TypeOK'
    <2>1. queued' \in SUBSET Bufs /\ filled' \in Seq(Bufs) /\ lost' \in SUBSET Bufs
      BY <1>a
    <2>2. pc' \in {"top", "dqbuf", "pop", "get", "track", "render", "encode",
                   "drain", "stopped", "terminated"}
      BY <1>a
    <2> QED
      BY <1>t, <1>u, <2>1, <2>2 DEF TypeOK
  <1>2. ControlInv'
    BY <1>a, <1>l, <1>u, <1>z DEF ControlInv
  <1>3. FrameOrder'
    <2>1. Oldest' >= 1
      BY <1>n, Numbers
    <2> QED
      BY <1>l, <1>u, <1>z, <2>1 DEF FrameOrder
  <1>4. JobInv'
    BY <1>n DEF JobInv
  <1>5. FutureInv'
    <2>1. \A f \in Frames : f > Submitted' => future'[f] = "none"
      BY <1>n, <1>u, Numbers DEF PipelineInv, FutureInv, Frames
    <2>2. \A f \in Frames : f > Submitted \/ f < Oldest
      BY <1>n, Numbers DEF Frames
    <2>3. \A f \in Frames : future[f] \notin {"queued", "running"}
      BY <2>2 DEF PipelineInv, FutureInv
    <2> QED
      BY <1>u, <2>1, <2>3 DEF PipelineInv, FutureInv
  <1>6. BufferInv'
    <2>1. \A f \in OldestHolding' .. Submitted' : FALSE
      BY <1>n
    <2> QED
      BY <1>a, <2>1 DEF BufferInv
  <1>7. CollectInv'
    <2>1. delivered.pix = delivered.boxes /\ delivered.pix < Oldest /\ tracked < Oldest
      BY <1>a DEF PipelineInv, CollectInv
    <2>2. delivered.pix \in Int /\ tracked \in Int
      BY <1>t DEF TypeOK, Picture, Frames
    <2>3. delivered.pix < Oldest' /\ tracked < Oldest' /\ tracked <= Oldest'
      BY <1>n, <2>1, <2>2, Numbers
    <2> QED
      BY <1>a, <1>u, <2>1, <2>3 DEF CollectInv
  <1> QED
    BY <1>1, <1>2, <1>3, <1>4, <1>5, <1>6, <1>7 DEF PipelineInv

-----------------------------------------------------------------------------
(* The theorems *)

(* transcoder.cc 613-761: every reachable state of the capture loop, the   *)
(* workers and the driver satisfies PipelineInv.                           *)
THEOREM PipelineInvariant == Spec => []PipelineInv
  <1>1. Init => PipelineInv
    BY InitInv
  <1>2. PipelineInv /\ [Next]_vars => PipelineInv'
    <2> SUFFICES ASSUME PipelineInv, [Next]_vars PROVE PipelineInv'
      OBVIOUS
    <2>1. ASSUME NEW b \in Bufs, DriverFill(b) PROVE PipelineInv'
      BY <2>1, DriverFillInv
    <2>2. CASE RequestStop
      <3>1. stop' \in BOOLEAN
        BY <2>2 DEF RequestStop
      <3> QED
        BY <2>2, <3>1, FlagInv DEF RequestStop
    <2>3. CASE StartInference
      BY <2>3, StartInferenceInv
    <2>4. ASSUME NEW f \in Frames, FinishInference(f) PROVE PipelineInv'
      BY <2>4, FinishInferenceInv
    <2>5. CASE LoopStep
      BY <2>5, LoopTopInv, DqbufNothingInv, DqbufFrameInv, PopFrontInv, GetResultInv,
         TrackInv, RenderInv, EncodeInv, CloseInv DEF LoopStep
    <2>6. CASE UNCHANGED vars
      <3>1. stop' = stop /\ UNCHANGED <<driverVars, poolVars, ret, yoloVars, loopVars,
                                        tracked, delivered>>
        BY <2>6 DEF vars
      <3>2. stop' \in BOOLEAN
        BY <3>1 DEF PipelineInv, TypeOK
      <3> QED
        BY <3>1, <3>2, FlagInv
    <2>7. CASE Finished
      BY <2>6, <2>7 DEF Finished
    <2> QED
      BY <2>1, <2>2, <2>3, <2>4, <2>5, <2>6, <2>7 DEF Next, WorkerStep
  <1> QED
    BY <1>1, <1>2, PTL DEF Spec

(* The jobs in flight, as the loop's deque holds them, are the interval. *)
LEMMA LiveIsInterval ==
    ASSUME PipelineInv
    PROVE  /\ \A f \in Live : f \in Oldest .. Submitted
           /\ \A f \in Oldest .. Submitted : f \in Live
  <1>t. TypeOK
    BY DEF PipelineInv
  <1>1. ASSUME NEW f \in Live PROVE f \in Oldest .. Submitted
    <2>1. CASE f \in Elems(pending_jobs_)
      <3>1. PICK i \in DOMAIN pending_jobs_ : f = pending_jobs_[i]
        BY <2>1 DEF Elems
      <3>2. i \in 1 .. Len(pending_jobs_)
        BY <3>1, <1>t DEF TypeOK
      <3>3. f = Submitted - Len(pending_jobs_) + i
        BY <3>1, <3>2 DEF PipelineInv, FrameOrder
      <3>4. Oldest <= Submitted - Len(pending_jobs_) + 1
        BY Numbers DEF Oldest
      <3>5. i \in Int /\ 1 <= i /\ i <= Len(pending_jobs_)
        BY <3>2
      <3> QED
        BY <3>3, <3>4, <3>5, Numbers
    <2>2. CASE f = finished /\ finished # 0
      BY <2>2, CollectedIsOldest
    <2> QED
      BY <1>1, <2>1, <2>2 DEF Live
  <1>2. ASSUME NEW f \in Oldest .. Submitted PROVE f \in Live
    <2>1. CASE finished # 0 /\ f = Oldest
      BY <2>1, CollectedIsOldest DEF Live
    <2>2. CASE f \in Submitted - Len(pending_jobs_) + 1 .. Submitted
      <3> DEFINE i == f - (Submitted - Len(pending_jobs_))
      <3>1. i \in 1 .. Len(pending_jobs_) /\ f = Submitted - Len(pending_jobs_) + i
        BY <2>2, Numbers
      <3>2. pending_jobs_[i] = f /\ i \in DOMAIN pending_jobs_
        BY <3>1, <1>t DEF PipelineInv, FrameOrder, TypeOK
      <3> QED
        BY <3>2 DEF Live, Elems
    <2>3. \/ finished # 0 /\ f = Oldest
          \/ f \in Submitted - Len(pending_jobs_) + 1 .. Submitted
      BY Numbers DEF Oldest
    <2> QED
      BY <2>1, <2>2, <2>3
  <1> QED
    BY <1>1, <1>2

(* The jobs that hold a capture buffer, likewise. *)
LEMMA HoldingIsInterval ==
    ASSUME PipelineInv, NEW f \in Holding
    PROVE  f \in OldestHolding .. Submitted /\ f \in Oldest .. Submitted
  <1>1. f \in Oldest .. Submitted
    BY LiveIsInterval DEF Holding
  <1>2. CASE pc \in {"encode", "terminated"}
    <2>1. f # finished /\ finished # 0
      BY <1>2 DEF Holding, PipelineInv, ControlInv
    <2>2. finished = Oldest
      BY <2>1, CollectedIsOldest
    <2> QED
      BY <1>1, <1>2, <2>1, <2>2, Numbers DEF OldestHolding
  <1>3. CASE pc \notin {"encode", "terminated"}
    BY <1>1, <1>3, Numbers DEF OldestHolding
  <1> QED
    BY <1>1, <1>2, <1>3

(* transcoder.cc 622-655: no slot is used by two jobs, nor taken for a new *)
(* frame before its job was collected, for every number of threads and     *)
(* buffers.                                                                *)
THEOREM SlotsAreExclusive == Spec => []SlotExclusive
  <1>1. PipelineInv => SlotExclusive
    <2> SUFFICES ASSUME PipelineInv PROVE SlotExclusive
      OBVIOUS
    <2>1. \A f, g \in Live : job[f].slot = job[g].slot => f = g
      BY LiveIsInterval, SlotsDiffer
    <2>2. pc = "dqbuf" => \A f \in Live : job[f].slot # m_cur_yolo
      BY LiveIsInterval, NextSlotIsFree
    <2>3. \A f \in Frames : future[f] \in {"queued", "running"} => f \in Live
      BY LiveIsInterval, ActiveJobs
    <2> QED
      BY <2>1, <2>2, <2>3 DEF SlotExclusive
  <1> QED
    BY <1>1, PipelineInvariant, PTL

(* transcoder.cc 629-693: a capture buffer never has two owners. *)
THEOREM BuffersHaveOneOwner == Spec => []BufferOwnership
  <1>1. PipelineInv => BufferOwnership
    <2> SUFFICES ASSUME PipelineInv PROVE BufferOwnership
      OBVIOUS
    <2>q. \A b \in queued : content[b] = 0
      BY DEF PipelineInv, BufferInv
    <2>l. \A b \in lost : content[b] # 0 /\ content[b] < OldestHolding /\ content[b] \in Int
      BY DEF PipelineInv, BufferInv, TypeOK, Frames
    <2>f. \A b \in Elems(filled) : content[b] > Submitted /\ content[b] \in Int /\ content[b] # 0
      <3> SUFFICES ASSUME NEW b \in Elems(filled)
                   PROVE  content[b] > Submitted /\ content[b] \in Int /\ content[b] # 0
        OBVIOUS
      <3>1. PICK i \in DOMAIN filled : b = filled[i]
        BY DEF Elems
      <3>2. i \in 1 .. Len(filled)
        BY <3>1 DEF PipelineInv, TypeOK
      <3>3. content[b] = Submitted + i
        BY <3>1, <3>2 DEF PipelineInv, FrameOrder
      <3>4. i \in Int /\ i >= 1
        BY <3>2
      <3> QED
        BY <3>3, <3>4, Numbers
    <2>h. \A f \in Holding : /\ content[job[f].cap] = f /\ f \in Int /\ f # 0
                             /\ f >= OldestHolding /\ f <= Submitted
      <3> SUFFICES ASSUME NEW f \in Holding
                   PROVE  /\ content[job[f].cap] = f /\ f \in Int /\ f # 0
                          /\ f >= OldestHolding /\ f <= Submitted
        OBVIOUS
      <3>1. f \in OldestHolding .. Submitted
        BY HoldingIsInterval
      <3>2. content[job[f].cap] = f
        BY <3>1 DEF PipelineInv, BufferInv
      <3> QED
        BY <3>1, <3>2, Numbers
    <2>1. ASSUME NEW b \in Held
          PROVE  b \notin queued /\ b \notin Elems(filled) /\ b \notin lost
      <3>1. PICK f \in Holding : b = job[f].cap
        BY DEF Held
      <3>2. /\ content[b] = f /\ f \in Int /\ f # 0
            /\ f >= OldestHolding /\ f <= Submitted
        BY <3>1, <2>h
      <3>3. b \notin queued
        BY <3>2, <2>q
      <3>4. b \notin Elems(filled)
        BY <3>2, <2>f, Numbers
      <3>5. b \notin lost
        BY <3>2, <2>l, Numbers
      <3> QED
        BY <3>3, <3>4, <3>5
    <2>2. queued \cap Elems(filled) = {}
      BY <2>q, <2>f
    <2>3. lost \cap (queued \cup Elems(filled)) = {}
      <3>1. OldestHolding <= Submitted + 1
        BY Numbers DEF OldestHolding, PipelineInv, ControlInv, Oldest
      <3>2. \A b \in lost : b \notin Elems(filled)
        BY <3>1, <2>l, <2>f, Numbers
      <3> QED
        BY <3>2, <2>l, <2>q
    <2>4. \A f, g \in Holding : job[f].cap = job[g].cap => f = g
      BY <2>h
    <2> QED
      BY <2>1, <2>2, <2>3, <2>4 DEF BufferOwnership
  <1> QED
    BY <1>1, PipelineInvariant, PTL

(* transcoder.cc 657-706: the stream carries whole pictures with their own *)
(* boxes, in the order they were captured.                                 *)
THEOREM StreamIsFaithful == Spec => []FaithfulStream
  <1>1. PipelineInv => FaithfulStream
    <2> SUFFICES ASSUME PipelineInv PROVE FaithfulStream
      OBVIOUS
    <2>1. delivered.pix = delivered.boxes
      BY DEF PipelineInv, CollectInv
    <2>2. pc = "encode" => finished # 0
      BY DEF PipelineInv, ControlInv
    <2> QED
      BY <2>1, <2>2, CollectedPicture, DeliveredOlder DEF FaithfulStream
  <1> QED
    BY <1>1, PipelineInvariant, PTL

(* transcoder.cc 669-680: the tracker's updates are in capture order and   *)
(* the picture it crops from is still the one of its detections.           *)
THEOREM TrackerSeesFramesInOrder == Spec => []TrackerInOrder
  <1>1. PipelineInv => TrackerInOrder
    <2> SUFFICES ASSUME PipelineInv, pc = "track"
                 PROVE  /\ overlay = finished
                        /\ content[job[finished].cap] = finished
                        /\ tracked < finished
      BY DEF TrackerInOrder
    <2>1. finished # 0 /\ overlay = finished /\ tracked < Oldest
      BY DEF PipelineInv, ControlInv, CollectInv
    <2>2. finished = Oldest /\ finished \in Oldest .. Submitted
      BY <2>1, CollectedIsOldest
    <2>3. OldestHolding = Oldest
      BY Numbers DEF OldestHolding
    <2>4. content[job[finished].cap] = finished
      BY <2>2, <2>3 DEF PipelineInv, BufferInv
    <2> QED
      BY <2>1, <2>2, <2>4
  <1> QED
    BY <1>1, PipelineInvariant, PTL

(* transcoder.cc 714-761: the buffers are freed with no job in the pool. *)
THEOREM CloseIsDrained == Spec => []DrainedAtClose
  <1>1. PipelineInv => DrainedAtClose
    <2> SUFFICES ASSUME PipelineInv, pc = "stopped"
                 PROVE  /\ pending_jobs_ = <<>>
                        /\ \A f \in Frames : future[f] \notin {"queued", "running"}
      BY DEF DrainedAtClose
    <2>1. finished = 0 /\ Len(pending_jobs_) = 0
      BY DEF PipelineInv, ControlInv
    <2>2. pending_jobs_ = <<>>
      BY <2>1 DEF PipelineInv, TypeOK
    <2>3. Oldest = Submitted + 1
      BY <2>1, Numbers DEF Oldest
    <2>4. \A f \in Frames : f > Submitted \/ f < Oldest
      BY <2>3, Numbers DEF Frames
    <2> QED
      BY <2>2, <2>4 DEF PipelineInv, FutureInv
  <1> QED
    BY <1>1, PipelineInvariant, PTL
-----------------------------------------------------------------------------
(***************************************************************************)
(* The supply of capture buffers.  BufferInv says that a buffer has at     *)
(* most one owner; that the camera is not starved needs the converse, that *)
(* none is forgotten, and a count of the lost ones.                        *)
(***************************************************************************)
Accounted(b) ==
    \/ b \in queued
    \/ \E i \in 1 .. Len(filled) : filled[i] = b
    \/ b \in lost
    \/ \E f \in OldestHolding .. Submitted : job[f].cap = b

SupplyInv ==
    /\ pc # "stopped" => \A b \in Bufs : Accounted(b)
    /\ Cardinality(lost) <= MaxQbufErrors

LEMMA BufsFinite == IsFiniteSet(Bufs) /\ Cardinality(Bufs) = B
  BY FS_Interval DEF Bufs

(* A step that moves no buffer. *)
LEMMA SupplySame ==
    ASSUME SupplyInv, pc = "stopped" => pc' = "stopped",
           UNCHANGED <<queued, filled, lost, job>>,
           Submitted' = Submitted, OldestHolding' = OldestHolding
    PROVE  SupplyInv'
  BY DEF SupplyInv, Accounted

(* VIDIOC_QBUF of the collected job's buffer: with the driver again, or    *)
(* one more that is lost.                                                  *)
LEMMA SupplyQbuf ==
    ASSUME PipelineInv, SupplyInv, finished # 0, pc \notin {"encode", "terminated"},
           Qbuf(job[finished].cap), UNCHANGED filled,
           Submitted' = Submitted, OldestHolding' = finished + 1,
           \A f \in finished + 1 .. Submitted : job'[f] = job[f]
    PROVE  SupplyInv'
  <1> DEFINE c == job[finished].cap
  <1>t. TypeOK
    BY DEF PipelineInv
  <1>o. /\ OldestHolding = finished /\ finished \in Int /\ Submitted \in Int
        /\ pc # "stopped"
    <2>1. finished = Oldest /\ Oldest \in Int /\ Submitted \in Int
      BY CollectedIsOldest, Numbers
    <2>2. pc # "stopped"
      BY DEF PipelineInv, ControlInv
    <2> QED
      BY <2>1, <2>2 DEF OldestHolding
  <1>1. queued \cup {c} \subseteq queued' \cup lost' /\ lost \subseteq lost' /\ queued \subseteq queued'
    BY DEF Qbuf
  <1>2. ASSUME NEW b \in Bufs PROVE Accounted(b)'
    <2>1. Accounted(b)
      BY <1>2, <1>o DEF SupplyInv
    <2>2. CASE \E f \in OldestHolding .. Submitted : job[f].cap = b
      <3>1. PICK f \in finished .. Submitted : job[f].cap = b
        BY <1>o, <2>2
      <3>2. CASE f = finished
        BY <1>1, <3>1, <3>2 DEF Accounted
      <3>3. CASE f # finished
        <4>1. f \in finished + 1 .. Submitted
          BY <1>o, <3>1, <3>3
        <4> QED
          BY <3>1, <4>1 DEF Accounted
      <3> QED
        BY <3>2, <3>3
    <2> QED
      BY <1>1, <2>1, <2>2 DEF Accounted
  <1>3. Cardinality(lost') <= MaxQbufErrors
    <2>1. CASE lost' = lost
      BY <2>1 DEF SupplyInv
    <2>2. CASE Cardinality(lost) < MaxQbufErrors /\ lost' = lost \cup {c}
      <3>2. IsFiniteSet(lost) /\ Cardinality(lost) \in Nat
        BY <1>t, BufsFinite, FS_Subset, FS_CardinalityType DEF TypeOK
      <3>3. Cardinality(lost') = Cardinality(lost) \/ Cardinality(lost') = Cardinality(lost) + 1
        BY <2>2, <3>2, FS_AddElement
      <3> QED
        BY <2>2, <3>2, <3>3
    <2> QED
      BY <2>1, <2>2 DEF Qbuf
  <1> QED
    BY <1>2, <1>3 DEF SupplyInv

(* "continue" after the buffer went back. *)
LEMMA ResumeNumbers ==
    ASSUME PipelineInv, finished # 0, Resume, UNCHANGED <<filled, captured, pending_jobs_>>
    PROVE  /\ Submitted' = Submitted /\ OldestHolding' = finished + 1
           /\ pc' \in {"drain", "top"}
           /\ \A f \in finished + 1 .. Submitted : job'[f] = job[f]
  <1>t. TypeOK
    BY DEF PipelineInv
  <1>o. /\ finished = Oldest /\ finished \in Int /\ finished = Submitted - Len(pending_jobs_)
        /\ finished \in Frames
    BY CollectedIsOldest DEF Frames
  <1>a. /\ job' = [job EXCEPT ![finished] = NoJob] /\ finished' = 0 /\ pc' \in {"drain", "top"}
    BY DEF Resume
  <1>1. Submitted' = Submitted
    BY DEF Submitted
  <1>2. Oldest' = Submitted - Len(pending_jobs_) + 1
    BY <1>a, <1>1 DEF Oldest
  <1>3. Oldest' = finished + 1
    BY <1>o, <1>2
  <1>4. OldestHolding' = finished + 1
    BY <1>a, <1>3, <1>o DEF OldestHolding
  <1>5. \A f \in finished + 1 .. Submitted : f \in Frames /\ f # finished
    BY <1>o, Numbers
  <1>6. \A f \in finished + 1 .. Submitted : job'[f] = job[f]
    BY <1>a, <1>5, <1>t DEF TypeOK
  <1> QED
    BY <1>1, <1>4, <1>6, <1>a

LEMMA SupplyNext ==
    ASSUME PipelineInv, SupplyInv, [Next]_vars PROVE SupplyInv'
  <1>t. TypeOK
    BY DEF PipelineInv
  <1>1. ASSUME NEW b \in Bufs, DriverFill(b) PROVE SupplyInv'
    <2>1. /\ queued' = queued \ {b} /\ filled' = Append(filled, b) /\ captured' = captured + 1
          /\ UNCHANGED <<lost, pc, job, pending_jobs_, finished>>
          /\ pc # "stopped"
      BY <1>1 DEF DriverFill, loopVars
    <2>2. /\ Len(filled') = Len(filled) + 1 /\ filled'[Len(filled) + 1] = b
          /\ \A i \in 1 .. Len(filled) : filled'[i] = filled[i]
      BY <1>t, <2>1 DEF TypeOK
    <2>3. Submitted' = Submitted
      BY <2>1, <2>2, Numbers DEF Submitted
    <2>4. OldestHolding' = OldestHolding
      BY <2>1, <2>3 DEF Oldest, OldestHolding
    <2>5. \A i \in 1 .. Len(filled) : i \in 1 .. Len(filled')
      BY <2>2, Numbers
    <2>6. Len(filled) + 1 \in 1 .. Len(filled')
      BY <2>2, Numbers
    <2>7. ASSUME NEW c \in Bufs PROVE Accounted(c)'
      <3>1. Accounted(c)
        BY <2>1, <2>7 DEF SupplyInv
      <3>2. CASE c = b
        BY <2>2, <2>6, <3>2 DEF Accounted
      <3>3. CASE c # b
        BY <2>1, <2>2, <2>3, <2>4, <2>5, <3>1, <3>3 DEF Accounted
      <3> QED
        BY <3>2, <3>3
    <2> QED
      BY <2>1, <2>7 DEF SupplyInv
  <1>2. CASE RequestStop \/ WorkerStep \/ Finished \/ UNCHANGED vars
    <2>1. UNCHANGED <<queued, filled, lost, job, pc, captured, pending_jobs_, finished>>
      BY <1>2 DEF RequestStop, WorkerStep, StartInference, FinishInference, Finished,
                  vars, driverVars, loopVars
    <2>2. Submitted' = Submitted /\ OldestHolding' = OldestHolding
      BY <2>1 DEF Submitted, Oldest, OldestHolding
    <2> QED
      BY <2>1, <2>2, SupplySame
  <1>3. CASE LoopTop \/ DqbufNothing \/ Track
    <2>1. /\ UNCHANGED <<queued, filled, lost, job, captured, pending_jobs_, finished>>
          /\ pc \notin {"encode", "terminated", "stopped"} /\ pc' \notin {"encode", "terminated"}
      BY <1>3 DEF LoopTop, DqbufNothing, Track, driverVars
    <2>2. Submitted' = Submitted /\ OldestHolding' = OldestHolding
      BY <2>1 DEF Submitted, Oldest, OldestHolding
    <2> QED
      BY <2>1, <2>2, SupplySame
  <1>4. CASE DqbufFrame
    <2> DEFINE b == Head(filled)
               g == content[b]
    <2>1. /\ pc = "dqbuf" /\ filled # <<>> /\ filled' = Tail(filled)
          /\ job' = [job EXCEPT ![g] = [slot |-> m_cur_yolo, cap |-> b]]
          /\ pending_jobs_' = Append(pending_jobs_, g)
          /\ pc' \in {"pop", "top"} /\ UNCHANGED <<queued, captured, lost, finished>>
      BY <1>4 DEF DqbufFrame, Submit
    <2>2. /\ Len(filled) >= 1 /\ b = filled[1] /\ b \in Bufs
          /\ Len(filled') = Len(filled) - 1
          /\ \A i \in 1 .. Len(filled') : filled'[i] = filled[i + 1]
      BY <2>1, <1>t DEF TypeOK
    <2>3. g = Submitted + 1 /\ g \in Frames
      <3>1. g = Submitted + 1
        BY <2>2 DEF PipelineInv, FrameOrder
      <3>2. Submitted + 1 <= captured
        BY <2>2, Numbers DEF Submitted
      <3> QED
        BY <3>1, <3>2, Numbers DEF Frames
    <2>4. finished = 0 /\ Len(pending_jobs_') = Len(pending_jobs_) + 1
      BY <2>1, <2>3, <1>t DEF PipelineInv, ControlInv, TypeOK
    <2>5. Submitted' = Submitted + 1
      BY <2>1, <2>2, Numbers DEF Submitted
    <2>6. OldestHolding' = OldestHolding
      <3>1. Oldest = Submitted - Len(pending_jobs_) + 1
        BY <2>4 DEF Oldest
      <3>2. Oldest' = Submitted' - Len(pending_jobs_') + 1
        BY <2>1, <2>4 DEF Oldest
      <3>3. Oldest' = Oldest
        BY <2>4, <2>5, <3>1, <3>2, Numbers
      <3>4. pc \notin {"encode", "terminated"} /\ pc' \notin {"encode", "terminated"}
        BY <2>1
      <3> QED
        BY <3>3, <3>4 DEF OldestHolding
    <2>7. job'[g].cap = b /\ \A f \in OldestHolding .. Submitted : job'[f] = job[f]
      <3>1. \A f \in OldestHolding .. Submitted : f \in Frames /\ f # g
        BY <2>3, Numbers
      <3> QED
        BY <2>1, <2>3, <3>1, <1>t DEF TypeOK
    <2>8. g \in OldestHolding' .. Submitted'
      <3>1. OldestHolding = Oldest
        BY <2>1, Numbers DEF OldestHolding
      <3> QED
        BY <2>3, <2>5, <2>6, <3>1, Numbers
    <2>9. \A f \in OldestHolding .. Submitted : f \in OldestHolding' .. Submitted'
      BY <2>5, <2>6, Numbers
    <2> HIDE DEF b, g
    <2>10. ASSUME NEW c \in Bufs PROVE Accounted(c)'
      <3>1. Accounted(c)
        BY <2>1, <2>10 DEF SupplyInv
      <3>2. CASE c \in queued \/ c \in lost
        BY <2>1, <3>2 DEF Accounted
      <3>3. CASE \E f \in OldestHolding .. Submitted : job[f].cap = c
        BY <2>7, <2>9, <3>3 DEF Accounted
      <3>4. CASE \E i \in 1 .. Len(filled) : filled[i] = c
        <4>1. PICK i \in 1 .. Len(filled) : filled[i] = c
          BY <3>4
        <4>2. CASE i = 1
          BY <2>2, <2>7, <2>8, <4>1, <4>2 DEF Accounted
        <4>3. CASE i # 1
          <5>1. i - 1 \in 1 .. Len(filled') /\ (i - 1) + 1 = i
            BY <2>2, <4>1, <4>3, Numbers
          <5>2. filled'[i - 1] = c
            BY <2>2, <4>1, <5>1
          <5> QED
            BY <5>1, <5>2 DEF Accounted
        <4> QED
          BY <4>2, <4>3
      <3> QED
        BY <3>1, <3>2, <3>3, <3>4 DEF Accounted
    <2> QED
      BY <2>1, <2>10 DEF SupplyInv
  <1>5. CASE PopFront
    <2>1. /\ pc \in {"pop", "drain"} /\ pc' = "get" /\ finished' = Head(pending_jobs_)
          /\ pending_jobs_' = Tail(pending_jobs_)
          /\ UNCHANGED <<queued, filled, captured, lost, job>>
      BY <1>5 DEF PopFront, driverVars
    <2>2. PipelineInv'
      BY <1>5, PopFrontInv
    <2>3. Len(pending_jobs_) >= 1 /\ finished = 0
      BY <1>5, <1>t DEF PopFront, PipelineInv, ControlInv, TypeOK
    <2>4. finished' # 0 /\ Len(pending_jobs_') = Len(pending_jobs_) - 1
      BY <2>1, <2>3, <1>t DEF TypeOK, Frames
    <2>5. Submitted' = Submitted
      BY <2>1 DEF Submitted
    <2>6. Oldest' = Oldest
      BY <2>3, <2>4, <2>5, Numbers DEF Oldest
    <2> QED
      BY <2>1, <2>5, <2>6, SupplySame DEF OldestHolding
  <1>6. CASE GetResult
    <2>1. finished # 0 /\ pc = "get" /\ UNCHANGED <<filled, captured, pending_jobs_>>
      BY <1>6 DEF GetResult, PipelineInv, ControlInv
    <2>2. CASE Qbuf(job[finished].cap) /\ Resume
      BY <2>1, <2>2, ResumeNumbers, SupplyQbuf
    <2>3. CASE pc' = "track" /\ UNCHANGED <<queued, lost, job, finished>>
      <3>1. Submitted' = Submitted /\ OldestHolding' = OldestHolding
        BY <2>1, <2>3 DEF Submitted, Oldest, OldestHolding
      <3> QED
        BY <2>1, <2>3, <3>1, SupplySame
    <2> QED
      BY <1>6, <2>2, <2>3 DEF GetResult
  <1>7. CASE Render
    <2>1. finished # 0 /\ pc = "render" /\ UNCHANGED <<filled, captured, pending_jobs_>>
          /\ Qbuf(job[finished].cap)
      BY <1>7 DEF Render, PipelineInv, ControlInv
    <2>2. CASE Resume
      BY <2>1, <2>2, ResumeNumbers, SupplyQbuf
    <2>3. CASE pc' = "encode" /\ UNCHANGED <<job, finished>>
      <3>1. finished = Oldest /\ finished \in Int
        BY <2>1, CollectedIsOldest DEF Frames
      <3>2. Submitted' = Submitted /\ OldestHolding' = finished + 1
        BY <2>1, <2>3, <3>1 DEF Submitted, Oldest, OldestHolding
      <3> QED
        BY <2>1, <2>3, <3>2, SupplyQbuf
    <2> QED
      BY <1>7, <2>2, <2>3 DEF Render
  <1>8. CASE Encode
    <2>1. /\ finished # 0 /\ pc = "encode"
          /\ UNCHANGED <<queued, lost, filled, captured, pending_jobs_>>
      BY <1>8 DEF Encode, PipelineInv, ControlInv, driverVars
    <2>2. OldestHolding = finished + 1 /\ finished \in Int
      BY <2>1, CollectedIsOldest DEF OldestHolding, Frames
    <2>3. CASE Resume
      <3>1. /\ Submitted' = Submitted /\ OldestHolding' = OldestHolding /\ pc' # "stopped"
            /\ \A f \in OldestHolding .. Submitted : job'[f] = job[f]
        BY <2>1, <2>2, <2>3, ResumeNumbers
      <3> QED
        BY <2>1, <3>1 DEF SupplyInv, Accounted
    <2>4. CASE pc' = "terminated" /\ UNCHANGED <<job, finished>>
      <3>1. Submitted' = Submitted /\ OldestHolding' = OldestHolding
        BY <2>1, <2>4 DEF Submitted, Oldest, OldestHolding
      <3> QED
        BY <2>1, <2>4, <3>1, SupplySame
    <2> QED
      BY <1>8, <2>3, <2>4 DEF Encode
  <1>9. CASE Close
    <2>1. pc' = "stopped" /\ lost' = {}
      BY <1>9 DEF Close
    <2>2. Cardinality({}) = 0
      BY FS_EmptySet
    <2> QED
      BY <2>1, <2>2 DEF SupplyInv
  <1> QED
    BY <1>1, <1>2, <1>3, <1>4, <1>5, <1>6, <1>7, <1>8, <1>9 DEF Next, LoopStep

(* transcoder.cc 618-629, 657-663: whenever the loop waits for a frame the *)
(* driver has a buffer to fill or a filled one, provided that as many      *)
(* buffers as slots survive the failing VIDIOC_QBUF calls (init() clamps   *)
(* the threads to 6 and takes what the driver grants of dma_buffers, so    *)
(* this is a condition on config.ini, not a fact about every one).         *)
THEOREM CameraIsFed ==
    ASSUME B - MaxQbufErrors >= N
    PROVE  Spec => []CameraNotStarved
  <1>1. Init => SupplyInv
    <2>1. Init => Cardinality(lost) = 0
      BY FS_EmptySet DEF Init
    <2> QED
      BY <2>1 DEF Init, SupplyInv, Accounted
  <1>2. PipelineInv /\ SupplyInv /\ [Next]_vars => SupplyInv'
    BY SupplyNext
  <1>3. PipelineInv /\ SupplyInv => CameraNotStarved
    <2> SUFFICES ASSUME PipelineInv, SupplyInv, pc \in {"top", "dqbuf"}, queued = {}, filled = <<>>
                 PROVE  FALSE
      BY DEF CameraNotStarved
    <2>t. TypeOK
      BY DEF PipelineInv
    <2> DEFINE Jobs == Oldest .. Submitted
               cap == [f \in Jobs |-> job[f].cap]
               Caps == {cap[f] : f \in Jobs}
    <2>1. /\ OldestHolding = Oldest /\ Oldest \in Int /\ Submitted \in Int
          /\ Submitted - Oldest < N - 1 /\ Submitted >= Oldest - 1
      <3>1. finished = 0 /\ Len(pending_jobs_) < N
        BY DEF PipelineInv, ControlInv
      <3>2. Oldest = Submitted - Len(pending_jobs_) + 1
        BY <3>1 DEF Oldest
      <3> QED
        BY <3>1, <3>2, Numbers DEF OldestHolding
    <2>2. Bufs \subseteq lost \cup Caps
      <3>1. Len(filled) = 0
        OBVIOUS
      <3>2. \A b \in Bufs : Accounted(b)
        BY DEF SupplyInv
      <3> QED
        BY <2>1, <3>1, <3>2 DEF Accounted
    <2>3. IsFiniteSet(Jobs) /\ Cardinality(Jobs) = Submitted - Oldest + 1
      <3>1. CASE Oldest > Submitted
        BY <2>1, <3>1, FS_Interval
      <3>2. CASE Oldest <= Submitted
        BY <2>1, <3>2, FS_Interval
      <3> QED
        BY <2>1, <3>1, <3>2
    <2> HIDE DEF Jobs
    <2>4. IsFiniteSet(Caps) /\ Cardinality(Caps) <= Cardinality(Jobs)
      <3>1. cap \in Surjection(Jobs, Caps)
        BY DEF Surjection
      <3> HIDE DEF cap, Caps
      <3> QED
        BY <2>3, <3>1, FS_Surjection
    <2> HIDE DEF Caps
    <2>5. IsFiniteSet(Bufs) /\ Cardinality(Bufs) = B
      BY BufsFinite
    <2>6. IsFiniteSet(lost)
      BY <2>5, <2>t, FS_Subset DEF TypeOK
    <2>7. /\ IsFiniteSet(lost \cup Caps)
          /\ Cardinality(lost \cup Caps) = Cardinality(lost) + Cardinality(Caps) - Cardinality(lost \cap Caps)
      BY <2>4, <2>6, FS_Union
    <2>8. Cardinality(Bufs) <= Cardinality(lost \cup Caps)
      BY <2>2, <2>7, FS_Subset
    <2>9. /\ Cardinality(lost) \in Nat /\ Cardinality(Caps) \in Nat /\ Cardinality(lost \cap Caps) \in Nat
          /\ Cardinality(lost \cup Caps) \in Nat
      BY <2>4, <2>6, <2>7, FS_Intersection, FS_CardinalityType
    <2>10. Cardinality(lost) <= MaxQbufErrors
      BY DEF SupplyInv
    <2> QED
      BY <2>1, <2>3, <2>4, <2>5, <2>7, <2>8, <2>9, <2>10
  <1> QED
    BY <1>1, <1>2, <1>3, PipelineInvariant, PTL DEF Spec
=============================================================================
