----------------------------- MODULE Transcoder -----------------------------
(***************************************************************************)
(* TransCoder::run (src/src/transcoder.cc): the loop that takes filled     *)
(* capture buffers from the V4L2 driver, gives each to one of N RkYolo     *)
(* objects ("slots", used round robin) through the thread pool, and        *)
(* collects the jobs in submission order: tracker, overlay, buffer back to *)
(* the driver, encoder, callback.  After stop() the loop drains the        *)
(* pending jobs and closes the capture device.                             *)
(*                                                                         *)
(* Three parties run concurrently: the loop, the pool's workers (module    *)
(* TaskPool, which ThreadPool implements) and the driver, which may write  *)
(* at any time into every buffer queued to it.  A frame is identified by   *)
(* its number of capture; a picture or a detection result by the frame it  *)
(* was computed from, and 0 is "of no one frame".                          *)
(***************************************************************************)
EXTENDS Integers, Sequences, FiniteSets

CONSTANTS
    N,                  \* config.rknn_thread: slots, and workers of the pool
    B,                  \* number of capture buffers (req.count)
    MaxFrames,          \* bound: frames the camera delivers
    MaxQbufErrors       \* bound: VIDIOC_QBUF calls that fail while streaming

ASSUME TranscoderAssumption ==
    /\ N \in Nat \ {0}                  \* clamped to 1..6 by init()
    /\ B \in Nat /\ B >= 2              \* req.count < 2 is refused
    /\ MaxFrames \in Nat
    /\ MaxQbufErrors \in Nat

Slots == 0 .. N - 1
Bufs == 0 .. B - 1
Frames == 1 .. MaxFrames

NoJob == [slot |-> -1, cap |-> -1]

VARIABLES
    (* the driver *)
    queued,             \* buffers queued to the driver, being filled
    filled,             \* buffers ready for VIDIOC_DQBUF, oldest first
    content,            \* frame a buffer holds (0: the driver may write it)
    captured,           \* frames captured so far
    lost,               \* buffers whose VIDIOC_QBUF failed
    (* the pool: the variables of TaskPool *)
    waiting, future, life,
    ret,                \* value of a ready future: "ok" or "fail"
    (* the RkYolo objects *)
    inbuf,              \* m_inbuf: capture buffer index, set by SetBuffers
    netin,              \* frame in the NPU input memory
    last,               \* m_last_detect_result_group
    out,                \* output DMA buffer of the slot: picture and boxes
    (* the loop *)
    pc, draining, stop,
    m_cur_yolo,
    job,                \* the PendingJob made for a frame
    pending_jobs_,      \* frames submitted and not collected, oldest first
    finished,           \* the job being collected (0: none)
    overlay,            \* overlay_group of the job being collected
    tracked,            \* newest detections the tracker was updated with
    delivered           \* newest picture handed to onEncodedDataCallback

driverVars == <<queued, filled, content, captured, lost>>
poolVars == <<waiting, future, life>>
yoloVars == <<inbuf, netin, last, out>>
loopVars == <<pc, draining, m_cur_yolo, job, pending_jobs_, finished, overlay>>
vars == <<driverVars, poolVars, ret, yoloVars, loopVars, stop, tracked, delivered>>

Pool == INSTANCE TaskPool WITH Tasks <- Frames

(* run() is entered only when init() succeeded (ready_): every buffer is   *)
(* queued and the device streams.                                          *)
Init ==
    /\ queued = Bufs /\ filled = <<>> /\ lost = {}
    /\ content = [b \in Bufs |-> 0] /\ captured = 0
    /\ Pool!Init
    /\ ret = [f \in Frames |-> "ok"]
    /\ inbuf = [s \in Slots |-> -1]
    /\ netin = [s \in Slots |-> 0]
    /\ last = [s \in Slots |-> 0]
    /\ out = [s \in Slots |-> [pix |-> 0, boxes |-> 0]]
    /\ pc = "top" /\ draining = FALSE /\ stop = FALSE
    /\ m_cur_yolo = 0
    /\ job = [f \in Frames |-> NoJob]
    /\ pending_jobs_ = <<>> /\ finished = 0 /\ overlay = 0
    /\ tracked = 0 /\ delivered = [pix |-> 0, boxes |-> 0]

-----------------------------------------------------------------------------
(* The driver and the controlling thread *)

(* The driver completes a queued buffer with the next frame. *)
DriverFill(b) ==
    /\ pc \notin {"stopped", "terminated"}
    /\ b \in queued /\ captured < MaxFrames
    /\ queued' = queued \ {b}
    /\ filled' = Append(filled, b)
    /\ captured' = captured + 1
    /\ content' = [content EXCEPT ![b] = captured + 1]
    /\ UNCHANGED <<lost, poolVars, ret, yoloVars, loopVars, stop, tracked, delivered>>

(* MThread::stop() from another thread sets the flag isStoped() reads. *)
RequestStop ==
    /\ pc # "terminated"
    /\ ~stop
    /\ stop' = TRUE
    /\ UNCHANGED <<driverVars, poolVars, ret, yoloVars, loopVars, tracked, delivered>>

-----------------------------------------------------------------------------
(* The workers: RkYolo::Inference of the job's slot *)

(* PreprocessToInputMem: the picture at m_inbuf, as it is now, scaled into *)
(* the NPU input memory.                                                   *)
PreprocessToInputMem(s) == [netin EXCEPT ![s] = content[inbuf[s]]]

(* ConvertInputToOutputYuv: the picture at m_inbuf, as it is now, without  *)
(* boxes in the output buffer.                                             *)
ConvertInputToOutputYuv(s) == [out EXCEPT ![s] = [pix |-> content[inbuf[s]], boxes |-> 0]]

(* A worker takes the oldest job, clears the slot's last result and scales *)
(* the picture.                                                            *)
StartInference ==
    /\ pc # "terminated"
    /\ Pool!Start
    /\ LET s == job[Head(waiting)].slot IN
         /\ last' = [last EXCEPT ![s] = 0]
         /\ netin' = PreprocessToInputMem(s)
    /\ UNCHANGED <<driverVars, ret, inbuf, out, loopVars, stop, tracked, delivered>>

(* rknn_run, ConvertInputToOutputYuv (reads m_inbuf again), post_process.  *)
(* An error before the conversion leaves the output buffer alone, one      *)
(* after it leaves the result empty.                                       *)
FinishInference(f) ==
    /\ pc # "terminated"
    /\ Pool!Complete(f)
    /\ LET s == job[f].slot
           converted == ConvertInputToOutputYuv(s)
       IN \/ /\ ret' = [ret EXCEPT ![f] = "fail"]
             /\ out' \in {out, converted}
             /\ UNCHANGED last
          \/ /\ ret' = [ret EXCEPT ![f] = "ok"]
             /\ out' = converted
             /\ last' = [last EXCEPT ![s] = netin[s]]
    /\ UNCHANGED <<driverVars, inbuf, netin, loopVars, stop, tracked, delivered>>

-----------------------------------------------------------------------------
(* The loop *)

\* Mutant: the slot index wraps one slot early.
LoopTopWrapEarly ==
    /\ pc = "top"
    /\ IF stop
       THEN pc' = "drain" /\ draining' = TRUE /\ UNCHANGED m_cur_yolo
       ELSE /\ pc' = "dqbuf"
            /\ m_cur_yolo' = IF m_cur_yolo >= N - 1 THEN 0 ELSE m_cur_yolo
            /\ UNCHANGED draining
    /\ UNCHANGED <<driverVars, poolVars, ret, yoloVars, job, pending_jobs_,
                   finished, overlay, stop, tracked, delivered>>

(* if (isStoped()) break;  then the wrap of m_cur_yolo. *)
LoopTop ==
    /\ pc = "top"
    /\ IF stop
       THEN pc' = "drain" /\ draining' = TRUE /\ UNCHANGED m_cur_yolo
       ELSE /\ pc' = "dqbuf"
            /\ m_cur_yolo' = IF m_cur_yolo >= N THEN 0 ELSE m_cur_yolo
            /\ UNCHANGED draining
    /\ UNCHANGED <<driverVars, poolVars, ret, yoloVars, job, pending_jobs_,
                   finished, overlay, stop, tracked, delivered>>

(* v4l2_dmabuf_dqbuf returns 0 (poll timeout, EINTR, EAGAIN) or -1. *)
DqbufNothing ==
    /\ pc = "dqbuf"
    /\ pc' = "top"
    /\ UNCHANGED <<driverVars, poolVars, ret, yoloVars, draining, m_cur_yolo,
                   job, pending_jobs_, finished, overlay, stop, tracked, delivered>>

(* What the loop does with a dequeued buffer; with limit jobs pending the  *)
(* oldest is collected next.                                               *)
Submit(limit) ==
    /\ pc = "dqbuf"
    /\ filled # <<>>
    /\ LET b == Head(filled)
           f == content[b]
           s == m_cur_yolo
       IN /\ inbuf' = [inbuf EXCEPT ![s] = b]
          /\ job' = [job EXCEPT ![f] = [slot |-> s, cap |-> b]]
          /\ Pool!Accept(f)
          /\ pending_jobs_' = Append(pending_jobs_, f)
    /\ filled' = Tail(filled)
    /\ m_cur_yolo' = m_cur_yolo + 1
    /\ pc' = IF Len(pending_jobs_) + 1 >= limit THEN "pop" ELSE "top"
    /\ UNCHANGED <<queued, content, captured, lost, ret, netin, last, out,
                   draining, finished, overlay, stop, tracked, delivered>>

\* Mutant: > for >=, one job too many is left pending.
DqbufFrameLatePop == Submit(N + 1)

(* v4l2_dmabuf_dqbuf returns a buffer: SetBuffers on the slot, enqueue,    *)
(* push_back; with N jobs pending the oldest is collected next.            *)
DqbufFrame == Submit(N)

\* Mutant: the drain loop is missing.
PopFrontInLoopOnly ==
    /\ pc = "pop"
    /\ finished' = Head(pending_jobs_)
    /\ pending_jobs_' = Tail(pending_jobs_)
    /\ pc' = "get"
    /\ UNCHANGED <<driverVars, poolVars, ret, yoloVars, draining, m_cur_yolo,
                   job, overlay, stop, tracked, delivered>>

(* Take the oldest pending job: in the loop, and for each job in the drain. *)
PopFront ==
    /\ \/ pc = "pop"
       \/ pc = "drain" /\ pending_jobs_ # <<>>
    /\ finished' = Head(pending_jobs_)
    /\ pending_jobs_' = Tail(pending_jobs_)
    /\ pc' = "get"
    /\ UNCHANGED <<driverVars, poolVars, ret, yoloVars, draining, m_cur_yolo,
                   job, overlay, stop, tracked, delivered>>

(* v4l2_dmabuf_qbuf with its result ignored: a failure loses the buffer. *)
Qbuf(b) ==
    \/ /\ queued' = queued \cup {b}
       /\ content' = [content EXCEPT ![b] = 0]
       /\ UNCHANGED lost
    \/ /\ Cardinality(lost) < MaxQbufErrors
       /\ lost' = lost \cup {b}
       /\ UNCHANGED <<queued, content>>

(* "continue": the PendingJob goes out of scope, back to the head of the   *)
(* loop the job was collected in.                                          *)
Resume ==
    /\ job' = [job EXCEPT ![finished] = NoJob]
    /\ finished' = 0
    /\ overlay' = 0
    /\ pc' = IF draining THEN "drain" ELSE "top"

\* Mutant: the job is collected without future.get().
GetResultNoWait ==
    /\ pc = "get"
    /\ overlay' = last[job[finished].slot]
    /\ pc' = "track"
    /\ UNCHANGED <<driverVars, poolVars, ret, yoloVars, draining, m_cur_yolo,
                   job, pending_jobs_, finished, stop, tracked, delivered>>

\* Mutant: the error path forgets the capture buffer.
GetResultLeak ==
    /\ pc = "get"
    /\ future[finished] = "ready"
    /\ \/ /\ ret[finished] = "fail"
          /\ Resume
       \/ /\ ret[finished] = "ok"
          /\ overlay' = last[job[finished].slot]
          /\ pc' = "track"
          /\ UNCHANGED <<job, finished>>
    /\ UNCHANGED <<driverVars, poolVars, ret, yoloVars, draining, m_cur_yolo,
                   pending_jobs_, stop, tracked, delivered>>

\* Mutant: the buffer is given back as soon as the inference is done.
GetResultEarlyQbuf ==
    /\ pc = "get"
    /\ future[finished] = "ready"
    /\ Qbuf(job[finished].cap)
    /\ \/ /\ ret[finished] = "fail"
          /\ Resume
       \/ /\ ret[finished] = "ok"
          /\ overlay' = last[job[finished].slot]
          /\ pc' = "track"
          /\ UNCHANGED <<job, finished>>
    /\ UNCHANGED <<filled, captured, poolVars, ret, yoloVars, draining,
                   m_cur_yolo, pending_jobs_, stop, tracked, delivered>>

(* infer_ret = finished.future.get(); a failed inference returns the       *)
(* buffer and drops the frame, otherwise GetLastDetectResult().            *)
GetResult ==
    /\ pc = "get"
    /\ future[finished] = "ready"
    /\ \/ /\ ret[finished] = "fail"
          /\ Qbuf(job[finished].cap)
          /\ Resume
       \/ /\ ret[finished] = "ok"
          /\ overlay' = last[job[finished].slot]
          /\ pc' = "track"
          /\ UNCHANGED <<queued, content, lost, job, finished>>
    /\ UNCHANGED <<filled, captured, poolVars, ret, yoloVars, draining,
                   m_cur_yolo, pending_jobs_, stop, tracked, delivered>>

(* The tracker's Update; DeepSort crops its patches from the capture       *)
(* buffer of the job.                                                      *)
Track ==
    /\ pc = "track"
    /\ tracked' = overlay
    /\ pc' = "render"
    /\ UNCHANGED <<driverVars, poolVars, ret, yoloVars, draining, m_cur_yolo, job,
                   pending_jobs_, finished, overlay, stop, delivered>>

(* RenderOverlay draws boxes and labels into the output buffer of slot s. *)
RenderOverlay(s) == [out EXCEPT ![s].boxes = overlay]

(* The overlay may fail before or after the boxes are drawn; in every case *)
(* the capture buffer goes back to the driver, before the encoder.         *)
Render ==
    /\ pc = "render"
    /\ Qbuf(job[finished].cap)
    /\ LET drawn == RenderOverlay(job[finished].slot)
       IN \/ /\ Resume
             /\ out' \in {out, drawn}
          \/ /\ out' = drawn
             /\ pc' = "encode"
             /\ UNCHANGED <<job, finished, overlay>>
    /\ UNCHANGED <<filled, captured, poolVars, ret, inbuf, netin, last, draining,
                   m_cur_yolo, pending_jobs_, stop, tracked, delivered>>

(* The length of header and packet together (0: nothing, 1: some bytes),   *)
(* or -1 when the header cannot be read.                                   *)
copy_packet_to_buffer == {-1, 0, 1}

(* -1 when a buffer, a frame or the encoder fails, else the copied length. *)
encode_dmabuf == {-1} \cup copy_packet_to_buffer

(* The encoder and the callback.  The drain loop skips frameSize <= 0; the *)
(* main loop tests only frameSize # 0, and for -1 builds a vector whose    *)
(* end precedes its begin: std::length_error leaves run() and ends the     *)
(* process.                                                                *)
Encode ==
    /\ pc = "encode"
    /\ \E frameSize \in encode_dmabuf :
        \/ /\ frameSize > 0
           /\ delivered' = out[job[finished].slot]
           /\ Resume
        \/ /\ frameSize = 0 \/ (frameSize < 0 /\ draining)
           /\ Resume
           /\ UNCHANGED delivered
        \/ /\ frameSize < 0 /\ ~draining
           /\ pc' = "terminated"
           /\ UNCHANGED <<delivered, job, finished, overlay>>
    /\ UNCHANGED <<driverVars, poolVars, ret, yoloVars, draining, m_cur_yolo,
                   pending_jobs_, stop, tracked>>

\* Mutant: the device is closed with jobs pending.
CloseUndrained ==
    /\ pc = "drain"
    /\ pc' = "stopped"
    /\ queued' = {} /\ filled' = <<>> /\ lost' = {}
    /\ UNCHANGED <<content, captured, poolVars, ret, yoloVars, draining, m_cur_yolo,
                   job, pending_jobs_, finished, overlay, stop, tracked, delivered>>

(* Nothing pending: v4l2_dmabuf_close frees the buffers, run() returns. *)
Close ==
    /\ pc = "drain"
    /\ pending_jobs_ = <<>>
    /\ pc' = "stopped"
    /\ queued' = {} /\ filled' = <<>> /\ lost' = {}
    /\ UNCHANGED <<content, captured, poolVars, ret, yoloVars, draining, m_cur_yolo,
                   job, pending_jobs_, finished, overlay, stop, tracked, delivered>>

(* run() has returned, or the process has ended. *)
Finished ==
    /\ pc \in {"stopped", "terminated"}
    /\ UNCHANGED vars

LoopStep ==
    \/ LoopTop \/ DqbufNothing \/ DqbufFrame \/ PopFront
    \/ GetResult \/ Track \/ Render \/ Encode \/ Close

WorkerStep == StartInference \/ \E f \in Frames : FinishInference(f)

Next ==
    \/ \E b \in Bufs : DriverFill(b)
    \/ RequestStop \/ WorkerStep \/ LoopStep \/ Finished

Spec == Init /\ [][Next]_vars

(* The camera keeps filling the buffers it has, the pool's workers and the *)
(* loop keep running, and a ready frame is returned by some later          *)
(* VIDIOC_DQBUF: poll reports it at once, so a timeout, a signal or an     *)
(* error cannot hide it forever.  Nobody has to call stop().               *)
Fairness ==
    /\ WF_vars(\E b \in Bufs : DriverFill(b))
    /\ WF_vars(StartInference)
    /\ \A f \in Frames : WF_vars(FinishInference(f))
    /\ WF_vars(LoopStep)
    /\ SF_vars(DqbufFrame)

FairSpec == Spec /\ Fairness

-----------------------------------------------------------------------------
(* Properties *)

Picture == [pix : Frames \cup {0}, boxes : Frames \cup {0}]

(* Where the loop is and what the buffers, slots and jobs hold             *)
(* (transcoder.h 78-112).                                                  *)
TypeOK ==
    /\ queued \in SUBSET Bufs /\ filled \in Seq(Bufs) /\ lost \in SUBSET Bufs
    /\ content \in [Bufs -> Frames \cup {0}] /\ captured \in Frames \cup {0}
    /\ waiting \in Seq(Frames) /\ life = "open"
    /\ future \in [Frames -> {"none", "queued", "running", "ready"}]
    /\ ret \in [Frames -> {"ok", "fail"}]
    /\ inbuf \in [Slots -> Bufs \cup {-1}]
    /\ netin \in [Slots -> Frames \cup {0}]
    /\ last \in [Slots -> Frames \cup {0}]
    /\ out \in [Slots -> Picture]
    /\ pc \in {"top", "dqbuf", "pop", "get", "track", "render", "encode",
               "drain", "stopped", "terminated"}
    /\ draining \in BOOLEAN /\ stop \in BOOLEAN
    /\ m_cur_yolo \in 0 .. N
    /\ job \in [Frames -> [slot : Slots, cap : Bufs] \cup {NoJob}]
    /\ pending_jobs_ \in Seq(Frames) /\ finished \in Frames \cup {0}
    /\ overlay \in Frames \cup {0}
    /\ tracked \in Frames \cup {0} /\ delivered \in Picture

Elems(seq) == {seq[i] : i \in DOMAIN seq}

(* Jobs submitted and not yet collected to the end. *)
Live == Elems(pending_jobs_) \cup ({finished} \ {0})

(* Jobs whose capture buffer has not been given back. *)
Holding == IF pc \in {"encode", "terminated"} THEN Live \ {finished} ELSE Live

Held == {job[f].cap : f \in Holding}

(* transcoder.cc 622-655: m_cur_yolo wraps, and a slot is reused only when *)
(* its job has been collected, so SetBuffers, a worker and the encoder     *)
(* never meet on one RkYolo object or one output buffer.                   *)
SlotExclusive ==
    /\ \A f, g \in Live : job[f].slot = job[g].slot => f = g
    /\ pc = "dqbuf" => \A f \in Live : job[f].slot # m_cur_yolo
    /\ \A f \in Frames : future[f] \in {"queued", "running"} => f \in Live

(* transcoder.cc 629-693: a capture buffer is with the driver, or with one *)
(* job, or lost to a failed QBUF, never with two of them: the driver does  *)
(* not overwrite a picture a worker or the tracker still reads.            *)
BufferOwnership ==
    /\ Held \cap (queued \cup Elems(filled) \cup lost) = {}
    /\ queued \cap Elems(filled) = {}
    /\ lost \cap (queued \cup Elems(filled)) = {}
    /\ \A f, g \in Holding : job[f].cap = job[g].cap => f = g

(* transcoder.cc 657-706 and README.md 278-291: the encoder reads only     *)
(* finished output buffers.  A picture is encoded with the boxes of its    *)
(* own frame, and after every picture delivered before it.                 *)
FaithfulStream ==
    /\ delivered.pix = delivered.boxes
    /\ pc = "encode" =>
          /\ out[job[finished].slot] = [pix |-> finished, boxes |-> finished]
          /\ delivered.pix < finished

(* transcoder.cc 669-680: the tracker is updated at most once per frame,   *)
(* in capture order, and the picture it crops from is the one the          *)
(* detections came from.                                                   *)
TrackerInOrder ==
    pc = "track" =>
        /\ overlay = finished
        /\ content[job[finished].cap] = finished
        /\ tracked < finished

(* transcoder.cc 618-629, 657-663: with as many buffers as slots, whenever *)
(* the loop waits for a frame the driver still has a buffer to fill or a   *)
(* filled one, even after MaxQbufErrors buffers were lost.                 *)
CameraNotStarved ==
    pc \in {"top", "dqbuf"} => queued # {} \/ filled # <<>>

(* transcoder.cc 714-761: run() returns with no job in the pool, so the    *)
(* buffers it frees are not read by a worker any more.                     *)
DrainedAtClose ==
    pc = "stopped" =>
        /\ pending_jobs_ = <<>>
        /\ \A f \in Frames : future[f] \notin {"queued", "running"}

(***************************************************************************)
(* The inductive invariant behind the safety properties.  Frames are       *)
(* numbered, so the jobs in flight are an interval Oldest .. Submitted of  *)
(* frame numbers, and everything the loop relies on (which slot is free,   *)
(* whose picture a buffer holds) can be said about those two numbers.      *)
(***************************************************************************)
Submitted == captured - Len(filled)

Oldest == Submitted - Len(pending_jobs_) + (IF finished = 0 THEN 1 ELSE 0)

(* The oldest job that still holds its capture buffer. *)
OldestHolding == Oldest + (IF pc \in {"encode", "terminated"} THEN 1 ELSE 0)

ControlInv ==
    /\ finished # 0 <=> pc \in {"get", "track", "render", "encode", "terminated"}
    /\ pc = "pop" => Len(pending_jobs_) = N
    /\ pc # "pop" => Len(pending_jobs_) < N
    /\ pc = "stopped" => Len(pending_jobs_) = 0
    /\ pc = "dqbuf" => m_cur_yolo < N

(* Filled buffers hold the frames after the submitted ones, pending jobs   *)
(* are the last submitted frames, the one being collected precedes them.   *)
FrameOrder ==
    /\ Oldest >= 1
    /\ \A i \in 1 .. Len(filled) : content[filled[i]] = Submitted + i
    /\ \A i \in 1 .. Len(pending_jobs_) :
          pending_jobs_[i] = Submitted - Len(pending_jobs_) + i
    /\ finished # 0 => finished = Submitted - Len(pending_jobs_)

(* The slot of a job in flight, counted back from m_cur_yolo, and what the *)
(* worker has put into that slot so far.                                   *)
JobInv ==
    \A f \in Oldest .. Submitted :
        LET s == job[f].slot IN
        /\ job[f] # NoJob
        /\ \/ s = m_cur_yolo - 1 - (Submitted - f)
           \/ s = m_cur_yolo - 1 - (Submitted - f) + N
        /\ inbuf[s] = job[f].cap
        /\ future[f] = "running" => netin[s] = f
        /\ future[f] = "ready" /\ ret[f] = "ok" => last[s] = f /\ out[s].pix = f

FutureInv ==
    /\ \A f \in Frames : f > Submitted => future[f] = "none"
    /\ \A f \in Frames : f < Oldest => future[f] \notin {"queued", "running"}
    /\ \A i \in 1 .. Len(waiting) : future[waiting[i]] = "queued"
    /\ \A i, j \in 1 .. Len(waiting) : waiting[i] = waiting[j] => i = j

(* A buffer's content tells who owns it. *)
BufferInv ==
    /\ \A b \in queued : content[b] = 0
    /\ \A b \in lost : content[b] # 0 /\ content[b] < OldestHolding
    /\ \A f \in OldestHolding .. Submitted : content[job[f].cap] = f

CollectInv ==
    /\ pc \in {"track", "render", "encode", "terminated"} =>
          future[finished] = "ready" /\ ret[finished] = "ok" /\ overlay = finished
    /\ pc \in {"encode", "terminated"} => out[job[finished].slot].boxes = finished
    /\ delivered.pix = delivered.boxes /\ delivered.pix < Oldest
    /\ tracked <= Oldest
    /\ pc \notin {"render", "encode", "terminated"} => tracked < Oldest

PipelineInv ==
    /\ TypeOK /\ ControlInv /\ FrameOrder /\ JobInv
    /\ FutureInv /\ BufferInv /\ CollectInv

(* transcoder.cc 654-660: a submitted frame is collected once N-1 more     *)
(* frames can follow it, or stop() was called.                             *)
FramesCollected ==
    \A f \in Frames :
        (f \in Live /\ (stop \/ f + N - 1 <= MaxFrames))
            ~> (f \notin Live \/ pc = "terminated")

(* transcoder.cc 619, 714-761: after stop() run() drains and returns. *)
StopReturns == stop ~> pc \in {"stopped", "terminated"}
=============================================================================
