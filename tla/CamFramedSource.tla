-------------------------- MODULE CamFramedSource --------------------------
(***************************************************************************)
(* CamFramedSource (src/src/CamFramedSource.cc): the queue between the     *)
(* transcoder thread, which calls onEncodedData, and the live555 event     *)
(* loop, which calls doGetNextFrame, deliverFrame0 (through an event       *)
(* trigger) and doStopGettingFrames.                                       *)
(*                                                                         *)
(* The transcoder thread holds encodedDataMutex only for the push; its     *)
(* reads of isCurrentlyAwaitingData() and waitForIdr_, the push and        *)
(* triggerEvent are separate steps.  The event loop is one thread.  Around *)
(* it, as far as the calls in src/ need them: FramedSource's awaiting      *)
(* flag, the trigger, and the StreamReplicator that serves all clients     *)
(* from one CamFramedSource.  Frames are numbered as they are encoded;     *)
(* frame f is decodable after f - 1, or by itself if it is an IDR.         *)
(***************************************************************************)
EXTENDS Naturals, Sequences, FiniteSets

CONSTANTS
    Clients,            \* RTSP clients
    MaxFrames,          \* bound: frames the encoder produces
    Idr                 \* the frames with an IDR slice

ASSUME SourceAssumption ==
    /\ MaxFrames \in Nat
    /\ Idr \subseteq 1 .. MaxFrames
    /\ MaxFrames > 0 => 1 \in Idr       \* an encoder starts with an IDR

VARIABLES
    awaiting,           \* FramedSource::fIsCurrentlyAwaitingData
    waitForIdr_,
    encodedDataBuffer,
    trigger,            \* the event trigger is pending
    tpc,                \* transcoder thread: where it is in onEncodedData
    data,               \* newest frame handed to onEncodedData
    epc,                \* event loop: where it is in a handler
    clients,            \* clients with a replica (keys of clientIpMap_)
    first,              \* first frame a client was given (0: none yet)
    clean,              \* clients that joined a stopped and empty source
    delivered           \* newest frame passed to afterGetting (0: none yet)

transcoderVars == <<tpc, data>>
replicatorVars == <<clients, first, clean>>
vars == <<awaiting, waitForIdr_, encodedDataBuffer, trigger, transcoderVars,
          epc, replicatorVars, delivered>>

Init ==
    /\ awaiting = FALSE /\ waitForIdr_ = TRUE
    /\ encodedDataBuffer = <<>> /\ trigger = FALSE
    /\ tpc = "idle" /\ data = 0
    /\ epc = "idle"
    /\ clients = {} /\ first = [c \in Clients |-> 0] /\ clean = {}
    /\ delivered = 0

-----------------------------------------------------------------------------
(* onEncodedData, in the transcoder thread *)

(* if (!isCurrentlyAwaitingData()) *)
OnEncodedData ==
    /\ tpc = "idle" /\ data < MaxFrames
    /\ data' = data + 1
    /\ tpc' = IF awaiting THEN "gate" ELSE "drop"
    /\ UNCHANGED <<awaiting, waitForIdr_, encodedDataBuffer, trigger, epc,
                   replicatorVars, delivered>>

\* Mutant: a frame nobody waits for is dropped, and the gate stays open.
DropSilently ==
    /\ tpc = "drop"
    /\ tpc' = "idle"
    /\ UNCHANGED <<awaiting, waitForIdr_, encodedDataBuffer, trigger, data, epc,
                   replicatorVars, delivered>>

(* waitForIdr_ = true; return; *)
Drop ==
    /\ tpc = "drop"
    /\ waitForIdr_' = TRUE
    /\ tpc' = "idle"
    /\ UNCHANGED <<awaiting, encodedDataBuffer, trigger, data, epc,
                   replicatorVars, delivered>>

(* hasNaluType(data, 5): some NAL unit of the access unit is an IDR slice. *)
hasNaluType5(f) == f \in Idr

(* if (waitForIdr_) { if (!hasNaluType(data, 5)) return; ... } *)
Gate ==
    /\ tpc = "gate"
    /\ tpc' = IF ~waitForIdr_ THEN "push"
              ELSE IF hasNaluType5(data) THEN "open" ELSE "idle"
    /\ UNCHANGED <<awaiting, waitForIdr_, encodedDataBuffer, trigger, data, epc,
                   replicatorVars, delivered>>

(* waitForIdr_ = false; *)
OpenGate ==
    /\ tpc = "open"
    /\ waitForIdr_' = FALSE
    /\ tpc' = "push"
    /\ UNCHANGED <<awaiting, encodedDataBuffer, trigger, data, epc,
                   replicatorVars, delivered>>

(* encodedDataBuffer.emplace_back under the mutex *)
Push ==
    /\ tpc = "push"
    /\ encodedDataBuffer' = Append(encodedDataBuffer, data)
    /\ tpc' = "trigger"
    /\ UNCHANGED <<awaiting, waitForIdr_, trigger, data, epc, replicatorVars, delivered>>

(* triggerEvent(eventTriggerId, this) *)
TriggerEvent ==
    /\ tpc = "trigger"
    /\ trigger' = TRUE
    /\ tpc' = "idle"
    /\ UNCHANGED <<awaiting, waitForIdr_, encodedDataBuffer, data, epc,
                   replicatorVars, delivered>>

TranscoderStep == Drop \/ Gate \/ OpenGate \/ Push \/ TriggerEvent

-----------------------------------------------------------------------------
(* The event loop *)

(* The task scheduler clears a pending trigger and calls deliverFrame0.    *)
(* One pass of it handles one of the triggers of all streams, then its     *)
(* timers: a request of the replicator may come before the trigger.        *)
FireTrigger ==
    /\ epc = "idle" /\ trigger
    /\ trigger' = FALSE
    /\ epc' = "fired"
    /\ UNCHANGED <<awaiting, waitForIdr_, encodedDataBuffer, transcoderVars,
                   replicatorVars, delivered>>

(* deliverData: if (!isCurrentlyAwaitingData()) return; *)
DeliverFrame0 ==
    /\ epc = "fired"
    /\ epc' = IF awaiting THEN "deliver" ELSE "idle"
    /\ UNCHANGED <<awaiting, waitForIdr_, encodedDataBuffer, trigger,
                   transcoderVars, replicatorVars, delivered>>

(* StreamReplicator, once every replica is ready for a frame, calls        *)
(* getNextFrame on its source, which sets the awaiting flag ...            *)
GetNextFrame ==
    /\ epc = "idle" /\ clients # {} /\ ~awaiting
    /\ awaiting' = TRUE
    /\ epc' = "get"
    /\ UNCHANGED <<waitForIdr_, encodedDataBuffer, trigger, transcoderVars,
                   replicatorVars, delivered>>

\* Mutant: frames are delivered by the trigger only.
DoGetNextFrameLazy ==
    /\ epc = "get"
    /\ epc' = "idle"
    /\ UNCHANGED <<awaiting, waitForIdr_, encodedDataBuffer, trigger,
                   transcoderVars, replicatorVars, delivered>>

(* ... and calls doGetNextFrame: deliver now if something is buffered. *)
DoGetNextFrame ==
    /\ epc = "get"
    /\ epc' = IF encodedDataBuffer # <<>> THEN "deliver" ELSE "idle"
    /\ UNCHANGED <<awaiting, waitForIdr_, encodedDataBuffer, trigger,
                   transcoderVars, replicatorVars, delivered>>

(* afterGetting: the flag is cleared and every replica gets the frame. *)
AfterGetting(f) ==
    /\ awaiting' = FALSE
    /\ delivered' = f
    /\ first' = [c \in Clients |->
                    IF c \in clients /\ first[c] = 0 THEN f ELSE first[c]]
    /\ epc' = "idle"

\* Mutant: back() / pop_back(), the newest frame goes out first.
DeliverNewest ==
    /\ epc = "deliver"
    /\ encodedDataBuffer # <<>>
    /\ AfterGetting(encodedDataBuffer[Len(encodedDataBuffer)])
    /\ encodedDataBuffer' = SubSeq(encodedDataBuffer, 1, Len(encodedDataBuffer) - 1)
    /\ UNCHANGED <<waitForIdr_, trigger, transcoderVars, clients, clean>>

(* deliverData past its test: front() and erase under the mutex.  On an    *)
(* empty vector both are undefined behaviour, the state after it is        *)
(* anything: the event loop stops there.                                   *)
DeliverData ==
    /\ epc = "deliver"
    /\ \/ /\ encodedDataBuffer # <<>>
          /\ AfterGetting(Head(encodedDataBuffer))
          /\ encodedDataBuffer' = Tail(encodedDataBuffer)
       \/ /\ encodedDataBuffer = <<>>
          /\ epc' = "corrupt"
          /\ UNCHANGED <<awaiting, delivered, first, encodedDataBuffer>>
    /\ UNCHANGED <<waitForIdr_, trigger, transcoderVars, clients, clean>>

(* A client's SETUP: createNewStreamSource asks the replicator for a       *)
(* replica of the shared source, and getStreamParameters enters the        *)
(* session in clientIpMap_, whose keys are the members of clients.         *)
Join(c) ==
    /\ epc = "idle" /\ c \notin clients
    /\ clients' = clients \cup {c}
    /\ first' = [first EXCEPT ![c] = 0]
    /\ clean' = IF clients = {} /\ encodedDataBuffer = <<>> /\ tpc = "idle"
                THEN clean \cup {c} ELSE clean \ {c}
    /\ UNCHANGED <<awaiting, waitForIdr_, encodedDataBuffer, trigger,
                   transcoderVars, epc, delivered>>

(* TEARDOWN or a broken connection: deleteStream erases the session from   *)
(* clientIpMap_ and the replica is closed.  The replicator stops the       *)
(* source with its last replica: stopGettingFrames clears the awaiting     *)
(* flag ...                                                                *)
Leave(c) ==
    /\ epc = "idle" /\ c \in clients
    /\ clients' = clients \ {c}
    /\ IF clients = {c}
       THEN awaiting' = FALSE /\ epc' = "stop"
       ELSE UNCHANGED <<awaiting, epc>>
    /\ UNCHANGED <<waitForIdr_, encodedDataBuffer, trigger, transcoderVars,
                   first, clean, delivered>>

\* Mutant: stopping does not close the gate.
StopGateOpen ==
    /\ epc = "stop"
    /\ epc' = "idle"
    /\ UNCHANGED <<awaiting, waitForIdr_, encodedDataBuffer, trigger, transcoderVars,
                   replicatorVars, delivered>>

(* ... and calls doStopGettingFrames: waitForIdr_ = true; the frames       *)
(* already buffered stay.                                                  *)
DoStopGettingFrames ==
    /\ epc = "stop"
    /\ waitForIdr_' = TRUE
    /\ epc' = "idle"
    /\ UNCHANGED <<awaiting, encodedDataBuffer, trigger, transcoderVars,
                   replicatorVars, delivered>>

EventLoopStep ==
    \/ FireTrigger \/ DeliverFrame0 \/ GetNextFrame \/ DoGetNextFrame
    \/ DeliverData \/ DoStopGettingFrames

Corrupt == epc = "corrupt" /\ UNCHANGED vars

Next ==
    \/ OnEncodedData \/ TranscoderStep \/ EventLoopStep
    \/ \E c \in Clients : Join(c) \/ Leave(c)
    \/ Corrupt

Spec == Init /\ [][Next]_vars

(* Both threads keep running; clients come and go as they like and the     *)
(* encoder need not produce another frame.                                 *)
Fairness ==
    /\ WF_vars(TranscoderStep)
    /\ WF_vars(EventLoopStep)

FairSpec == Spec /\ Fairness

-----------------------------------------------------------------------------
(* Properties *)

(* Frame g can be decoded by someone who has decoded everything up to f. *)
Follows(f, g) == g > f /\ (g \in Idr \/ g = f + 1)

(* CamFramedSource.cc 65-84, 97-100 and README.md 270-276: what leaves the *)
(* source is decodable.  In the delivered frame followed by the buffered   *)
(* ones each frame is newer than the one before it, and no frame that      *)
(* needs its predecessor comes after a dropped one, however the reads of   *)
(* the two flags interleave with the event loop.                           *)
GapFree ==
    /\ encodedDataBuffer # <<>> => Follows(delivered, encodedDataBuffer[1])
    /\ \A i \in 1 .. Len(encodedDataBuffer) - 1 :
          Follows(encodedDataBuffer[i], encodedDataBuffer[i + 1])

(* README.md 270-272: frames leave in the order in which they were made,   *)
(* none twice.                                                             *)
InOrder == [][delivered' # delivered => Follows(delivered, delivered')]_vars

(* CamFramedSource.cc 83, 124-132: a buffered frame that somebody waits    *)
(* for has a trigger pending or about to be set; neither the empty test of *)
(* doGetNextFrame nor a trigger consumed early can strand it.              *)
DataAnnounced ==
    awaiting /\ encodedDataBuffer # <<>> /\ epc = "idle" => trigger \/ tpc = "trigger"

(* README.md 274-276, where the code keeps it: a client that connects      *)
(* while no other client plays and no frame is buffered or on its way      *)
(* starts with an IDR.                                                     *)
CleanJoinStartsAtIdr == \A c \in clean \cap clients : first[c] \in Idr \cup {0}

(* CamFramedSource.cc 91-122: a waiting replicator is given a buffered     *)
(* frame.                                                                  *)
WaiterIsServed ==
    (awaiting /\ encodedDataBuffer # <<>>) ~> (~awaiting \/ epc = "corrupt")

(* CamFramedSource.cc 120: afterGetting is invoked after successfully      *)
(* getting data, so deliverData has data to get.                           *)
DeliverHasData == epc = "deliver" => encodedDataBuffer # <<>>
=============================================================================
