------------------------------- MODULE Startup -------------------------------
(***************************************************************************)
(* main() and the life of its objects: one TransCoder per configured       *)
(* stream, built by the main thread (TransCoder::init, v4l2_dmabuf_open,   *)
(* RkYolo::Init, RkEncoder::init: a row of acquisitions any of which can   *)
(* fail), CamRTSPServer with one CamFramedSource per stream that became    *)
(* ready, and the detached thread each source starts.  stopServer() ends   *)
(* the event loop, and the destructors run in the order of the source.     *)
(*                                                                         *)
(* config.ini is read three times before the first stream is built: by     *)
(* main, by CamRTSPServer's constructor and by LoadConfigs, and each of    *)
(* them has its own way to go on when the file cannot be opened.           *)
(*                                                                         *)
(* The state of a TransCoder is what its members own.  What run() does is  *)
(* Transcoder.tla; here it is a thread that returns some time after stop().*)
(***************************************************************************)
EXTENDS Integers, FiniteSets, FiniteSetsExt, Sequences, Ini

CONSTANT Files          \* what config.ini may hold

ASSUME StartupAssumption ==
    /\ Files \subseteq Seq(Line)
    /\ \A f \in Files : \A i \in DOMAIN f : \A text \in {f[i].value, f[i].raw} :
         strtol(text) \subseteq Int

Configs == 1 .. 8       \* one per section [video0] .. [video7]

VARIABLES
    file,               \* config.ini, while the streams' settings are read from it
    lineno,             \* lines of it parsed so far
    parser,             \* what ini_parse_stream and _values know of them
    env_,               \* CamRTSPServer has its environment and scheduler
    pc,                 \* where main() is
    step,               \* where TransCoder::init() is
    configs,            \* transcoder_configs of main()
    cur,                \* the configuration being built
    tc,                 \* members of the TransCoder of a stream
    transcoders_,       \* CamRTSPServer::transcoders_
    server_,            \* the pointer: "uninitialized", "open", "closed"
    sources,            \* streams with a CamFramedSource
    thread,             \* of a stream: "none", "running", "returned"
    stopState           \* MThread::stopState

vars == <<file, lineno, parser, env_, pc, step, configs, cur, tc, transcoders_, server_, sources, thread, stopState>>

(* A TransCoder that owns nothing. *)
Empty == [fd |-> FALSE, streaming |-> FALSE, count |-> 0, buffers |-> 0, encodeData |-> FALSE,
          outputs |-> 0, encoder |-> "none", yolos |-> 0, pool |-> FALSE,
          tracker |-> "NONE", ready |-> FALSE]

(* CamRTSPServer's constructor does not set server_. *)
Init ==
    /\ file \in Files /\ lineno = 0 /\ parser = NothingParsed /\ env_ = FALSE
    /\ pc = "main" /\ step = "open" /\ configs = <<>> /\ cur = 1
    /\ tc = [s \in Configs |-> Empty]
    /\ transcoders_ = {} /\ server_ = "uninitialized" /\ sources = {}
    /\ thread = [s \in Configs |-> "none"]
    /\ stopState = [s \in Configs |-> FALSE]

ini == <<file, lineno, parser>>

serverVars == <<ini, env_, transcoders_, server_, sources, thread, stopState>>

-----------------------------------------------------------------------------
(* The configuration *)

(* The settings of one section, those of [rknn], [video] and [tracker]     *)
(* where it is silent: at least two buffers, at most six threads.          *)
LoadConfig(values, section) ==
    LET rknn_thread == GetInteger(values, "rknn", "rknn_thread", 3)
        dma_buffers == GetInteger(values, "video", "dma_buffers", 4)
        enable == GetBoolean(values, "tracker", "enable", TRUE)
        type == Get(values, "tracker", "type", <<"bytetrack">>)
    IN [section_name |-> section,
        dma_buffers |-> Max({2, GetInteger(values, section, "dma_buffers", dma_buffers)}),
        rknn_thread |-> Min({6, GetInteger(values, section, "rknn_thread", rknn_thread)}),
        tracker_enable |-> GetBoolean(values, section, "tracker_enable", enable),
        tracker_type |-> Get(values, section, "tracker_type", type)]

VideoSections == <<"video0", "video1", "video2", "video3", "video4", "video5", "video6", "video7">>

(* [video] is a stream when no [video0] .. [video7] is; it has the number  *)
(* of threads of [rknn] and never one of its own.                          *)
DefaultConfig(values) ==
    [LoadConfig(values, "video") EXCEPT
        !.rknn_thread = Min({6, GetInteger(values, "rknn", "rknn_thread", 3)})]

(* The sections with a device. *)
Streams(values) ==
    {n \in Configs : /\ HasSection(values, VideoSections[n])
                     /\ Get(values, VideoSections[n], "device", <<>>) # <<>>}

(* The loop over the sections has pushed k - 1 configurations when it      *)
(* comes to the k-th of them; a value of the wrong form is the default.    *)
StreamConfigs(values) ==
    LET streams == Streams(values)
        Kth(k) == CHOOSE n \in streams : Cardinality({m \in streams : m < n}) = k - 1
    IN IF streams = {} THEN <<DefaultConfig(values)>>
       ELSE [k \in 1 .. Cardinality(streams) |-> LoadConfig(values, VideoSections[Kth(k)])]

(* The checks at the head of TransCoder::init. *)
Clamp(c) ==
    [c EXCEPT !.dma_buffers = IF @ < 2 THEN 4 ELSE @,
              !.rknn_thread = IF @ > 6 THEN 6 ELSE IF @ < 1 THEN 1 ELSE @]

(* Any other name of a tracker means ByteTrack. *)
parse_tracker_type(c) ==
    IF ~c.tracker_enable THEN "NONE"
    ELSE IF c.tracker_type = <<"deepsort">> THEN "DEEPSORT"
    ELSE IF c.tracker_type \in {<<"none">>, <<"off">>, <<"disable">>} THEN "NONE"
    ELSE "BYTETRACK"

Slots(s) == Clamp(configs[s]).rknn_thread

-----------------------------------------------------------------------------
(* TransCoder::init of stream cur *)

(* One more DMA buffer in the list, or all of them freed. *)
dma_buf_alloc(t, list) == [t EXCEPT ![list] = @ + 1]

dma_buf_free(t, list) == [t EXCEPT ![list] = 0]

\* Mutant: the capture buffers are not freed.
CloseKeepsBuffers(t) == [t EXCEPT !.fd = FALSE, !.streaming = FALSE]

(* v4l2_dmabuf_close: stream off, close, free the buffers; may be repeated. *)
v4l2_dmabuf_close(t) ==
    [dma_buf_free(t, "buffers") EXCEPT !.fd = FALSE, !.streaming = FALSE, !.count = 0]

(* An acquisition: the members become t and init goes on at next. *)
Acquire(at, t, next) ==
    /\ step = at
    /\ tc' = [tc EXCEPT ![cur] = t]
    /\ step' = next
    /\ UNCHANGED <<pc, configs, cur, serverVars>>

(* init() returns early, leaving the members as t. *)
Fail(at, t) ==
    /\ step = at
    /\ tc' = [tc EXCEPT ![cur] = t]
    /\ pc' = "check" /\ step' = "open"
    /\ UNCHANGED <<configs, cur, serverVars>>

Closed == v4l2_dmabuf_close(tc[cur])

(* v4l2_dmabuf_open up to VIDIOC_REQBUFS, where the driver may grant fewer *)
(* buffers than asked for; on an error the local fd is closed and nothing  *)
(* is owned.                                                               *)
OpenDevice ==
    \/ \E granted \in 2 .. Clamp(configs[cur]).dma_buffers :
         Acquire("open", [tc[cur] EXCEPT !.fd = TRUE, !.count = granted], "capture")
    \/ Fail("open", Closed)

(* Allocate and queue every capture buffer, then VIDIOC_STREAMON. *)
AllocCapture ==
    LET t == tc[cur] IN
    \/ t.buffers < t.count /\ Acquire("capture", dma_buf_alloc(t, "buffers"), "capture")
    \/ t.buffers = t.count /\ Acquire("capture", [t EXCEPT !.streaming = TRUE], "size")
    \/ Fail("capture", Closed)

(* The camera's size must be the requested one; then encodeData. *)
CheckSize ==
    \/ Acquire("size", [tc[cur] EXCEPT !.encodeData = TRUE], "outputs")
    \/ Fail("size", Closed)

(* One output DMA buffer per slot; an error returns without closing. *)
AllocOutputs ==
    LET t == tc[cur] IN
    \/ t.outputs < Slots(cur) /\ Acquire("outputs", dma_buf_alloc(t, "outputs"), "outputs")
    \/ t.outputs < Slots(cur) /\ Fail("outputs", t)
    \/ t.outputs = Slots(cur) /\ Acquire("outputs", [t EXCEPT !.encoder = "new"], "encoder")

(* RkEncoder::init, then the thread pool. *)
InitEncoder ==
    \/ Acquire("encoder", [tc[cur] EXCEPT !.encoder = "ready", !.pool = TRUE], "yolo")
    \/ Fail("encoder", Closed)

\* Mutant: a slot whose Init failed is skipped.
InitYoloSkips ==
    LET t == tc[cur] IN
    \/ t.yolos < Slots(cur) /\ Acquire("yolo", [t EXCEPT !.yolos = @ + 1], "yolo")
    \/ Acquire("yolo", t, "tracker")

(* RkYolo::Init for every slot.  The object whose Init fails is deleted    *)
(* (Destroy releases what Init had acquired), those before it stay in the  *)
(* list.                                                                   *)
InitYolo ==
    LET t == tc[cur] IN
    \/ t.yolos < Slots(cur) /\ Acquire("yolo", [t EXCEPT !.yolos = @ + 1], "yolo")
    \/ t.yolos < Slots(cur) /\ Fail("yolo", Closed)
    \/ t.yolos = Slots(cur) /\ Acquire("yolo", t, "tracker")

(* The tracker, and ready_ = true.  A missing ReID model returns without   *)
(* closing the device.                                                     *)
CreateTracker ==
    \/ /\ step = "tracker"
       /\ tc' = [tc EXCEPT ![cur].tracker = parse_tracker_type(configs[cur]),
                        ![cur].ready = TRUE]
       /\ pc' = "check" /\ step' = "open"
       /\ UNCHANGED <<configs, cur, serverVars>>
    \/ parse_tracker_type(configs[cur]) = "DEEPSORT" /\ Fail("tracker", tc[cur])

(* rknn_fp's constructor ends the process when the ReID model cannot be    *)
(* read or loaded, whatever the other streams do.                          *)
ReidModelFails ==
    /\ step = "tracker" /\ parse_tracker_type(configs[cur]) = "DEEPSORT"
    /\ pc' = "exited"
    /\ UNCHANGED <<step, configs, cur, tc, serverVars>>

InitStep ==
    /\ pc = "init"
    /\ \/ OpenDevice \/ AllocCapture \/ CheckSize \/ AllocOutputs
       \/ InitEncoder \/ InitYolo \/ CreateTracker \/ ReidModelFails

-----------------------------------------------------------------------------
(* main and CamRTSPServer *)

(* main reads the log level; without the file, exit(1). *)
Main ==
    /\ pc = "main"
    /\ pc' \in {"construct", "exited"}
    /\ UNCHANGED <<step, configs, cur, tc, serverVars>>

(* CamRTSPServer's constructor: without the file it returns before it has  *)
(* created its environment.                                                *)
ConstructServer ==
    /\ pc = "construct"
    /\ env_' \in BOOLEAN
    /\ pc' = "load"
    /\ UNCHANGED <<ini, step, configs, cur, tc, transcoders_, server_, sources, thread, stopState>>

(* LoadConfigs opens the file; without it there are no streams, return 1. *)
OpenConfigs ==
    /\ pc = "load"
    /\ pc' \in {"parse", "destroy"}
    /\ UNCHANGED <<step, configs, cur, tc, serverVars>>

ParseNextLine ==
    /\ pc = "parse" /\ lineno < Len(file)
    /\ lineno' = lineno + 1
    /\ parser' = ParseLine(parser, file[lineno + 1])
    /\ UNCHANGED <<file, env_, pc, step, configs, cur, tc, transcoders_, server_, sources,
                   thread, stopState>>

(* LoadConfigs after the last line; the file is not needed afterwards. *)
LoadConfigs ==
    /\ pc = "parse" /\ lineno = Len(file)
    /\ configs' = StreamConfigs(parser.values)
    /\ pc' = "init"
    /\ file' = <<>> /\ lineno' = 0 /\ parser' = NothingParsed
    /\ UNCHANGED <<env_, step, cur, tc, transcoders_, server_, sources, thread, stopState>>

(* ~RkEncoder releases what init() got as far as acquiring. *)
DeleteEncoder(t) == [t EXCEPT !.encoder = "none"]

(* RkYolo::Destroy for every object in the list. *)
DestroyYolos(t) == [t EXCEPT !.yolos = 0]

(* ~TransCoder: every member that is set is released. *)
Destruct(t) ==
    LET c == DestroyYolos(DeleteEncoder(dma_buf_free(v4l2_dmabuf_close(t), "outputs")))
    IN [c EXCEPT !.tracker = "NONE", !.pool = FALSE, !.encodeData = FALSE, !.ready = FALSE]

(* if (!transcoder->isReady()) continue: the last reference goes, and with *)
(* it the TransCoder; otherwise addTranscoder.  With none ready, return 1. *)
CheckReady ==
    /\ pc = "check"
    /\ IF tc[cur].ready
       THEN transcoders_' = transcoders_ \cup {cur} /\ UNCHANGED tc
       ELSE tc' = [tc EXCEPT ![cur] = Destruct(@)] /\ UNCHANGED transcoders_
    /\ cur' = cur + 1
    /\ pc' = IF cur < Len(configs) THEN "init"
             ELSE IF transcoders_' = {} THEN "destroy" ELSE "run"
    /\ UNCHANGED <<ini, env_, step, configs, server_, sources, thread, stopState>>

(* CamRTSPServer::run: RTSPServer::createNew, or exit(1) (the destructors  *)
(* of main's objects do not run then); *env_ does not exist without the     *)
(* environment.                                                            *)
CreateServer ==
    /\ pc = "run"
    /\ \/ env_ /\ server_' = "open" /\ pc' = "sessions"
       \/ env_ /\ pc' = "exited" /\ UNCHANGED server_
       \/ ~env_ /\ pc' = "crashed" /\ UNCHANGED server_
    /\ UNCHANGED <<ini, env_, step, configs, cur, tc, transcoders_, sources, thread, stopState>>

(* MThread::start and detach: the thread runs, and nobody can join it. *)
start(s) == thread' = [thread EXCEPT ![s] = "running"]

(* MThread::stop of a detached thread: it is told, not waited for. *)
stop(s) == stopState' = [stopState EXCEPT ![s] = TRUE]

\* Mutant: a media session for the first transcoder only.
AddMediaSessionOnce ==
    /\ pc = "sessions"
    /\ \E s \in transcoders_ :
         /\ \A r \in transcoders_ : s <= r
         /\ sources' = {s}
         /\ start(s)
    /\ pc' = "loop"
    /\ UNCHANGED <<ini, env_, step, configs, cur, tc, transcoders_, server_, stopState>>

(* addMediaSession for the next transcoder: CamFramedSource's constructor  *)
(* starts the thread and detaches it.                                      *)
AddMediaSession ==
    /\ pc = "sessions"
    /\ \/ \E s \in transcoders_ \ sources :
            /\ \A r \in transcoders_ \ sources : s <= r
            /\ sources' = sources \cup {s}
            /\ start(s)
            /\ UNCHANGED pc
       \/ /\ sources = transcoders_
          /\ pc' = "loop"
          /\ UNCHANGED <<sources, thread>>
    /\ UNCHANGED <<ini, env_, step, configs, cur, tc, transcoders_, server_, stopState>>

(* stopServer() sets watcher_, doEventLoop and run() return. *)
StopServer ==
    /\ pc = "loop"
    /\ pc' = "destroy"
    /\ UNCHANGED <<step, configs, cur, tc, serverVars>>

(* ~CamRTSPServer: Medium::close(server_).  A pointer that was never set   *)
(* is null by luck, or the call follows a wild pointer.                    *)
CloseServer ==
    /\ pc = "destroy"
    /\ \/ server_ = "open" /\ server_' = "closed" /\ pc' = "sources"
       \/ server_ = "uninitialized" /\ pc' \in {"sources", "crashed"} /\ UNCHANGED server_
    /\ UNCHANGED <<ini, env_, step, configs, cur, tc, transcoders_, sources, thread, stopState>>

\* Mutant: ~CamFramedSource does not stop its transcoder.
CloseSourceOnly ==
    /\ pc = "sources" /\ sources # {}
    /\ \E s \in sources : sources' = sources \ {s}
    /\ UNCHANGED <<ini, env_, pc, step, configs, cur, tc, transcoders_, server_, thread, stopState>>

(* Medium::close of a source: ~CamFramedSource calls stop(), which sets    *)
(* stopState and cannot join a detached thread.                            *)
CloseSource ==
    /\ pc = "sources" /\ sources # {}
    /\ \E s \in sources :
         /\ \A r \in sources : s <= r
         /\ sources' = sources \ {s}
         /\ stop(s)
    /\ UNCHANGED <<ini, env_, pc, step, configs, cur, tc, transcoders_, server_, thread>>

(* env_->reclaim() needs the environment; transcoders_.clear() destroys    *)
(* every TransCoder, and main returns.                                     *)
Reclaim ==
    /\ pc = "sources" /\ sources = {} /\ ~env_
    /\ pc' = "crashed"
    /\ UNCHANGED <<step, configs, cur, tc, serverVars>>

ClearTranscoders ==
    /\ pc = "sources" /\ sources = {} /\ env_
    /\ tc' = [s \in Configs |-> IF s \in transcoders_ THEN Destruct(tc[s]) ELSE tc[s]]
    /\ transcoders_' = {}
    /\ pc' = "exited"
    /\ UNCHANGED <<ini, env_, step, configs, cur, server_, sources, thread, stopState>>

(* run() sees stopState, drains and closes its device, if its TransCoder   *)
(* is still there.                                                         *)
RunReturns(s) ==
    /\ pc \notin {"exited", "crashed"}
    /\ thread[s] = "running" /\ stopState[s]
    /\ thread' = [thread EXCEPT ![s] = "returned"]
    /\ tc' = [tc EXCEPT ![s] = v4l2_dmabuf_close(@)]
    /\ UNCHANGED <<ini, env_, pc, step, configs, cur, transcoders_, server_, sources, stopState>>

Ended ==
    /\ pc \in {"exited", "crashed"}
    /\ UNCHANGED vars

MainStep ==
    \/ Main \/ ConstructServer \/ OpenConfigs \/ ParseNextLine \/ LoadConfigs
    \/ InitStep \/ CheckReady \/ CreateServer \/ AddMediaSession \/ CloseServer \/ CloseSource \/ Reclaim \/ ClearTranscoders

Next == MainStep \/ StopServer \/ (\E s \in Configs : RunReturns(s)) \/ Ended

Spec == Init /\ [][Next]_vars

(* The main thread keeps going until it waits in the event loop; nobody    *)
(* has to call stopServer().                                               *)
FairSpec == Spec /\ WF_vars(MainStep)

-----------------------------------------------------------------------------
(* Properties *)

(* transcoder.cc 482-609, 613, main.cc: whatever failed while the streams  *)
(* were built, a thread that runs finds what run() indexes without asking: *)
(* a streaming device with at least two queued buffers, an output buffer   *)
(* and an RkYolo for each of 1 to 6 slots, an encoder, the pool, and the   *)
(* tracker of the configuration (as long as its TransCoder exists: see     *)
(* StopPrecedesDestruction).  This is what Transcoder.tla assumes.         *)
RunningStreamsAreComplete ==
    \A s \in transcoders_ :
        thread[s] = "running" =>
            /\ tc[s].fd /\ tc[s].streaming
            /\ tc[s].buffers >= 2 /\ tc[s].buffers = tc[s].count
            /\ tc[s].outputs \in 1 .. 6 /\ tc[s].yolos = tc[s].outputs
            /\ tc[s].encoder = "ready" /\ tc[s].pool
            /\ tc[s].tracker = parse_tracker_type(configs[s])

(* transcoder.cc 345-377, 505-600: at whatever step init() gave up, the    *)
(* failed stream owns nothing when main turns to the next configuration,   *)
(* so its camera and memory are free; and the destructors leave nothing.   *)
FailedStreamsOwnNothing ==
    \A s \in Configs :
        s < cur /\ s \notin transcoders_ => tc[s] = Empty

(* CamRTSPServer.cc 29-47, CamFramedSource.cc 56-58: when the TransCoders  *)
(* are destroyed, each thread that was started has been told to stop.      *)
(* (Told, not waited for: it was detached, and may still be running.)      *)
StopPrecedesDestruction ==
    pc = "exited" /\ server_ = "closed" =>
        \A s \in Configs : thread[s] # "none" => stopState[s]

(* main.cc, CamRTSPServer.cc 74-76: every stream that became ready gets    *)
(* its source and its thread, however many others failed; only a missing   *)
(* environment, a failure to create the RTSP server or a ReID model that   *)
(* cannot be loaded (rknn_fp.cpp 21-46 exits) prevents it.                 *)
ReadyStreamsAreServed ==
    \A s \in Configs :
        pc = "check" /\ cur = s /\ tc[s].ready
            ~> thread[s] # "none" \/ (pc \in {"exited", "crashed"} /\ server_ = "uninitialized")

(* The first number written for a key; a text that is no number hides the  *)
(* later ones.                                                             *)
Number(section, name) ==
    LET w == Written(file, section, name) IN IF w = <<>> THEN {} ELSE strtol(w[1])

(* ini.c 123-227, INIReader.cc 126-137, transcoder.cc 379-480: whatever    *)
(* else the file holds (comments, junk, repeated keys and sections,        *)
(* indented lines), the streams are the sections [video0] .. [video7] that *)
(* name a device, in that order and each once, or [video] alone; a stream  *)
(* has the first thread count written for it, else that of [rknn], else 3, *)
(* and never more than six.                                                *)
ParsedAsWritten ==
    [][pc = "parse" /\ pc' = "init" =>
        LET streams == SelectSeq(VideoSections, LAMBDA s : Written(file, s, "device") # <<>>)
            Threads(s) == IF Number(s, "rknn_thread") # {} THEN Number(s, "rknn_thread")
                          ELSE IF Number("rknn", "rknn_thread") # {} THEN Number("rknn", "rknn_thread")
                          ELSE {3}
        IN IF streams = <<>>
           THEN Len(configs') = 1 /\ configs'[1].section_name = "video"
           ELSE /\ [k \in DOMAIN configs' |-> configs'[k].section_name] = streams
                /\ \A k \in DOMAIN streams : \A n \in Threads(streams[k]) :
                     configs'[k].rknn_thread = IF n > 6 THEN 6 ELSE n]_vars

(* README.md 13: "a camera that fails to initialise no longer causes a     *)
(* segmentation fault".  Leaving main closes only a server that exists.    *)
CameraFailureDoesNotCrash == configs # <<>> /\ env_ => pc # "crashed"
==============================================================================
