# Verification of yolov5_rknn

The program reads frames from one or more cameras (V4L2, DMABUF), runs YOLOv5 on
the NPU of an RK3588 in several threads, tracks the detections (ByteTrack or
DeepSort), draws boxes and labels, encodes H.264 and serves every stream over RTSP
(live555). This directory holds TLA+ models of its control logic, the TLC
configurations that check them, and TLAPS proofs.

Own code: `src/src` and `src/inc`, about 7400 lines. `src/thirdparty` (live555,
RGA, MPP, RKNN, OpenCV, libv4l2cc) is not modelled; where a model needs it, it
appears as far as the code in `src/` uses it and is marked external in
`PROJECT.json`.

## Inventory

| Component | State | Operations | Interacts with |
|---|---|---|---|
| `ThreadPool` (`inc/ThreadPool.h`) | task queue, stop flag, worker threads, futures | `enqueue`, worker loop, destructor | called by `TransCoder::run`; runs `RkYolo::Inference` |
| `TransCoder::run` (`transcoder.cc` 611-762) | `pending_jobs_`, `m_cur_yolo`, capture and output buffers | dequeue, submit, collect, track, render, requeue, encode, drain | driver (ioctl), pool, tracker, encoder, callback into `CamFramedSource` |
| `RkYolo` (`RkYolo.cc`) | `m_inbuf`, `m_outbuf`, NPU memory, last result | `Init`, `SetBuffers`, `Inference`, `RenderOverlay`, `Destroy` | worker threads and the loop thread use one object in turn |
| `RkEncoder` (`RkEncoder.cc`) | MPP context, packet, frame | `init`, `encode_dmabuf` | loop thread only |
| `CamFramedSource` (`CamFramedSource.cc`) | `encodedDataBuffer`, `waitForIdr_`, event trigger | `onEncodedData`, `deliverFrame0`, `doGetNextFrame`, `doStopGettingFrames` | transcoder thread pushes, live555 thread delivers |
| ByteTrack (`bytetrack/`) | tracked, lost and removed lists, static id counter | `update` per frame | called by the loop; the counter is shared by all streams |
| DeepSort (`deepsort/`) | tracks, next id, feature gallery, frame count | `DeepSortWrapper::Update` per frame | called by the loop; two threads per ReID call |
| `TransCoder::init`, destructor, `LoadConfigs` | what a stream owns | a row of acquisitions with early returns | `main` |
| `CamRTSPServer`, `main`, `MThread` | transcoder and source lists, `server_`, stop flags | `addTranscoder`, `run`, `stopServer`, destructor | live555 event loop, detached threads |
| `CamUnicastServerMediaSubsession` | address of every client | a replica per client, delete | live555 thread |
| `ini.c`, `INIReader` | map of keys to values | parse a file line by line, look up | `main`, `CamRTSPServer`, `LoadConfigs`, `RkYolo::Init` |
| `postprocess.cc` | label table and its flag (static) | load labels, decode, sort, NMS | worker threads of all streams |
| `FeatureTensor`, `rknn_fp` | output pointer of a network | crop, run, copy the feature | two threads per association |
| `lapjv.cpp`, `munkres.h` | none | minimum-cost assignment | trackers |
| Kalman filters | mean and covariance of a track | predict, update | trackers |

What is hard here:

* *Concurrency.* Per stream: the loop, N workers, the driver writing into queued
  buffers, the live555 thread. Synchronised by one mutex and condition variable in
  the pool, futures, one mutex in `CamFramedSource`, and otherwise by ownership:
  who may touch a slot or a capture buffer is decided by indices and queue order.
* *Partial failure.* Eight early returns in `TransCoder::init`; four places where a
  job can fail, each of which must return the capture buffer once; ioctl results
  that are ignored.
* *Order.* Inferences finish in any order, the stream must not; a stream of
  H.264 frames is decodable only from an IDR and without gaps.
* *Long sequences.* The trackers' lists and galleries after many frames of losing
  and finding objects; the id counter incremented by several threads.
* *Shutdown.* A detached thread that nobody joins.

## Modules

| Module | Models | Built on |
|---|---|---|
| `TaskPool` | what the pool promises: a FIFO of tasks run once each | |
| `ThreadPool` | `inc/ThreadPool.h` with mutex, condition variable, notifications | refines `TaskPool` |
| `Transcoder` | `TransCoder::run`, `RkYolo::Inference`, the driver | `INSTANCE TaskPool` as its pool |
| `CamFramedSource` | `CamFramedSource.cc`, live555's part as context | |
| `ByteTracker` | `BYTETracker::update`, `STrack` | uses the outcome of `Lapjv` |
| `DeepSort` | `DeepSortWrapper::Update`, `tracker`, `Track`, gallery | uses the outcome of `Munkres` and `ReID` |
| `Lapjv` | `BYTETracker::lapjv`, `lapjv.cpp` | |
| `Munkres` | `min_cost_matching`, `hungarianoper.cpp`, `munkres.h`, `matrix.h` | |
| `Assignment` | one association by either tracker | composes `Lapjv` and `Munkres` |
| `Selection` | a loop that appends the elements passing a test to another vector | constant level |
| `PostProcess` | `postprocess.cc` in every worker | `Selection` |
| `ReID` | `featuretensor.cpp`, `rknn_fp::inference`, `DeepSort::sort` around them | `Selection` |
| `Detection` | workers' results handed to the tracker frame by frame | composes `PostProcess` and `ReID` |
| `Ini` | `ini.c`, `INIReader.cc`: what one line does to the map | constant level |
| `Startup` | `main`, the reading of `config.ini`, `TransCoder::init` and destructor, `CamRTSPServer` | extends `Ini`; establishes what `Transcoder` assumes |
| `ThreadPool_proofs`, `Transcoder_proofs`, `CamFramedSource_proofs`, `ByteTracker_proofs`, `DeepSort_proofs`, `Startup_proofs`, `Detection_proofs`, `Assignment_proofs` | theorems about the module of that name | TLAPS |
| `MC*` | constants for TLC | |

Definitions named "Mutant" change one definition the way a plausible slip in the
code would; with the mutant in place of the definition TLC must report the
property it is listed with in `PROJECT.json`. No specification uses them.

### ThreadPool

A critical section under `queue_mutex` is one step; `notify_one` and `notify_all`
are steps of their own because the code calls them after the unlock, and a task
runs unlocked. `condition.wait(lock, pred)` is "test and sleep" (`Sleep`), waking
is by notification or spurious (`SpuriousWakeup`), and a woken worker tests again
(`Exit`, `Take`). `Enqueue` on a stopped pool throws (`"refused"`).
The pool's memory is taken to stay valid until `notify_one` returns.

### Transcoder

A frame is its capture number; a picture, a detection result or a drawn box is the
number of the frame it came from, 0 if it belongs to none. One action per stage of
the loop: `LoopTop` (stop test, wrap of `m_cur_yolo`), `DqbufNothing`/`DqbufFrame`,
`PopFront`, `GetResult`, `Track`, `Render`, `Encode`, `Close`; the drain loop is the
same stages with `draining`. `StartInference` and `FinishInference` read the capture
buffer twice, as `Inference` does (scaling, then colour conversion), so a buffer
handed back too early shows up as a picture of another frame. `DriverFill` may
write any queued buffer at any time. Failures: inference (before or after the
output is written), overlay, `encode_dmabuf` (-1 or 0), `VIDIOC_QBUF` (result
ignored, buffer lost). `encode_dmabuf = -1` in the main loop ends the process
(`"terminated"`): the loop tests `frameSize`, not `frameSize > 0`.

Abstracted: `Track` passes the detections on (with no tracker configured the
update is skipped, which changes nothing else); pixels, NPU and RGA calls are their
success or failure.

### CamFramedSource

The transcoder thread's reads of `isCurrentlyAwaitingData()` and `waitForIdr_`, the
push and `triggerEvent` are separate steps that interleave with the event loop's
handlers. External context: FramedSource's awaiting flag, one pending trigger, and
the StreamReplicator, which asks for the next frame while it has clients and stops
the source when the last one leaves. Frame `f` is decodable after `f - 1` or if it
is an IDR. `front()` of an empty vector leads to `"corrupt"`. A client's `Join` and
`Leave` are the subsession's `createNewStreamSource`, `getStreamParameters` and
`deleteStream`: the keys of `clientIpMap_` are the clients with a replica.

### ByteTracker

One action per call of `update` (`Associate`), before which `next_id` has drawn the
identities of that frame's new tracks. Kalman filter, IOU and assignment are their outcome:
any subset of the candidates of each of the three rounds may be matched, any tracked/lost
pair may overlap. What the lists contain, in place and after the merges by id, follows the
code, including that a track removed in this frame is subtracted from the lost list only in
the next one. `next_id` is the three steps its
unlocked increment consists of (read, write, return), for every new track; the threads of
any number of other streams read and write the same static counter in between. `raced`
remembers that two threads were in it at once, after which the properties promise only what
the code still keeps.
`ByteTrackerWrapper::Reset` is never called. The truncation to
`OBJ_NUMB_MAX_SIZE` outputs is left out.

### DeepSort

One action per call of `Update`, with association (`Sort`) in one frame of
`ReidInterval` if something was detected and prediction only (`SortInterval`)
otherwise. Candidates of the cascade and of the IOU round follow the code; which of
them are matched is any choice with at most one detection each. Features are frame
numbers, so the gallery's shifting can be compared with what was seen when.
`sorted` (newest association) and `steady` (frames in a row in which no possible
match failed) are history variables.

### Lapjv, Munkres, Assignment

The two solvers on matrices of small integers, one action per turn of a loop whose
order matters: in `Lapjv` the column reduction, the transfer, a turn of `_carr_dense`
(with its count `rr_cnt`), the path search in `_find_dense`/`_scan_dense`, the price
update and the augmentation, on the extended matrix that `BYTETracker::lapjv` builds; in
`Munkres` the two minimisations, the stars of step 1 and the cycle of steps 2 to 5. Where
a loop's order cannot be seen from outside, it is one step. The integers stand for
multiples of a smallest difference (1e-5 in `min_cost_matching`), so rounding is not
modelled except for the costs just below zero that it produces, which are inputs. Costs
at, above and below the limit, and NaN, are inputs too; `1 - IOU` is neither negative
nor NaN, so those go to Munkres only. `LapjvInv` is the algorithm's own invariant
(no row is lost between phases; every assigned column is a cheapest one of its row under
the current prices); the two optimality properties compare the result with all
matchings.

### PostProcess, ReID, Detection

A worker's call of `post_process` is split where another thread can see it (test of the
static flag, every label, setting the flag) and where its own loops can go wrong (each
round of the quick sort, each position of `nms`). Loads and stores of the flag and the
label pointers are taken to happen in program order: the code uses plain variables, and
on a machine that reorders stores the flag could be seen before a pointer. Scores and
thresholds are integers in dequantised units; boxes are small integers, so overlap and
scaling are exact. `ReID` identifies a feature by the detection whose crop it came from,
splits the detections in halves as `DeepSort::sort` does and runs both extractors
concurrently; an empty crop is skipped, and a failed `rknn_run` leaves the previous
output or an unset pointer. `Detection` lets two workers post-process two frames while
the stream's thread takes the groups in frame order and drops boxes without area.

### Ini, Startup

`Ini` says what one line (blank, section, pair or junk; at the margin or indented) does
to the parser's section, to the name an indented line continues, and to the map; texts
of a value are kept as a list where the code joins them with newlines. `Startup` reads
the file three times as the program does (main, `CamRTSPServer`, `LoadConfigs`, any of
which may fail to open it) and parses it line by line the third time.

One action per acquisition of `TransCoder::init`, each with its early return and
what that return closes or leaves to the destructor. `LoadConfig` and `Clamp` are
the two places that limit thread and buffer counts, `parse_tracker_type` the choice
of the tracker; the driver may grant fewer buffers than requested. A ReID model that
cannot be loaded ends the process (`rknn_fp` calls `exit`). `stopServer()`
is public but not called by `main`; the model lets it happen at any time, or never.
Reading the uninitialised `server_` is a choice between a null and a wild pointer.

## Runs

| Run | Instance | States | Shows |
|---|---|---|---|
| `thread_pool` | 2 workers, 3 tasks, 2 callers | all interleavings with the destructor | every accepted task runs once; no wake-up is lost though notifications come after the unlock; the destructor returns; the pool implements `TaskPool` |
| `transcoder` | 2 slots, 3 buffers, 4 frames, 1 failing QBUF | 218 000 | slots and buffers have one owner; tracker and encoder see frames in order with their own detections; the camera is never starved; collection and `stop()` terminate |
| `transcoder_stall` | 5 slots, 4 buffers | violation | see findings |
| `cam_source` | 2 clients, 5 frames, IDRs 1 and 4 | 139 000 | no undecodable gap, order, no stranded frame, a client that starts an idle source starts at an IDR |
| `cam_source_empty` | same | violation | see findings |
| `bytetrack` | 6 frames, 3 ids, `max_time_lost` 2, one other stream on the id counter | 559 000 | ids drawn on one frame are distinct and fresh, lists expire; until the counter is raced for, ids are unique, lost tracks kept as long as promised, ids never reused |
| `deepsort` | 7 frames, 2 detections, 4 ids, `max_age` 2, `n_init` 2, budget 3 | 21 000 | gallery and confirmed tracks in step, drawn ids recent, stale tracks leave, ids appear in a steady scene |
| `deepsort_interval` | `reid_interval` 3, `max_age` 30, budget 100 | violation | see findings |
| `startup` | 64 files of 3 streams with thread counts 0, 1, 2, 9, buffers 1 to 3 and every tracker setting; 820 files with up to 3 awkward lines | 67 000 | streams are the ones the file names, failed streams own nothing, running ones are complete, stop precedes destruction, ready streams are served |
| `startup_no_camera` | same | violation | see findings |
| `assignment` | every matrix of shapes 1x2, 2x2, 2x3, 3x2 and 3x3 over 2 to 6 costs | 163 000 | both solvers return, with a matching of least cost |
| `detection` | 2 workers, 2 classes, label files of 1 and 2 lines, any 3 of 8 cells or 4 distant boxes in any order, 1 failing network run | 272 000 | labels are set before use, no two results overlap, results ranked with their own score, features go to their own detection |

Why the bounds suffice. *Pool:* two workers and two callers give every race of
notify against wait; a third task leaves work behind both workers. *Transcoder:* four
frames use both slots twice and wrap the index; three buffers with one lost leave
exactly as many as slots, the limit at which the camera is still fed. The proofs
remove the bounds of both for everything but liveness. *Source:*
two clients are the fewest with "the others are still watching"; the second IDR lets
a client cross the boundary of a group of pictures. (For the safety properties named under Proofs, the bounds of source, trackers and start-up
do not matter.) *Trackers:* the frames exceed
`max_time_lost + 2` (or `max_age` plus `n_init`) so that a track can be made, lost,
expire, and be found in its last frame, and the gallery overflows its budget.
*Startup:* three streams allow success after failure and failure after success; three
lines after a first section are enough for a repeated key, a continued value and a header
inside one. *Assignment:* 2 x 3 and 3 x 2 make padding and two competing rows meet;
3 x 3 with ties makes both solvers repair earlier choices (extended to 6 x 6 for lapjv).
*Detection:* three boxes of which one overlaps two that do not overlap each other, with
classes in any order; four results overflow `OBJ_NUMB_MAX_SIZE` (3) and give both
extractors two crops; a label file one line short.

Deadlock is checked except in the tracker runs, which stop at their frame bound.
The states "stopped", "terminated", "corrupt", "crashed" and "exited" stutter.

### Fairness

* Pool: weak fairness for workers, for `notify_one` after `enqueue` in the same
  thread, and for a destructor that has begun: threads are scheduled and tasks
  return. None for enqueuing, destroying or spurious wake-ups.
* Transcoder: weak fairness for the camera filling buffers it has, for workers and
  the loop; strong fairness for a dequeue that finds a frame, because `poll` reports
  a filled buffer at once and a timeout cannot recur while one is ready. None for
  `stop()`.
* Source: weak fairness for both threads; none for clients or the encoder.
* Startup: weak fairness for the main thread; none for `stopServer()`.
* Assignment: the calling thread runs on until its solver has returned (`Runs`, weak
  fairness of the next-state relation written without ENABLED, which TLC would have to
  search for in every state).
* Detection and the trackers: none, nothing is claimed to happen eventually.

## Findings

1. `transcoder_stall`. A job is collected only when `rknn_thread` jobs are pending
   (transcoder.cc 657) and each holds a capture buffer. Four buffers are the default,
   up to six threads are accepted: with five, the driver has no buffer left when four
   are pending, and the stream never produces a frame. README.md reports measurements with
   five threads.
2. `cam_source_empty`. `doGetNextFrame` delivers a buffered frame whose trigger is
   still pending; the trigger then runs `deliverData` on an empty vector.
3. `deepsort_interval`. With `reid_interval` 2 or more (configs/config.ini ships 3) a
   tentative track is too old for the IOU round when the next association runs, so no
   track is ever confirmed and no id is shown.
4. `startup_no_camera`. When no camera initialises, `~CamRTSPServer` closes a
   `server_` that was never set.

Met while modelling and not stated as a violation:

* README.md 274-276 says a new client waits for an IDR. Only a client that starts an idle
  source does (`CleanJoinStartsAtIdr`); one that joins others gets the next frame.
* With several streams the unlocked id counter can hand out an id twice; no document
  promises otherwise.
* `stop()` cannot join the detached thread, so a TransCoder can be destroyed while
  `run()` still uses it (`StopPrecedesDestruction` says how much the code guarantees).
* `CamRTSPServer.cc` 17 reads `http_ebable` where README.md and config.ini write
  `http_enable`: the tunnel is never enabled.
* An indented `[section]` after a pair is a continuation of that pair's value, and a
  repeated key is appended to the first: a number keeps its first value, a boolean or
  text becomes unrecognisable. This is inih's documented behaviour.
* `nms` visits the sorted positions class by class with the classes in decoding order.
  Results never overlap, but suppression ignores classes, and a box can be dropped
  because of one that is dropped itself later in the same frame.
* Costs that rounding left below zero are not reduced by `minimize_along_direction`; the
  matching is then off by at most that rounding. A NaN cost becomes 0, the best one, and
  passes `max_distance`.
* An empty crop shifts the later features of its half by one detection, and the result of
  `rknn_fp::inference` is not looked at: `OwnFeature` names both as its exceptions.

## Proofs

`ThreadPool_proofs`, for any finite non-empty set of workers, any finite set of
callers and any set of tasks (`PoolAssumption`):

* `PoolInvariant`: `PoolInv` is an invariant. It joins `ExactlyOnce` (where each task
  is), `WorkConserving` and `Shutdown` (which destructor step implies what of the
  workers). `WorkConserving` counts: while someone sleeps, the queue is no longer than
  the workers about to test plus the notifications on their way. Alone it is not
  inductive: that a worker leaves only when the queue is empty comes from `Shutdown`.
* `TaskRunsOnce`, `NoWakeupLost`, `DestructorIsDrained`: its consequences.
* `PoolImplementsTaskPool`: every step is a step of `TaskPool` or a stutter under
  `waiting <- tasks` and `life` read off the destructor; this is what lets
  `Transcoder` use `TaskPool`.

`Transcoder_proofs`, for any number of slots (at least 1), buffers (at least 2),
frames and QBUF failures (`TranscoderAssumption`, which `RunningStreamsAreComplete`
of `Startup` checks against the configuration code):

* `PipelineInvariant`: `PipelineInv` is an invariant. The properties are about sets of
  jobs and buffers and are not inductive; the invariant says instead that the jobs in
  flight are the interval of frame numbers `Oldest .. Submitted`, that the slot of
  frame `f` is `m_cur_yolo - 1 - (Submitted - f)` modulo N, that fewer than N jobs are
  pending when a slot is taken, and that a buffer's content tells who owns it. One lemma
  per action, one step per part.
* `SlotsAreExclusive`, `BuffersHaveOneOwner`, `StreamIsFaithful`,
  `TrackerSeesFramesInOrder`, `CloseIsDrained`: its consequences.
* `CameraIsFed`: `CameraNotStarved`, if `B - MaxQbufErrors >= N`. `SupplyInv` accounts for
  every buffer (queued, filled, held by a job, in the loop's hands, or lost, and the lost
  ones are no more than the failed QBUFs); with fewer than N jobs pending, counting leaves
  one for the camera. Without the hypothesis the property is false: finding 1.

`CamFramedSource_proofs`, for any number of clients and frames and any placement of IDRs
that starts with one (`SourceAssumption`):

* `StreamHasNoGap` and `DeliveryInOrder`. The chain of frames grows by a test of
  `waitForIdr_` and a push that are separate steps; `GateInv` says what the flag knows of the
  newest frame kept in between: an open gate means nothing was dropped since, and a frame
  about to be pushed is an IDR or the successor of the newest one.
* `CleanStartIsIdr`: while nobody watches, the gate is closed unless a frame that had passed
  it is still there (`IdleInv`, `CleanInv`).
* `NoFrameIsStranded`: `DataAnnounced` is inductive with the position of the thread.

`ByteTracker_proofs`, for any number of frames, identities and other streams and any
`max_time_lost` (`ByteAssumption`): `IdentitiesAreUnique`, `DrawnTracksAreFresh`,
`ExpiredAreDropped`, and the action properties `LostAreKept` and `IdentitiesAreNotReused`.
`ByteInv` is in two halves. `ListInv` speaks of states and frame numbers of the two lists
and holds whatever the counter does. `CounterInv` and `IdentityInv` hold until two threads
are in `next_id` together: no identity in use or just drawn exceeds the counter or a value
somebody has read and not written back, none just drawn is in use, and an identity stands
for one track; a lost track whose id was removed before is overdue.

`DeepSort_proofs`, for any `max_age`, `n_init`, budget, interval and number of frames
(`DeepSortAssumption`; the budget is at least 2 and at least `n_init`, in the code 100 and
3): `GalleriesFollowTracks`, `DrawnAreRecent`, `StaleAreDropped`. `DeepInv` adds what ties
age, hits and the frame of the last match together, for each state of a track.

`Startup_proofs`, for every set of configuration files and up to eight streams
(`StartupAssumption`: `strtol` of any text is an integer), whatever fails:
`StartupInvariant`, `RunningAreComplete`, `FailedOwnNothing`, `StopComesFirst`.
`StartupInv` says for every step of `init()` what the TransCoder under construction owns
(`BuildInv`, by `Stage`), that a stream in the lists is complete until its thread has
returned (`StreamsInv`), and that a thread belongs to one of them (`ThreadInv`). What
`RunningAreComplete` gives (1 to 6 slots, at least 2 buffers) is `TranscoderAssumption`.

`Detection_proofs`, for any number of workers and classes, any label files, any network
outputs of integers, any group size, threshold and scale (`PostProcessAssumption`), and any
number of failing network runs:

* `DetectionKeepsPostInv`: `PostInv` is an invariant, alone (`PostInvAlways`) and under the
  stream that collects the groups. `JobInv` says what a worker's locals are at each point.
  During the sort (`SortInv`): the two arrays hold every candidate once with its score,
  except at the hole, whose candidate is the key in hand; left of the hole nothing is
  smaller than the key, right of `high` nothing is larger; the parts still to be sorted are
  in order and disjoint, and the array descends except within one of them. During
  suppression (`NmsInv`): what the visited positions hold overlaps nothing behind it, and a
  candidate that is gone is overlapped by one at least as good, so the order of the visits
  does not matter. While results are written (`Written`): the group is the survivors before
  those left, best first. `LabelInv`: once the flag is set, every line of the file is in the
  table.
* `LabelsAreReady`, `GroupsAreRanked`, `GroupsAreSuppressed`: its consequences. Suppression
  needs that `Overlap` is symmetric.
* `FeaturesAreOwn`: `OwnFeature`, by `FeatureInv`: up to the first empty crop of its half an
  extractor's written features are those of their detections and its remaining crops those
  of the next ones; the halves share no detection. `KthOfPrefix` (what a filter keeps starts
  with the first positions as long as none is left out) links this to `Selection`.

`Assignment_proofs`, for any shapes with a track and a detection, any integer costs
(`ShapesAssumption`: `linear_assignment` returns early on an empty matrix;
`CostsAssumption`) and any even limit (`CostLimitAssumption`), while ByteTrack's solver runs:

* `LapjvKeepsSlackness`: `LapjvInv`, of which neither part is inductive. `LapjvIInv` has one
  part for each value of `pc`. Between changes of the matching (`Between`), `x` is the
  inverse of `y`, the live entries of `free_rows` list the rows without a column once each
  (`ListedOn`; `_carr_dense` writes at most as far as it has read), and every matched column
  is one of its row's cheapest (`Slack`). After the column reduction the prices are the
  column minima (`TransferInv`), and the transfer keeps `Slack` row by row (`Lowered`).
  `Search` is Dijkstra's invariant for `find_path_dense`: columns in the order of their
  distances, a distance is that of the path through the predecessor (`Edges`), predecessors
  form a tree of scanned columns (`Tree`), no path through what was scanned is shorter
  (`Relaxed`). The early return of `_scan_dense` in the middle of its loop is why `Reached`
  claims the last only for the columns before the last batch, which are the ones whose
  prices `Prices` lowers. Then every edge of the tree is tight (`Turning`), so turning the path
  around keeps `Slack`, one column at a time (`Augmenting`). `ColumnsLeft` counts rows and
  columns: the search cannot run past the end of `cols`. Loops that the model writes as
  recursive functions have a lemma for one turn (`FindTurnStep`, `ScanTurnStep`,
  `LoweredStep`), joined by `RecursionExists` and `IntervalInduction`.
* `LapjvIsOptimal`: `LapjvOptimal`, by duality. At the end `y` is a permutation
  (`DoneMatching`); by `Slack` no permutation has a smaller sum of reduced costs, and a
  permutation collects every price once (`SumPermuted`), so none costs less
  (`PermOptimal`). A matching of tracks and detections extends to a permutation of the
  square matrix (`MatchingExtends`) at the same cost (`PermTotal`: the corner of zeros takes up
  what the halves of the limit leave). No pair above the limit survives because some extra
  row has an extra column to exchange with (`LimitKept`). The sum over a set that `Total`
  uses is reduced to partial sums along the indices (`SumPicked`).

The same module proves, while DeepSORT's solver runs and costs may be NaN:

* `MunkresMatches`: whatever the costs, below zero or not, the result is a largest matching
  and what is kept is within the limit. `MarksInv` has one part for each value of `step`:
  stars never share a line (`StarsOnce`); exactly one line through every star is covered, a
  prime's row is covered and its column is not (`Covered`). The stars stay independent
  when step 4 turns a path around because a star that shares a line with a prime of the path is
  on the path too, and no two primes of the path share a column (`PathEnds`). The search
  for the next cell skips cells already visited; that this leaves out no such star needs the
  order in which rows were primed (`Ordered`), which the path runs down (`Alternates`).
  At the end there are as many stars as lines, so they are a permutation (`StarsPermute`),
  and what it says of tracks and detections is a largest matching (`PairsAreFull`).
* `MunkresIsOptimal`: `MunkresOptimal` for matrices without a cost below zero
  (`NoneBelow`). `MatrixInv` says that the matrix is the square one less a price for every
  row and column (`Priced`), nowhere below zero, and zero under every star and prime. Every
  largest matching extends to a permutation of the square matrix (`FullExtends`) with the
  same number of padding cells (`SquareTotal`), and all permutations collect the same prices
  (`PricesCollected`), so none is cheaper than the stars (`CheapestStars`).

`MunkresOptimal` also bounds what costs just below zero spoil, by the number of such
costs. That part is not proved: `minimize_along_direction` leaves a line with a negative minimum
as it is, so step 5 may lower the matrix by a negative value and there is no lower
bound on its cells to argue from. Run `assignment` checks it on its matrices.

What the theorems about the solvers do not say is that they return: that is `SolverReturns`.

Only model-checked: every liveness property (fairness is out of the prover's reach);
`ParsedAsWritten` (what a recursive reading of a file computes is induction over the file);
`IdsShownWhenSteady`, which bounds a count of frames over a whole history of matches and is
false for some intervals (finding 3); and `MunkresOptimal` where costs are below zero.

## Not modelled

* Kalman filters, IOU and cosine costs, networks: floating point.
* Drawing of boxes and text: pixels of RGA and OpenCV; its success, failure and target
  buffer are in `Transcoder!Render`.
* The inside of `RkEncoder::encode_dmabuf`: which MPP frame, buffer and packet is released
  on which error path. Its results are in `Transcoder!Encode`. One packet is lost when the
  header request of an IDR frame fails (RkEncoder.cc 138).
* `ini_parse_string` and the string reader (nothing calls them), `deinitPostProcess` and
  `ByteTrackerWrapper::Reset` (never called), the logger, the HTTP tunnel.
* libv4l2cc (vendored; the DMABUF path has replaced it) and the headers of live555, RGA,
  MPP and RKNN.

## Plan

1. Proofs: how far costs below zero can take `Munkres` from the optimum.
2. `RkEncoder`: ownership of MPP objects through the error paths.
3. A composition of `Transcoder` and `CamFramedSource` over shutdown: what a stop
   that waited for `run()` would have to guarantee.
