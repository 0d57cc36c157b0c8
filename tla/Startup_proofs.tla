---------------------------- MODULE Startup_proofs ----------------------------
(***************************************************************************)
(* Proofs about Startup: for every configuration file, however many of its *)
(* streams fail and at whatever step, a thread that runs finds everything  *)
(* TransCoder::run() uses, a failed stream owns nothing, and every thread  *)
(* has been told to stop when the TransCoders are destroyed.               *)
(*                                                                         *)
(* The argument: init() is a row of acquisitions, and Stage says what the  *)
(* TransCoder under construction owns at each of them.  ready_ is set by   *)
(* the last one only, where Stage amounts to Complete; the early returns   *)
(* leave members of any kind behind, and the destructor clears them all.   *)
(* A thread exists only for a stream in transcoders_, hence never for the  *)
(* one under construction, and what is in transcoders_ stays Complete      *)
(* until its own thread has returned.                                      *)
(***************************************************************************)
EXTENDS Startup, FiniteSetTheorems, SequenceTheorems, TLAPS

(* A text that strtol turns into a number or rejects. *)
Text == {t \in STRING : strtol(t) \subseteq Int}

(* The texts the parser has collected. *)
ValuesOK(values) == \A key \in DOMAIN values : values[key] \in Seq(Text)

(* No section and no name is "" (which the provers do not take for a string). *)
Name == STRING \cup {""}

ParserOK(p) ==
    p \in [section : Name, prev_name : Name, values : [DOMAIN p.values -> Seq(Text)]]

LineOK(line) == line \in Line /\ line.value \in Text /\ line.raw \in Text

(* A configuration of one stream. *)
ConfigOK(c) ==
    /\ c = [section_name |-> c.section_name, dma_buffers |-> c.dma_buffers,
            rknn_thread |-> c.rknn_thread, tracker_enable |-> c.tracker_enable,
            tracker_type |-> c.tracker_type]
    /\ c.dma_buffers \in Int /\ c.rknn_thread \in Int

(* What a TransCoder may own. *)
Members ==
    [fd : BOOLEAN, streaming : BOOLEAN, count : Nat, buffers : Nat, encodeData : BOOLEAN,
     outputs : Nat, encoder : {"none", "new", "ready"}, yolos : Nat, pool : BOOLEAN,
     tracker : {"NONE", "BYTETRACK", "DEEPSORT"}, ready : BOOLEAN]

Steps == {"open", "capture", "size", "outputs", "encoder", "yolo", "tracker"}

Places == {"main", "construct", "load", "parse", "init", "check", "run", "sessions", "loop",
           "destroy", "sources", "exited", "crashed"}

(* What run() uses is there. *)
Complete(s) ==
    /\ tc[s].fd /\ tc[s].streaming
    /\ tc[s].buffers >= 2 /\ tc[s].buffers = tc[s].count
    /\ tc[s].outputs \in 1 .. 6 /\ tc[s].yolos = tc[s].outputs
    /\ tc[s].encoder = "ready" /\ tc[s].pool
    /\ tc[s].tracker = parse_tracker_type(configs[s])

(* What init() has acquired when it is at a step. *)
HasDevice(t) == t.fd /\ t.count >= 2
HasCapture(t) == HasDevice(t) /\ t.streaming /\ t.buffers = t.count
HasOutputs(t) == HasCapture(t) /\ t.outputs = Slots(cur)
HasYolos(t) == HasOutputs(t) /\ t.encoder = "ready" /\ t.pool /\ t.yolos = Slots(cur)

Stage(at, t) ==
    /\ ~t.ready
    /\ at = "open" => t = Empty
    /\ at = "capture" => HasDevice(t) /\ t.buffers <= t.count /\ t.outputs = 0 /\ t.yolos = 0
    /\ at = "size" => HasCapture(t) /\ t.outputs = 0 /\ t.yolos = 0
    /\ at = "outputs" => HasCapture(t) /\ t.outputs <= Slots(cur) /\ t.yolos = 0
    /\ at = "encoder" => HasOutputs(t) /\ t.yolos = 0
    /\ at = "yolo" => HasOutputs(t) /\ t.encoder = "ready" /\ t.pool /\ t.yolos <= Slots(cur)
    /\ at = "tracker" => HasYolos(t)

TypeOK ==
    /\ file \in Seq(Line) /\ (\A i \in 1 .. Len(file) : LineOK(file[i]))
    /\ lineno \in Nat /\ ParserOK(parser) /\ env_ \in BOOLEAN
    /\ pc \in Places /\ step \in Steps
    /\ Len(configs) \in Nat /\ Len(configs) <= 8 /\ (\A k \in 1 .. Len(configs) : ConfigOK(configs[k]))
    /\ cur \in Nat \ {0}
    /\ tc \in [Configs -> Members]
    /\ transcoders_ \subseteq Configs /\ sources \subseteq Configs
    /\ server_ \in {"uninitialized", "open", "closed"}
    /\ thread \in [Configs -> {"none", "running", "returned"}]
    /\ stopState \in [Configs -> BOOLEAN]

(* The stream under construction. *)
BuildInv ==
    /\ pc \in {"main", "construct", "load", "parse"} => step = "open" /\ cur = 1 /\ tc[1] = Empty
    /\ pc \in {"init", "check"} => cur \in 1 .. Len(configs)
    /\ pc = "init" => Stage(step, tc[cur])
    /\ pc = "check" => step = "open" /\ (tc[cur].ready => Complete(cur))

(* The streams before it and after it. *)
StreamsInv ==
    /\ \A s \in Configs : s > cur => tc[s] = Empty
    /\ FailedStreamsOwnNothing
    /\ \A s \in transcoders_ : s < cur
    /\ \A s \in transcoders_ : thread[s] # "returned" => Complete(s)

(* The threads. *)
ThreadInv ==
    /\ \A s \in Configs : thread[s] # "none" => s \in sources \/ stopState[s]
    /\ \A s \in Configs : thread[s] # "none" => s \in transcoders_ \/ pc = "exited"
    /\ \A s \in Configs : stopState[s] => pc \in {"sources", "exited", "crashed"}
    /\ server_ = "closed" => pc \in {"sources", "crashed"} \/ (pc = "exited" /\ sources = {})

StartupInv == TypeOK /\ BuildInv /\ StreamsInv /\ ThreadInv

-----------------------------------------------------------------------------
(* The members of a TransCoder *)

(* dma_buf_alloc adds one buffer to a list. *)
LEMMA AllocMembers ==
    ASSUME NEW t \in Members
    PROVE  /\ dma_buf_alloc(t, "buffers") = [t EXCEPT !.buffers = t.buffers + 1]
           /\ dma_buf_alloc(t, "outputs") = [t EXCEPT !.outputs = t.outputs + 1]
BY DEF Members, dma_buf_alloc

(* v4l2_dmabuf_close clears the members of the device and leaves the rest. *)
LEMMA CloseMembers ==
    ASSUME NEW t \in Members
    PROVE  /\ v4l2_dmabuf_close(t) \in Members
           /\ v4l2_dmabuf_close(t).ready = t.ready
BY DEF Members, v4l2_dmabuf_close, dma_buf_free

(* Two TransCoders with the same members are the same. *)
LEMMA MembersEqual ==
    ASSUME NEW t \in Members, NEW u \in Members,
           t.fd = u.fd, t.streaming = u.streaming, t.count = u.count, t.buffers = u.buffers,
           t.encodeData = u.encodeData, t.outputs = u.outputs, t.encoder = u.encoder,
           t.yolos = u.yolos, t.pool = u.pool, t.tracker = u.tracker, t.ready = u.ready
    PROVE  t = u
BY DEF Members

LEMMA EmptyMembers == Empty \in Members /\ ~Empty.ready
BY DEF Members, Empty

(* ~TransCoder leaves nothing, whatever init() got as far as acquiring. *)
LEMMA DestructClears ==
    ASSUME NEW t \in Members
    PROVE  Destruct(t) = Empty
<1> DEFINE a == v4l2_dmabuf_close(t)
           b == dma_buf_free(a, "outputs")
           c == DestroyYolos(DeleteEncoder(b))
           d == [c EXCEPT !.tracker = "NONE", !.pool = FALSE, !.encodeData = FALSE, !.ready = FALSE]
<1>1. /\ a \in Members
      /\ a.fd = FALSE /\ a.streaming = FALSE /\ a.count = 0 /\ a.buffers = 0
  BY DEF Members, v4l2_dmabuf_close, dma_buf_free
<1> HIDE DEF a
<1>2. /\ b \in Members
      /\ b.fd = FALSE /\ b.streaming = FALSE /\ b.count = 0 /\ b.buffers = 0 /\ b.outputs = 0
  BY <1>1 DEF Members, dma_buf_free
<1> HIDE DEF b
<1>3. /\ c \in Members
      /\ c.fd = FALSE /\ c.streaming = FALSE /\ c.count = 0 /\ c.buffers = 0 /\ c.outputs = 0
      /\ c.encoder = "none" /\ c.yolos = 0
  BY <1>2 DEF Members, DestroyYolos, DeleteEncoder
<1> HIDE DEF c
<1>4. /\ d \in Members
      /\ d.fd = FALSE /\ d.streaming = FALSE /\ d.count = 0 /\ d.buffers = 0 /\ d.outputs = 0
      /\ d.encoder = "none" /\ d.yolos = 0
      /\ d.tracker = "NONE" /\ d.pool = FALSE /\ d.encodeData = FALSE /\ d.ready = FALSE
  BY <1>3 DEF Members
<1>5. d = Empty
  <2> HIDE DEF d
  <2>1. /\ Empty.fd = FALSE /\ Empty.streaming = FALSE /\ Empty.count = 0 /\ Empty.buffers = 0
        /\ Empty.outputs = 0 /\ Empty.encoder = "none" /\ Empty.yolos = 0 /\ Empty.tracker = "NONE"
        /\ Empty.pool = FALSE /\ Empty.encodeData = FALSE /\ Empty.ready = FALSE
    BY DEF Empty
  <2> QED BY <2>1, <1>4, EmptyMembers, MembersEqual
<1> QED BY <1>5 DEF Destruct, a, b, c

(* The clamps at the head of init() leave 1 to 6 slots and 2 buffers or more. *)
LEMMA ClampBounds ==
    ASSUME NEW c, ConfigOK(c)
    PROVE  /\ Clamp(c).rknn_thread \in 1 .. 6
           /\ Clamp(c).dma_buffers \in Int
BY DEF ConfigOK, Clamp

LEMMA TrackerTypes ==
    ASSUME NEW c
    PROVE  parse_tracker_type(c) \in {"NONE", "BYTETRACK", "DEEPSORT"}
BY DEF parse_tracker_type
-----------------------------------------------------------------------------
(* The configuration file *)

LEMMA HandlerKeeps ==
    ASSUME NEW values, NEW section, NEW name, NEW text \in Text, ValuesOK(values)
    PROVE  LET new == ValueHandler(values, section, name, text)
           IN  new \in [DOMAIN new -> Seq(Text)]
<1> DEFINE key == <<section, name>>
           old == IF key \in DOMAIN values THEN values[key] ELSE <<>>
           last == IF old = <<>> /\ text = "" THEN <<>> ELSE Append(old, text)
<1>1. old \in Seq(Text)
  BY DEF ValuesOK
<1> HIDE DEF old
<1>2. Append(old, text) \in Seq(Text)
  BY <1>1, AppendProperties
<1>3. last \in Seq(Text)
  <2>1. <<>> \in Seq(Text)
    OBVIOUS
  <2> QED BY <1>2, <2>1, Zenon
<1> HIDE DEF last
<1>4. \A k \in DOMAIN values \cup {key} : (IF k = key THEN last ELSE values[k]) \in Seq(Text)
  BY <1>3 DEF ValuesOK
<1>5. ValueHandler(values, section, name, text)
        = [k \in DOMAIN values \cup {key} |-> IF k = key THEN last ELSE values[k]]
  BY DEF ValueHandler, old, last
<1> HIDE DEF key
<1> QED BY <1>4, <1>5

(* One line leaves the parser with texts that are a number or rejected. *)
LEMMA ParseLineKeeps ==
    ASSUME NEW p, ParserOK(p), NEW line, LineOK(line)
    PROVE  ParserOK(ParseLine(p, line))
<1>0. /\ p.section \in Name /\ p.prev_name \in Name
      /\ line.text \in Name /\ line.value \in Text /\ line.raw \in Text
  BY DEF ParserOK, LineOK, Line, Name
<1>1. ASSUME NEW name \in Name, NEW text \in Text
      PROVE  LET w == ValueHandler(p.values, p.section, name, text)
             IN  /\ ParserOK([p EXCEPT !.values = w])
                 /\ ParserOK([p EXCEPT !.prev_name = name, !.values = w])
  <2> DEFINE w == ValueHandler(p.values, p.section, name, text)
  <2>1. ValuesOK(p.values)
    BY DEF ParserOK, ValuesOK
  <2>2. w \in [DOMAIN w -> Seq(Text)]
    BY <2>1, HandlerKeeps
  <2> HIDE DEF w
  <2>3. ParserOK([p EXCEPT !.values = w])
    BY <2>2 DEF ParserOK
  <2>4. ParserOK([p EXCEPT !.prev_name = name, !.values = w])
    BY <2>2 DEF ParserOK
  <2> QED BY <2>3, <2>4 DEF w
<1>2. CASE line.kind # "blank" /\ Continues(p, line)
  BY <1>0, <1>1, <1>2 DEF ParseLine
<1>3. ParserOK(SectionLine(p, line))
  <2> DEFINE q == SectionLine(p, line)
  <2>1. q \in [section : Name, prev_name : Name, values : [DOMAIN p.values -> Seq(Text)]]
    <3> DEFINE F == [DOMAIN p.values -> Seq(Text)]
    <3>1. p \in [section : Name, prev_name : Name, values : F]
      BY DEF ParserOK
    <3> HIDE DEF F
    <3>2. \A a, e \in Name : [p EXCEPT !.section = a, !.prev_name = e]
                                  \in [section : Name, prev_name : Name, values : F]
      BY <3>1
    <3>3. "" \in Name
      BY DEF Name
    <3> QED BY <1>0, <3>2, <3>3 DEF SectionLine, F
  <2>2. q.values = p.values
    BY DEF SectionLine, ParserOK
  <2> QED BY <2>1, <2>2 DEF ParserOK
<1>4. ParserOK(PairLine(p, line))
  BY <1>0, <1>1 DEF PairLine
<1> QED BY <1>2, <1>3, <1>4 DEF ParseLine

LEMMA NumbersAreIntegers ==
    ASSUME NEW values, ValuesOK(values), NEW section, NEW name, NEW d \in Int
    PROVE  GetInteger(values, section, name, d) \in Int
<1> DEFINE v == Get(values, section, name, <<>>)
<1>1. v \in Seq(Text)
  BY DEF Get, ValuesOK
<1> HIDE DEF v
<1>2. CASE v # <<>> /\ strtol(v[1]) # {}
  <2>1. v[1] \in Text
    BY <1>1, <1>2
  <2>2. (CHOOSE n \in strtol(v[1]) : TRUE) \in Int
    BY <1>2, <2>1 DEF Text
  <2> QED BY <1>2, <2>2 DEF GetInteger, v
<1>3. CASE ~(v # <<>> /\ strtol(v[1]) # {})
  BY <1>3 DEF GetInteger, v
<1> QED BY <1>2, <1>3

LEMMA ExtremeOfTwo ==
    ASSUME NEW a \in Int, NEW b \in Int
    PROVE  Max({a, b}) \in Int /\ Min({a, b}) \in Int
<1>1. \E x \in {a, b} : \A y \in {a, b} : x >= y
  OBVIOUS
<1>2. \E x \in {a, b} : \A y \in {a, b} : x =< y
  OBVIOUS
<1> QED BY <1>1, <1>2 DEF Max, Min

LEMMA LoadConfigOK ==
    ASSUME NEW values, ValuesOK(values), NEW section
    PROVE  ConfigOK(LoadConfig(values, section))
<1>1. GetInteger(values, "rknn", "rknn_thread", 3) \in Int
  BY NumbersAreIntegers
<1>2. GetInteger(values, "video", "dma_buffers", 4) \in Int
  BY NumbersAreIntegers
<1>3. GetInteger(values, section, "dma_buffers", GetInteger(values, "video", "dma_buffers", 4)) \in Int
  BY <1>2, NumbersAreIntegers
<1>4. GetInteger(values, section, "rknn_thread", GetInteger(values, "rknn", "rknn_thread", 3)) \in Int
  BY <1>1, NumbersAreIntegers
<1>5. Max({2, GetInteger(values, section, "dma_buffers", GetInteger(values, "video", "dma_buffers", 4))}) \in Int
  BY <1>3, ExtremeOfTwo
<1>6. Min({6, GetInteger(values, section, "rknn_thread", GetInteger(values, "rknn", "rknn_thread", 3))}) \in Int
  BY <1>4, ExtremeOfTwo
<1> QED BY <1>5, <1>6 DEF LoadConfig, ConfigOK

LEMMA DefaultConfigOK ==
    ASSUME NEW values, ValuesOK(values)
    PROVE  ConfigOK(DefaultConfig(values))
<1>1. GetInteger(values, "rknn", "rknn_thread", 3) \in Int
  BY NumbersAreIntegers
<1>2. ConfigOK(LoadConfig(values, "video"))
  BY LoadConfigOK
<1> QED BY <1>1, <1>2, ExtremeOfTwo DEF DefaultConfig, ConfigOK

(* LoadConfigs finds one to eight streams. *)
LEMMA StreamConfigsOK ==
    ASSUME NEW values, ValuesOK(values)
    PROVE  LET c == StreamConfigs(values)
           IN  Len(c) \in 1 .. 8 /\ \A k \in 1 .. Len(c) : ConfigOK(c[k])
<1> DEFINE streams == Streams(values)
           Kth(k) == CHOOSE n \in streams : Cardinality({m \in streams : m < n}) = k - 1
           size == Cardinality(streams)
           All == [k \in 1 .. size |-> LoadConfig(values, VideoSections[Kth(k)])]
<1>1. CASE streams = {}
  BY <1>1, DefaultConfigOK DEF StreamConfigs
<1>2. CASE streams # {}
  <2>1. IsFiniteSet(Configs) /\ Cardinality(Configs) = 8
    <3>1. \A n \in Nat : IsFiniteSet(1 .. n) /\ Cardinality(1 .. n) = n
      BY FS_Interval
    <3> QED BY <3>1 DEF Configs
  <2>2. streams \subseteq Configs
    BY DEF Streams
  <2> HIDE DEF streams
  <2>3. IsFiniteSet(streams) /\ size \in Nat /\ size <= 8
    BY <2>1, <2>2, FS_Subset, FS_CardinalityType
  <2>4. size # 0
    BY <2>3, <1>2, FS_EmptySet
  <2> HIDE DEF size, Kth
  <2>5. \A k \in 1 .. size : ConfigOK(All[k])
    BY LoadConfigOK
  <2>6. Len(All) = size
    BY <2>3
  <2>7. StreamConfigs(values) = All
    BY <1>2 DEF StreamConfigs, streams, size, Kth
  <2>8. size \in 1 .. 8
    BY <2>3, <2>4
  <2> HIDE DEF All
  <2>9. Len(All) \in 1 .. 8 /\ \A k \in 1 .. Len(All) : ConfigOK(All[k])
    BY <2>5, <2>6, <2>8
  <2> QED BY <2>7, <2>9
<1> QED BY <1>1, <1>2
-----------------------------------------------------------------------------
(* The invariant *)

LEMMA NothingParsedOK == ParserOK(NothingParsed)
<1> DEFINE none == [key \in {} |-> <<>>]
<1>1. none \in [DOMAIN none -> Seq(Text)]
  OBVIOUS
<1> HIDE DEF none
<1>2. ParserOK([section |-> "", prev_name |-> "", values |-> none])
  BY <1>1 DEF ParserOK, Name
<1> QED BY <1>2 DEF NothingParsed, none

LEMMA InitInv == Init => StartupInv
<1> SUFFICES ASSUME Init PROVE StartupInv
  OBVIOUS
<1>1. ParserOK(NothingParsed)
  BY NothingParsedOK
<1>2. file \in Seq(Line) /\ \A i \in 1 .. Len(file) : LineOK(file[i])
  <2>1. file \in Seq(Line)
    BY StartupAssumption DEF Init
  <2>2. ASSUME NEW i \in 1 .. Len(file) PROVE LineOK(file[i])
    <3>1. file[i] \in Line
      BY <2>1, <2>2
    <3>2. strtol(file[i].value) \subseteq Int /\ strtol(file[i].raw) \subseteq Int
      BY <2>1, <2>2, StartupAssumption DEF Init
    <3>3. file[i].value \in STRING /\ file[i].raw \in STRING
      BY <3>1 DEF Line
    <3> QED BY <3>1, <3>2, <3>3 DEF LineOK, Text
  <2> QED BY <2>1, <2>2
<1>3. TypeOK
  <2>1. Len(configs) = 0
    BY DEF Init
  <2>2. env_ \in BOOLEAN /\ stopState \in [Configs -> BOOLEAN]
    BY Zenon DEF Init
  <2>3. tc \in [Configs -> Members]
    BY EmptyMembers DEF Init
  <2>4. thread \in [Configs -> {"none", "running", "returned"}]
    BY DEF Init
  <2>5. lineno \in Nat /\ cur \in Nat \ {0} /\ pc \in Places /\ step \in Steps
    BY DEF Init, Places, Steps
  <2> QED BY <1>1, <1>2, <2>1, <2>2, <2>3, <2>4, <2>5 DEF Init, TypeOK
<1>4. BuildInv
  BY DEF Init, BuildInv, Configs
<1>5. StreamsInv
  BY DEF Init, StreamsInv, FailedStreamsOwnNothing, Configs
<1>6. ThreadInv
  BY DEF Init, ThreadInv
<1> QED BY <1>3, <1>4, <1>5, <1>6 DEF StartupInv

(* The slots of the stream under construction. *)
LEMMA SlotsBound ==
    ASSUME TypeOK, cur \in 1 .. Len(configs)
    PROVE  Slots(cur) \in 1 .. 6 /\ cur \in Configs /\ Clamp(configs[cur]).dma_buffers \in Int
<1>1. ConfigOK(configs[cur]) /\ cur \in Configs
  BY DEF TypeOK, Configs
<1> QED BY <1>1, ClampBounds DEF Slots

(* An acquisition takes init() from one stage to the next. *)
LEMMA AcquireKeeps ==
    ASSUME StartupInv, pc = "init",
           NEW at, NEW t \in Members, NEW next \in Steps, Stage(next, t), Acquire(at, t, next)
    PROVE  StartupInv'
<1> USE DEF StartupInv
<1>1. cur \in 1 .. Len(configs) /\ cur \in Configs
  BY DEF BuildInv, TypeOK, Configs
<1>2. /\ tc' = [tc EXCEPT ![cur] = t] /\ tc \in [Configs -> Members]
      /\ tc'[cur] = t
      /\ \A s \in Configs : s # cur => tc'[s] = tc[s]
  BY <1>1 DEF Acquire, TypeOK
<1>3. UNCHANGED <<file, lineno, parser, env_, pc, configs, cur, transcoders_, server_, sources, thread, stopState>>
  BY DEF Acquire, serverVars, ini
<1>4. step' = next
  BY DEF Acquire
<1>5. TypeOK'
  BY <1>2, <1>3, <1>4 DEF TypeOK
<1>6. BuildInv'
  <2>1. Stage(next, t)'
    BY <1>3 DEF Stage, HasDevice, HasCapture, HasOutputs, HasYolos, Slots
  <2> QED BY <1>1, <1>2, <1>3, <1>4, <2>1 DEF BuildInv
<1>7. StreamsInv'
  <2>1. \A s \in transcoders_ : s \in Configs /\ s < cur
    BY DEF StreamsInv, TypeOK
  <2>2. \A s \in transcoders_ : Complete(s) => Complete(s)'
    BY <2>1, <1>2, <1>3, <1>1 DEF Complete
  <2>3. \A s \in Configs : s > cur => s # cur
    BY <1>1
  <2>4. \A s \in Configs : s < cur => s # cur
    BY <1>1
  <2> QED BY <1>1, <1>2, <1>3, <2>1, <2>2, <2>3, <2>4 DEF StreamsInv, FailedStreamsOwnNothing
<1>8. ThreadInv'
  BY <1>3 DEF ThreadInv
<1> QED BY <1>5, <1>6, <1>7, <1>8

(* An early return leaves a TransCoder that is not ready. *)
LEMMA FailKeeps ==
    ASSUME StartupInv, pc = "init", NEW at, NEW t \in Members, ~t.ready, Fail(at, t)
    PROVE  StartupInv'
<1> USE DEF StartupInv
<1>1. cur \in 1 .. Len(configs) /\ cur \in Configs
  BY DEF BuildInv, TypeOK, Configs
<1>2. /\ tc' = [tc EXCEPT ![cur] = t] /\ tc \in [Configs -> Members]
      /\ tc'[cur] = t
      /\ \A s \in Configs : s # cur => tc'[s] = tc[s]
  BY <1>1 DEF Fail, TypeOK
<1>3. UNCHANGED <<file, lineno, parser, env_, configs, cur, transcoders_, server_, sources, thread, stopState>>
  BY DEF Fail, serverVars, ini
<1>4. step' = "open" /\ pc' = "check"
  BY DEF Fail
<1>5. TypeOK'
  BY <1>2, <1>3, <1>4 DEF TypeOK, Places, Steps
<1>6. BuildInv'
  BY <1>1, <1>2, <1>3, <1>4 DEF BuildInv
<1>7. StreamsInv'
  <2>1. \A s \in transcoders_ : s \in Configs /\ s < cur
    BY DEF StreamsInv, TypeOK
  <2>2. \A s \in transcoders_ : Complete(s) => Complete(s)'
    BY <2>1, <1>2, <1>3, <1>1 DEF Complete
  <2>3. \A s \in Configs : s > cur => s # cur
    BY <1>1
  <2>4. \A s \in Configs : s < cur => s # cur
    BY <1>1
  <2> QED BY <1>1, <1>2, <1>3, <2>1, <2>2, <2>3, <2>4 DEF StreamsInv, FailedStreamsOwnNothing
<1>8. ThreadInv'
  BY <1>3, <1>4 DEF ThreadInv
<1> QED BY <1>5, <1>6, <1>7, <1>8
-----------------------------------------------------------------------------
(* TransCoder::init, step by step *)

LEMMA OpenDeviceKeeps ==
    ASSUME StartupInv, pc = "init", OpenDevice PROVE StartupInv'
<1>1. /\ TypeOK /\ cur \in 1 .. Len(configs) /\ Stage(step, tc[cur])
      /\ cur \in Configs /\ tc[cur] \in Members /\ Clamp(configs[cur]).dma_buffers \in Int
  BY SlotsBound DEF StartupInv, BuildInv, TypeOK
<1>2. ASSUME NEW granted \in 2 .. Clamp(configs[cur]).dma_buffers,
             Acquire("open", [tc[cur] EXCEPT !.fd = TRUE, !.count = granted], "capture")
      PROVE  StartupInv'
  <2> DEFINE t == [tc[cur] EXCEPT !.fd = TRUE, !.count = granted]
  <2>1. granted \in Nat /\ granted >= 2
    BY <1>1
  <2>2. tc[cur] = Empty
    BY <1>1, <1>2 DEF Acquire, Stage
  <2>3. t \in Members
    BY <1>1, <2>1 DEF Members
  <2>4. /\ t.fd /\ t.count = granted /\ t.buffers = 0 /\ t.outputs = 0 /\ t.yolos = 0 /\ ~t.ready
    BY <2>2 DEF Empty
  <2> HIDE DEF t
  <2>5. Stage("capture", t)
    BY <2>1, <2>4 DEF Stage, HasDevice
  <2> QED BY <1>2, <2>3, <2>5, AcquireKeeps DEF t, Steps
<1>3. ASSUME Fail("open", Closed) PROVE StartupInv'
  BY <1>1, <1>3, CloseMembers, FailKeeps DEF Closed, Stage
<1> QED BY <1>2, <1>3 DEF OpenDevice

LEMMA AllocCaptureKeeps ==
    ASSUME StartupInv, pc = "init", AllocCapture PROVE StartupInv'
<1> DEFINE t == tc[cur]
<1>1. /\ TypeOK /\ cur \in 1 .. Len(configs) /\ Stage(step, t) /\ t \in Members
  BY SlotsBound DEF StartupInv, BuildInv, TypeOK
<1>2. ~t.ready
  BY <1>1 DEF Stage
<1>3. step = "capture" => HasDevice(t) /\ t.buffers <= t.count /\ t.outputs = 0 /\ t.yolos = 0
  BY <1>1 DEF Stage
<1> HIDE DEF t
<1>4. ASSUME t.buffers < t.count, Acquire("capture", dma_buf_alloc(t, "buffers"), "capture")
      PROVE  StartupInv'
  <2> DEFINE u == [t EXCEPT !.buffers = t.buffers + 1]
  <2>1. dma_buf_alloc(t, "buffers") = u
    BY <1>1, AllocMembers
  <2>2. u \in Members
    BY <1>1 DEF Members
  <2>3. Stage("capture", u)
    BY <1>1, <1>2, <1>3, <1>4 DEF Stage, HasDevice, Members, Acquire
  <2> QED BY <1>4, <2>1, <2>2, <2>3, AcquireKeeps DEF Steps
<1>5. ASSUME t.buffers = t.count, Acquire("capture", [t EXCEPT !.streaming = TRUE], "size")
      PROVE  StartupInv'
  <2> DEFINE u == [t EXCEPT !.streaming = TRUE]
  <2>2. u \in Members
    BY <1>1 DEF Members
  <2>3. Stage("size", u)
    BY <1>1, <1>2, <1>3, <1>5 DEF Stage, HasDevice, HasCapture, Members, Acquire
  <2> QED BY <1>5, <2>2, <2>3, AcquireKeeps DEF Steps
<1>6. ASSUME Fail("capture", Closed) PROVE StartupInv'
  BY <1>1, <1>2, <1>6, CloseMembers, FailKeeps DEF Closed, t
<1> QED BY <1>4, <1>5, <1>6 DEF AllocCapture, t

LEMMA CheckSizeKeeps ==
    ASSUME StartupInv, pc = "init", CheckSize PROVE StartupInv'
<1> DEFINE t == tc[cur]
<1>1. /\ TypeOK /\ cur \in 1 .. Len(configs) /\ Stage(step, t) /\ t \in Members /\ Slots(cur) \in 1 .. 6
  BY SlotsBound DEF StartupInv, BuildInv, TypeOK
<1>2. ~t.ready
  BY <1>1 DEF Stage
<1>3. step = "size" => HasCapture(t) /\ t.outputs = 0 /\ t.yolos = 0
  BY <1>1 DEF Stage
<1> HIDE DEF t
<1>4. ASSUME Acquire("size", [t EXCEPT !.encodeData = TRUE], "outputs")
      PROVE  StartupInv'
  <2> DEFINE u == [t EXCEPT !.encodeData = TRUE]
  <2>2. u \in Members
    BY <1>1 DEF Members
  <2>3. Stage("outputs", u)
    BY <1>1, <1>2, <1>3, <1>4 DEF Stage, HasDevice, HasCapture, Members, Acquire
  <2> QED BY <1>4, <2>2, <2>3, AcquireKeeps DEF Steps
<1>5. ASSUME Fail("size", Closed) PROVE StartupInv'
  BY <1>1, <1>2, <1>5, CloseMembers, FailKeeps DEF Closed, t
<1> QED BY <1>4, <1>5 DEF CheckSize, t

LEMMA AllocOutputsKeeps ==
    ASSUME StartupInv, pc = "init", AllocOutputs PROVE StartupInv'
<1> DEFINE t == tc[cur]
<1>1. /\ TypeOK /\ cur \in 1 .. Len(configs) /\ Stage(step, t) /\ t \in Members /\ Slots(cur) \in 1 .. 6
  BY SlotsBound DEF StartupInv, BuildInv, TypeOK
<1>2. ~t.ready
  BY <1>1 DEF Stage
<1>3. step = "outputs" => HasCapture(t) /\ t.outputs <= Slots(cur) /\ t.yolos = 0
  BY <1>1 DEF Stage
<1> HIDE DEF t
<1>4. ASSUME t.outputs < Slots(cur), Acquire("outputs", dma_buf_alloc(t, "outputs"), "outputs")
      PROVE  StartupInv'
  <2> DEFINE u == [t EXCEPT !.outputs = t.outputs + 1]
  <2>1. dma_buf_alloc(t, "outputs") = u
    BY <1>1, AllocMembers
  <2>2. u \in Members
    BY <1>1 DEF Members
  <2>3. Stage("outputs", u)
    BY <1>1, <1>2, <1>3, <1>4 DEF Stage, HasDevice, HasCapture, Members, Acquire
  <2> QED BY <1>4, <2>1, <2>2, <2>3, AcquireKeeps DEF Steps
<1>5. ASSUME Fail("outputs", t) PROVE StartupInv'
  BY <1>1, <1>2, <1>5, FailKeeps
<1>6. ASSUME t.outputs = Slots(cur), Acquire("outputs", [t EXCEPT !.encoder = "new"], "encoder")
      PROVE  StartupInv'
  <2> DEFINE u == [t EXCEPT !.encoder = "new"]
  <2>2. u \in Members
    BY <1>1 DEF Members
  <2>3. Stage("encoder", u)
    BY <1>1, <1>2, <1>3, <1>6 DEF Stage, HasDevice, HasCapture, HasOutputs, Members, Acquire
  <2> QED BY <1>6, <2>2, <2>3, AcquireKeeps DEF Steps
<1> QED BY <1>4, <1>5, <1>6 DEF AllocOutputs, t

LEMMA InitEncoderKeeps ==
    ASSUME StartupInv, pc = "init", InitEncoder PROVE StartupInv'
<1> DEFINE t == tc[cur]
<1>1. /\ TypeOK /\ cur \in 1 .. Len(configs) /\ Stage(step, t) /\ t \in Members /\ Slots(cur) \in 1 .. 6
  BY SlotsBound DEF StartupInv, BuildInv, TypeOK
<1>2. ~t.ready
  BY <1>1 DEF Stage
<1>3. step = "encoder" => HasOutputs(t) /\ t.yolos = 0
  BY <1>1 DEF Stage
<1> HIDE DEF t
<1>4. ASSUME Acquire("encoder", [t EXCEPT !.encoder = "ready", !.pool = TRUE], "yolo")
      PROVE  StartupInv'
  <2> DEFINE u == [t EXCEPT !.encoder = "ready", !.pool = TRUE]
  <2>2. u \in Members
    BY <1>1 DEF Members
  <2>3. Stage("yolo", u)
    BY <1>1, <1>2, <1>3, <1>4 DEF Stage, HasDevice, HasCapture, HasOutputs, Members, Acquire
  <2> QED BY <1>4, <2>2, <2>3, AcquireKeeps DEF Steps
<1>5. ASSUME Fail("encoder", Closed) PROVE StartupInv'
  BY <1>1, <1>2, <1>5, CloseMembers, FailKeeps DEF Closed, t
<1> QED BY <1>4, <1>5 DEF InitEncoder, t

LEMMA InitYoloKeeps ==
    ASSUME StartupInv, pc = "init", InitYolo PROVE StartupInv'
<1> DEFINE t == tc[cur]
<1>1. /\ TypeOK /\ cur \in 1 .. Len(configs) /\ Stage(step, t) /\ t \in Members /\ Slots(cur) \in 1 .. 6
  BY SlotsBound DEF StartupInv, BuildInv, TypeOK
<1>2. ~t.ready
  BY <1>1 DEF Stage
<1>3. step = "yolo" => HasOutputs(t) /\ t.encoder = "ready" /\ t.pool /\ t.yolos <= Slots(cur)
  BY <1>1 DEF Stage
<1> HIDE DEF t
<1>4. ASSUME t.yolos < Slots(cur), Acquire("yolo", [t EXCEPT !.yolos = @ + 1], "yolo")
      PROVE  StartupInv'
  <2> DEFINE u == [t EXCEPT !.yolos = @ + 1]
  <2>2. u \in Members
    BY <1>1 DEF Members
  <2>3. Stage("yolo", u)
    BY <1>1, <1>2, <1>3, <1>4 DEF Stage, HasDevice, HasCapture, HasOutputs, Members, Acquire
  <2> QED BY <1>4, <2>2, <2>3, AcquireKeeps DEF Steps
<1>5. ASSUME Fail("yolo", Closed) PROVE StartupInv'
  BY <1>1, <1>2, <1>5, CloseMembers, FailKeeps DEF Closed, t
<1>6. ASSUME t.yolos = Slots(cur), Acquire("yolo", t, "tracker")
      PROVE  StartupInv'
  <2>1. Stage("tracker", t)
    BY <1>1, <1>2, <1>3, <1>6 DEF Stage, HasYolos, Acquire
  <2> QED BY <1>1, <1>6, <2>1, AcquireKeeps DEF Steps
<1> QED BY <1>4, <1>5, <1>6 DEF InitYolo, t
(* The last step sets ready_, and the stream is complete. *)
LEMMA CreateTrackerKeeps ==
    ASSUME StartupInv, pc = "init", CreateTracker PROVE StartupInv'
<1> DEFINE t == tc[cur]
           type == parse_tracker_type(configs[cur])
           u == [t EXCEPT !.tracker = type, !.ready = TRUE]
<1>1. /\ TypeOK /\ cur \in 1 .. Len(configs) /\ Stage(step, t) /\ t \in Members /\ Slots(cur) \in 1 .. 6
      /\ cur \in Configs /\ tc \in [Configs -> Members]
  BY SlotsBound DEF StartupInv, BuildInv, TypeOK
<1>2. ~t.ready
  BY <1>1 DEF Stage
<1>3. step = "tracker" => HasYolos(t)
  BY <1>1 DEF Stage
<1>4. CASE /\ step = "tracker"
           /\ tc' = [tc EXCEPT ![cur].tracker = type, ![cur].ready = TRUE]
           /\ pc' = "check" /\ step' = "open"
           /\ UNCHANGED <<configs, cur, serverVars>>
  <2>1. /\ tc' = [tc EXCEPT ![cur] = u]
        /\ tc'[cur] = u
        /\ \A s \in Configs : s # cur => tc'[s] = tc[s]
    BY <1>1, <1>4
  <2>2. type \in {"NONE", "BYTETRACK", "DEEPSORT"}
    BY TrackerTypes
  <2> HIDE DEF type
  <2>3. u \in Members
    BY <1>1, <2>2 DEF Members
  <2>4. /\ u.fd = t.fd /\ u.streaming = t.streaming /\ u.buffers = t.buffers /\ u.count = t.count
        /\ u.outputs = t.outputs /\ u.yolos = t.yolos /\ u.encoder = t.encoder /\ u.pool = t.pool
        /\ u.tracker = type
    BY <1>1 DEF Members
  <2>5. UNCHANGED <<file, lineno, parser, env_, configs, cur, transcoders_, server_, sources, thread, stopState>>
    BY <1>4 DEF serverVars, ini
  <2> HIDE DEF t, u
  <2>6. TypeOK'
    <3>1. tc' \in [Configs -> Members]
      BY <1>1, <2>1, <2>3
    <3> QED BY <1>1, <1>4, <2>5, <3>1 DEF TypeOK, Places, Steps
  <2>7. Complete(cur)'
    <3>1. /\ u.fd /\ u.streaming /\ u.buffers >= 2 /\ u.buffers = u.count
          /\ u.outputs \in 1 .. 6 /\ u.yolos = u.outputs /\ u.encoder = "ready" /\ u.pool
      BY <1>1, <1>3, <1>4, <2>4 DEF HasYolos, HasOutputs, HasCapture, HasDevice
    <3> QED BY <2>1, <2>4, <2>5, <3>1 DEF Complete, type
  <2>8. BuildInv'
    BY <1>1, <1>4, <2>5, <2>7 DEF BuildInv
  <2>9. StreamsInv'
    <3>1. \A s \in transcoders_ : s \in Configs /\ s < cur
      BY <1>1 DEF StartupInv, StreamsInv, TypeOK
    <3>2. \A s \in transcoders_ : Complete(s) => Complete(s)'
      BY <3>1, <1>1, <2>1, <2>5 DEF Complete
    <3>3. \A s \in Configs : (s > cur => s # cur) /\ (s < cur => s # cur)
      BY <1>1
    <3> QED BY <1>1, <2>1, <2>5, <3>1, <3>2, <3>3 DEF StartupInv, StreamsInv, FailedStreamsOwnNothing
  <2>10. ThreadInv'
    BY <1>4, <2>5 DEF StartupInv, ThreadInv
  <2> QED BY <2>6, <2>8, <2>9, <2>10 DEF StartupInv
<1>5. ASSUME Fail("tracker", tc[cur]) PROVE StartupInv'
  BY <1>1, <1>2, <1>5, FailKeeps
<1> QED BY <1>4, <1>5 DEF CreateTracker

-----------------------------------------------------------------------------
(* main and CamRTSPServer *)

Early == {"main", "construct", "load", "parse"}

Late == {"sources", "exited", "crashed"}

(* The main thread goes on and only env_ and server_ may change. *)
LEMMA MoveKeeps ==
    ASSUME StartupInv,
           UNCHANGED <<file, lineno, parser, step, configs, cur, tc, transcoders_, sources, thread, stopState>>,
           env_' \in BOOLEAN, pc' \in Places, server_' \in {"uninitialized", "open", "closed"},
           pc # "exited", pc' \notin {"init", "check"},
           pc' \in Early => pc \in Early,
           pc \in Late => pc' \in Late,
           server_' = "closed" => pc' \in {"sources", "crashed"}
    PROVE  StartupInv'
<1> USE DEF StartupInv
<1>1. TypeOK'
  BY DEF TypeOK
<1>2. BuildInv'
  BY DEF BuildInv, Early
<1>3. StreamsInv'
  <2>1. \A s \in transcoders_ : Complete(s) => Complete(s)'
    BY DEF Complete
  <2> QED BY <2>1 DEF StreamsInv, FailedStreamsOwnNothing
<1>4. ThreadInv'
  BY DEF ThreadInv, Late
<1> QED BY <1>1, <1>2, <1>3, <1>4

(* No server is closed before ~CamRTSPServer. *)
LEMMA NotClosedEarly ==
    ASSUME StartupInv, pc \notin Late PROVE server_ # "closed"
BY DEF StartupInv, ThreadInv, Late

LEMMA ParseNextLineKeeps ==
    ASSUME StartupInv, ParseNextLine PROVE StartupInv'
<1> USE DEF StartupInv
<1>1. lineno + 1 \in 1 .. Len(file) /\ lineno' \in Nat
  BY DEF TypeOK, ParseNextLine
<1>2. ParserOK(parser')
  BY <1>1, ParseLineKeeps DEF TypeOK, ParseNextLine
<1>3. UNCHANGED <<file, env_, pc, step, configs, cur, tc, transcoders_, server_, sources, thread, stopState>>
  BY DEF ParseNextLine
<1>4. TypeOK'
  BY <1>1, <1>2, <1>3 DEF TypeOK
<1>5. BuildInv'
  BY <1>3 DEF BuildInv, ParseNextLine
<1>6. StreamsInv'
  <2>1. \A s \in transcoders_ : Complete(s) => Complete(s)'
    BY <1>3 DEF Complete
  <2> QED BY <1>3, <2>1 DEF StreamsInv, FailedStreamsOwnNothing
<1>7. ThreadInv'
  BY <1>3 DEF ThreadInv
<1> QED BY <1>4, <1>5, <1>6, <1>7

LEMMA LoadConfigsKeeps ==
    ASSUME StartupInv, LoadConfigs PROVE StartupInv'
<1> USE DEF StartupInv
<1>1. ValuesOK(parser.values)
  BY DEF TypeOK, ParserOK, ValuesOK
<1>2. Len(configs') \in 1 .. 8 /\ \A k \in 1 .. Len(configs') : ConfigOK(configs'[k])
  BY <1>1, StreamConfigsOK DEF LoadConfigs
<1>3. /\ UNCHANGED <<env_, step, cur, tc, transcoders_, server_, sources, thread, stopState>>
      /\ pc = "parse" /\ pc' = "init" /\ step = "open" /\ cur = 1 /\ tc[1] = Empty
  BY DEF LoadConfigs, BuildInv
<1>4. TypeOK'
  <2>1. ParserOK(parser')
    BY NothingParsedOK DEF LoadConfigs
  <2>2. file' \in Seq(Line) /\ lineno' \in Nat
    BY DEF LoadConfigs
  <2>3. Len(file') = 0
    BY DEF LoadConfigs
  <2>4. \A i \in 1 .. Len(file') : LineOK(file'[i])
    BY <2>3
  <2>5. Len(configs') \in Nat /\ Len(configs') <= 8 /\ \A k \in 1 .. Len(configs') : ConfigOK(configs'[k])
    BY <1>2
  <2>6. pc' \in Places
    BY <1>3 DEF Places
  <2> QED BY <1>3, <2>1, <2>2, <2>4, <2>5, <2>6 DEF TypeOK
<1>5. BuildInv'
  <2>1. Stage(step, tc[cur])'
    <3>1. step' = "open" /\ tc'[cur'] = Empty
      BY <1>3
    <3> QED BY <3>1, EmptyMembers DEF Stage
  <2>2. cur' \in 1 .. Len(configs')
    <3>1. cur' = 1
      BY <1>3
    <3> DEFINE n == Len(configs')
    <3>2. n \in 1 .. 8
      BY <1>2
    <3> HIDE DEF n
    <3>3. 1 \in 1 .. n
      BY <3>2
    <3> QED BY <3>1, <3>3 DEF n
  <2> QED BY <1>3, <2>1, <2>2 DEF BuildInv
<1>6. StreamsInv'
  <2>1. transcoders_ = {}
    BY <1>3 DEF StreamsInv, TypeOK, Configs
  <2> QED BY <1>3, <2>1 DEF StreamsInv, FailedStreamsOwnNothing
<1>7. ThreadInv'
  BY <1>3 DEF ThreadInv
<1> QED BY <1>4, <1>5, <1>6, <1>7
LEMMA CheckReadyKeeps ==
    ASSUME StartupInv, CheckReady PROVE StartupInv'
<1> USE DEF StartupInv
<1>1. /\ UNCHANGED <<file, lineno, parser, env_, step, configs, server_, sources, thread, stopState>>
      /\ pc = "check" /\ step = "open" /\ cur' = cur + 1
      /\ cur \in 1 .. Len(configs) /\ cur \in Configs /\ Len(configs) <= 8 /\ Len(configs) \in Nat
      /\ tc \in [Configs -> Members] /\ tc[cur] \in Members
  BY DEF CheckReady, BuildInv, TypeOK, Configs, ini
<1>2. /\ pc' \in {"init", "destroy", "run"}
      /\ pc' = "init" => cur < Len(configs)
  BY DEF CheckReady
<1>3. /\ tc' \in [Configs -> Members]
      /\ \A s \in Configs : s # cur => tc'[s] = tc[s]
      /\ tc[cur].ready => tc'[cur] = tc[cur] /\ transcoders_' = transcoders_ \cup {cur}
      /\ ~tc[cur].ready => tc'[cur] = Empty /\ transcoders_' = transcoders_
  <2>1. CASE tc[cur].ready
    <3>1. tc' = tc /\ transcoders_' = transcoders_ \cup {cur}
      BY <2>1 DEF CheckReady
    <3> QED BY <1>1, <2>1, <3>1
  <2>2. CASE ~tc[cur].ready
    <3>1. tc' = [tc EXCEPT ![cur] = Empty] /\ transcoders_' = transcoders_
      BY <1>1, <2>2, DestructClears DEF CheckReady
    <3> QED BY <1>1, <2>2, <3>1, EmptyMembers
  <2> QED BY <2>1, <2>2
<1>4. TypeOK'
  <2>1. transcoders_' \subseteq Configs
    BY <1>1, <1>3 DEF TypeOK
  <2>2. cur' \in Nat \ {0}
    BY <1>1 DEF Configs
  <2>3. pc' \in Places
    BY <1>2 DEF Places
  <2> QED BY <1>1, <1>3, <2>1, <2>2, <2>3 DEF TypeOK
<1>5. BuildInv'
  <2>1. ASSUME pc' = "init" PROVE cur' \in 1 .. Len(configs) /\ Stage(step, tc[cur])'
    <3>1. cur' \in 1 .. Len(configs) /\ cur' \in Configs /\ cur' > cur /\ cur' # cur
      BY <1>1, <1>2, <2>1 DEF Configs
    <3>2. tc'[cur'] = Empty
      BY <1>1, <1>3, <3>1 DEF StreamsInv
    <3> QED BY <1>1, <3>1, <3>2, EmptyMembers DEF Stage
  <2> QED BY <1>1, <1>2, <2>1 DEF BuildInv
<1>6. StreamsInv'
  <2>1. \A s \in Configs : s > cur' => tc'[s] = Empty
    BY <1>1, <1>3 DEF StreamsInv, Configs
  <2>2. \A s \in transcoders_' : s < cur'
    <3>1. \A s \in transcoders_ : s \in Configs /\ s < cur
      BY DEF StreamsInv, TypeOK
    <3>2. \A s \in Configs : s < cur => s < cur + 1
      BY <1>1 DEF Configs
    <3>3. cur < cur + 1
      BY <1>1 DEF Configs
    <3>4. \A s \in transcoders_' : s \in transcoders_ \/ s = cur
      BY <1>3
    <3> QED BY <1>1, <3>1, <3>2, <3>3, <3>4
  <2>3. FailedStreamsOwnNothing'
    <3>1. ASSUME NEW s \in Configs, s < cur', s \notin transcoders_' PROVE tc'[s] = Empty
      <4>1. s # cur => s < cur
        BY <1>1, <3>1 DEF Configs
      <4> QED BY <1>3, <3>1, <4>1 DEF StreamsInv, FailedStreamsOwnNothing
    <3> QED BY <3>1 DEF FailedStreamsOwnNothing
  <2>4. ASSUME NEW s \in transcoders_', thread'[s] # "returned" PROVE Complete(s)'
    <3>1. s \in Configs
      BY <2>4, <1>4 DEF TypeOK
    <3>2. Complete(s)
      <4>1. CASE s = cur
        <5>1. tc[cur].ready
          BY <1>1, <1>3, <2>4, <4>1 DEF StreamsInv, TypeOK, Configs
        <5> QED BY <1>1, <4>1, <5>1 DEF BuildInv
      <4>2. CASE s # cur
        BY <1>1, <1>3, <2>4, <4>2 DEF StreamsInv
      <4> QED BY <4>1, <4>2
    <3>3. tc'[s] = tc[s]
      <4>1. CASE s = cur
        BY <1>1, <1>3, <2>4, <4>1 DEF StreamsInv, TypeOK, Configs
      <4> QED BY <1>3, <3>1, <4>1
    <3> QED BY <1>1, <3>2, <3>3 DEF Complete
  <2> QED BY <2>1, <2>2, <2>3, <2>4 DEF StreamsInv
<1>7. ThreadInv'
  <2>1. transcoders_ \subseteq transcoders_'
    BY <1>3
  <2> QED BY <1>1, <1>2, <2>1 DEF ThreadInv
<1> QED BY <1>4, <1>5, <1>6, <1>7

(* A thread is started on a complete stream. *)
LEMMA AddMediaSessionKeeps ==
    ASSUME StartupInv, AddMediaSession PROVE StartupInv'
<1> USE DEF StartupInv
<1>1. /\ UNCHANGED <<file, lineno, parser, env_, step, configs, cur, tc, transcoders_, server_, stopState>>
      /\ pc = "sessions"
  BY DEF AddMediaSession, ini
<1>2. \A s : Complete(s) => Complete(s)'
  BY <1>1 DEF Complete
<1>3. ASSUME NEW s \in transcoders_ \ sources, sources' = sources \cup {s}, start(s), UNCHANGED pc
      PROVE  StartupInv'
  <2>1. s \in Configs /\ thread \in [Configs -> {"none", "running", "returned"}]
    BY <1>3 DEF TypeOK
  <2>2. thread[s] = "none"
    BY <1>1, <1>3, <2>1 DEF ThreadInv
  <2>3. /\ thread' \in [Configs -> {"none", "running", "returned"}]
        /\ thread'[s] = "running" /\ \A r \in Configs : r # s => thread'[r] = thread[r]
    BY <1>3, <2>1 DEF start
  <2>4. TypeOK'
    BY <1>1, <1>3, <2>1, <2>3 DEF TypeOK
  <2>5. BuildInv'
    BY <1>1, <1>3 DEF BuildInv
  <2>6. StreamsInv'
    <3>1. ASSUME NEW r \in transcoders_, thread'[r] # "returned" PROVE Complete(r)
      BY <2>2, <2>3, <3>1 DEF StreamsInv, TypeOK
    <3> QED BY <1>1, <1>2, <3>1 DEF StreamsInv, FailedStreamsOwnNothing
  <2>7. ThreadInv'
    BY <1>1, <1>3, <2>1, <2>3 DEF ThreadInv
  <2> QED BY <2>4, <2>5, <2>6, <2>7
<1>4. ASSUME pc' = "loop", UNCHANGED <<sources, thread>> PROVE StartupInv'
  <2>1. server_ # "closed"
    BY <1>1 DEF ThreadInv
  <2> QED BY <1>1, <1>4, <2>1, MoveKeeps DEF TypeOK, Places, Early, Late
<1> QED BY <1>3, <1>4 DEF AddMediaSession

LEMMA CloseSourceKeeps ==
    ASSUME StartupInv, CloseSource PROVE StartupInv'
<1> USE DEF StartupInv
<1>1. /\ UNCHANGED <<file, lineno, parser, env_, pc, step, configs, cur, tc, transcoders_, server_, thread>>
      /\ pc = "sources"
  BY DEF CloseSource, ini
<1>2. PICK s \in sources : sources' = sources \ {s} /\ stop(s)
  BY DEF CloseSource
<1>3. s \in Configs /\ stopState \in [Configs -> BOOLEAN]
  BY DEF TypeOK
<1>4. /\ stopState' \in [Configs -> BOOLEAN]
      /\ stopState'[s] /\ \A r \in Configs : r # s => stopState'[r] = stopState[r]
  BY <1>2, <1>3 DEF stop
<1>5. TypeOK'
  BY <1>1, <1>2, <1>4 DEF TypeOK
<1>6. BuildInv'
  BY <1>1 DEF BuildInv
<1>7. StreamsInv'
  <2>1. \A r : Complete(r) => Complete(r)'
    BY <1>1 DEF Complete
  <2> QED BY <1>1, <2>1 DEF StreamsInv, FailedStreamsOwnNothing
<1>8. ThreadInv'
  BY <1>1, <1>2, <1>3, <1>4 DEF ThreadInv
<1> QED BY <1>5, <1>6, <1>7, <1>8

LEMMA ClearTranscodersKeeps ==
    ASSUME StartupInv, ClearTranscoders PROVE StartupInv'
<1> USE DEF StartupInv
<1>1. /\ UNCHANGED <<file, lineno, parser, env_, step, configs, cur, server_, sources, thread, stopState>>
      /\ pc' = "exited" /\ sources = {} /\ transcoders_' = {}
      /\ tc \in [Configs -> Members]
  BY DEF ClearTranscoders, ini, TypeOK
<1>2. tc' = [s \in Configs |-> IF s \in transcoders_ THEN Empty ELSE tc[s]]
  BY <1>1, DestructClears DEF ClearTranscoders
<1>3. tc' \in [Configs -> Members]
  BY <1>1, <1>2, EmptyMembers
<1>4. TypeOK'
  BY <1>1, <1>3 DEF TypeOK, Places
<1>5. BuildInv'
  BY <1>1 DEF BuildInv
<1>6. StreamsInv'
  BY <1>1, <1>2 DEF StreamsInv, FailedStreamsOwnNothing
<1>7. ThreadInv'
  BY <1>1 DEF ThreadInv
<1> QED BY <1>4, <1>5, <1>6, <1>7

(* run() closes the device of its own stream, which is not the one being built. *)
LEMMA RunReturnsKeeps ==
    ASSUME StartupInv, NEW s \in Configs, RunReturns(s) PROVE StartupInv'
<1> USE DEF StartupInv
<1>1. /\ UNCHANGED <<file, lineno, parser, env_, pc, step, configs, cur, transcoders_, server_, sources, stopState>>
      /\ pc \notin {"exited", "crashed"} /\ thread[s] = "running"
      /\ tc \in [Configs -> Members] /\ thread \in [Configs -> {"none", "running", "returned"}]
  BY DEF RunReturns, ini, TypeOK
<1>2. s \in transcoders_ /\ s < cur /\ stopState[s] /\ pc \in {"sources"}
  BY <1>1 DEF ThreadInv, StreamsInv, RunReturns
<1>3. /\ tc' \in [Configs -> Members] /\ \A r \in Configs : r # s => tc'[r] = tc[r]
      /\ thread' \in [Configs -> {"none", "running", "returned"}]
      /\ thread'[s] = "returned" /\ \A r \in Configs : r # s => thread'[r] = thread[r]
  BY <1>1, CloseMembers DEF RunReturns
<1>4. TypeOK'
  BY <1>1, <1>3 DEF TypeOK
<1>5. BuildInv'
  BY <1>1, <1>2 DEF BuildInv
<1>6. StreamsInv'
  <2>1. ASSUME NEW r \in transcoders_, thread'[r] # "returned" PROVE Complete(r)'
    <3>1. r \in Configs /\ r # s
      BY <1>3, <2>1 DEF TypeOK
    <3>2. Complete(r)
      BY <1>3, <2>1, <3>1 DEF StreamsInv
    <3> QED BY <1>1, <1>3, <3>1, <3>2 DEF Complete
  <2>2. \A r \in Configs : r > cur => r # s
    BY <1>2, <1>4 DEF TypeOK, Configs
  <2> QED BY <1>1, <1>2, <1>3, <2>1, <2>2 DEF StreamsInv, FailedStreamsOwnNothing
<1>7. ThreadInv'
  BY <1>1, <1>2, <1>3 DEF ThreadInv
<1> QED BY <1>4, <1>5, <1>6, <1>7
LEMMA NextKeeps == StartupInv /\ [Next]_vars => StartupInv'
<1> SUFFICES ASSUME StartupInv, [Next]_vars PROVE StartupInv'
  OBVIOUS
<1>0. TypeOK
  BY DEF StartupInv
<1>1. CASE Main
  BY <1>0, <1>1, MoveKeeps, NotClosedEarly DEF Main, TypeOK, Places, Early, Late, serverVars, ini
<1>2. CASE ConstructServer
  BY <1>0, <1>2, MoveKeeps, NotClosedEarly DEF ConstructServer, TypeOK, Places, Early, Late, ini
<1>3. CASE OpenConfigs
  BY <1>0, <1>3, MoveKeeps, NotClosedEarly DEF OpenConfigs, TypeOK, Places, Early, Late, serverVars, ini
<1>4. CASE InitStep
  <2>1. CASE ReidModelFails
    BY <1>0, <1>4, <2>1, MoveKeeps, NotClosedEarly
       DEF InitStep, ReidModelFails, TypeOK, Places, Early, Late, serverVars, ini
  <2> QED BY <1>4, <2>1, OpenDeviceKeeps, AllocCaptureKeeps, CheckSizeKeeps, AllocOutputsKeeps,
             InitEncoderKeeps, InitYoloKeeps, CreateTrackerKeeps DEF InitStep
<1>5. CASE CreateServer
  <2>1. pc = "run" /\ server_ # "closed"
    BY <1>5, NotClosedEarly DEF CreateServer, Late
  <2>2. /\ pc' \in {"sessions", "exited", "crashed"} /\ server_' \in {server_, "open"}
        /\ UNCHANGED <<file, lineno, parser, env_, step, configs, cur, tc, transcoders_, sources, thread, stopState>>
    BY <1>5 DEF CreateServer, ini
  <2> QED BY <1>0, <2>1, <2>2, MoveKeeps DEF TypeOK, Places, Early, Late
<1>6. CASE StopServer
  BY <1>0, <1>6, MoveKeeps, NotClosedEarly DEF StopServer, TypeOK, Places, Early, Late, serverVars, ini
<1>7. CASE CloseServer
  <2>1. pc = "destroy" /\ server_ # "closed"
    BY <1>7, NotClosedEarly DEF CloseServer, Late
  <2>2. /\ pc' \in {"sources", "crashed"} /\ server_' \in {server_, "closed"}
        /\ UNCHANGED <<file, lineno, parser, env_, step, configs, cur, tc, transcoders_, sources, thread, stopState>>
    BY <1>7 DEF CloseServer, ini
  <2> QED BY <1>0, <2>1, <2>2, MoveKeeps DEF TypeOK, Places, Early, Late
<1>8. CASE Reclaim
  BY <1>0, <1>8, MoveKeeps DEF Reclaim, TypeOK, Places, Early, Late, serverVars, ini
<1>9. CASE UNCHANGED vars
  <2>1. TypeOK'
    BY <1>0, <1>9 DEF TypeOK, vars
  <2>2. BuildInv'
    <3>1. Complete(cur) => Complete(cur)'
      BY <1>9 DEF Complete, vars
    <3>2. Stage(step, tc[cur]) => Stage(step, tc[cur])'
      BY <1>9 DEF Stage, HasDevice, HasCapture, HasOutputs, HasYolos, Slots, vars
    <3> QED BY <1>9, <3>1, <3>2 DEF StartupInv, BuildInv, vars
  <2>3. StreamsInv'
    <3>1. \A s : Complete(s) => Complete(s)'
      BY <1>9 DEF Complete, vars
    <3> QED BY <1>9, <3>1 DEF StartupInv, StreamsInv, FailedStreamsOwnNothing, vars
  <2>4. ThreadInv'
    BY <1>9 DEF StartupInv, ThreadInv, vars
  <2> QED BY <2>1, <2>2, <2>3, <2>4 DEF StartupInv
<1>10. CASE Ended
  BY <1>9, <1>10 DEF Ended
<1> QED BY <1>1, <1>2, <1>3, <1>4, <1>5, <1>6, <1>7, <1>8, <1>9, <1>10, ParseNextLineKeeps,
           LoadConfigsKeeps, CheckReadyKeeps, AddMediaSessionKeeps, CloseSourceKeeps,
           ClearTranscodersKeeps, RunReturnsKeeps DEF Next, MainStep

(* The inductive invariant, for every configuration file and every failure. *)
THEOREM StartupInvariant == Spec => []StartupInv
<1>1. Init => StartupInv
  BY InitInv
<1>2. StartupInv /\ [Next]_vars => StartupInv'
  BY NextKeeps
<1> QED BY <1>1, <1>2, PTL DEF Spec

(* transcoder.cc 482-609, 613: a thread that runs finds what run() indexes *)
(* without asking, whatever config.ini says and whichever of the other     *)
(* streams failed.                                                         *)
THEOREM RunningAreComplete == Spec => []RunningStreamsAreComplete
<1>1. StartupInv => RunningStreamsAreComplete
  BY DEF StartupInv, StreamsInv, RunningStreamsAreComplete, Complete
<1> QED BY <1>1, StartupInvariant, PTL

(* transcoder.cc 345-377, 505-600: a stream whose init() gave up, at any   *)
(* step, owns nothing once main has turned to the next configuration.      *)
THEOREM FailedOwnNothing == Spec => []FailedStreamsOwnNothing
<1>1. StartupInv => FailedStreamsOwnNothing
  BY DEF StartupInv, StreamsInv
<1> QED BY <1>1, StartupInvariant, PTL

(* CamRTSPServer.cc 29-47, CamFramedSource.cc 56-58: when the TransCoders  *)
(* have been destroyed, each thread that was started has been told.        *)
THEOREM StopComesFirst == Spec => []StopPrecedesDestruction
<1>1. StartupInv => StopPrecedesDestruction
  BY DEF StartupInv, ThreadInv, StopPrecedesDestruction
<1> QED BY <1>1, StartupInvariant, PTL
===============================================================================
