----------------------- MODULE CamFramedSource_proofs -----------------------
(***************************************************************************)
(* For any set of clients, any number of frames and any choice of IDR      *)
(* frames: what CamFramedSource buffers and delivers has no undecodable    *)
(* gap and leaves in order, no buffered frame is stranded while the reader *)
(* waits, and a client that starts an idle source starts at an IDR.        *)
(***************************************************************************)
EXTENDS CamFramedSource, SequenceTheorems, TLAPS

Frames == 1 .. MaxFrames

(* The flags, the buffer and where the two threads are (CamFramedSource.h). *)
TypeOK ==
    /\ awaiting \in BOOLEAN /\ waitForIdr_ \in BOOLEAN /\ trigger \in BOOLEAN
    /\ encodedDataBuffer \in Seq(Frames)
    /\ tpc \in {"idle", "drop", "gate", "open", "push", "trigger"}
    /\ data \in Frames \cup {0} /\ delivered \in Frames \cup {0}
    /\ epc \in {"idle", "fired", "get", "deliver", "stop", "corrupt"}
    /\ clients \in SUBSET Clients /\ clean \in SUBSET Clients
    /\ first \in [Clients -> Frames \cup {0}]

(* The newest frame that was not dropped. *)
Newest ==
    IF encodedDataBuffer = <<>> THEN delivered
    ELSE encodedDataBuffer[Len(encodedDataBuffer)]

(* What the gate knows of the newest frame kept: an open gate means that   *)
(* nothing was dropped since, and a frame about to be pushed is an IDR or  *)
(* the next one.                                                           *)
GateInv ==
    /\ Newest <= data
    /\ tpc \in {"drop", "gate", "open", "push"} => Newest < data
    /\ tpc = "open" => data \in Idr
    /\ tpc = "push" => data \in Idr \/ data = Newest + 1
    /\ ~waitForIdr_ /\ tpc \in {"idle", "trigger"} => Newest = data
    /\ ~waitForIdr_ /\ tpc = "gate" => data = Newest + 1

GapInv == TypeOK /\ GapFree /\ GateInv

(* Without clients nobody waits, and once the source was stopped the gate  *)
(* is closed unless a frame that had passed it is still there.             *)
IdleInv ==
    /\ epc = "stop" => clients = {}
    /\ clients = {} => ~awaiting /\ epc \in {"idle", "fired", "stop"}
    /\ clients = {} /\ epc # "stop" /\ ~waitForIdr_ /\ encodedDataBuffer = <<>>
         => tpc = "push"

(* A client that started the source and has seen nothing yet will get an   *)
(* IDR: it is the head of the buffer, or is being pushed, or the gate      *)
(* waits for it.                                                           *)
CleanInv ==
    \A c \in clean \cap clients : first[c] = 0 =>
        IF encodedDataBuffer # <<>> THEN encodedDataBuffer[1] \in Idr
        ELSE IF tpc = "push" THEN data \in Idr ELSE waitForIdr_

ClientInv == IdleInv /\ CleanInv /\ CleanJoinStartsAtIdr /\ DataAnnounced

-----------------------------------------------------------------------------
(* Sequences *)

LEMMA Appended ==
    ASSUME NEW S, NEW s \in Seq(S), NEW e \in S
    PROVE  /\ Append(s, e) \in Seq(S) /\ Append(s, e) # <<>>
           /\ Len(Append(s, e)) = Len(s) + 1
           /\ Append(s, e)[Len(s) + 1] = e
           /\ \A i \in 1 .. Len(s) : Append(s, e)[i] = s[i]
  OBVIOUS

LEMMA Taken ==
    ASSUME NEW S, NEW s \in Seq(S), s # <<>>
    PROVE  /\ Head(s) = s[1] /\ Head(s) \in S /\ Len(s) \in Nat \ {0}
           /\ Tail(s) \in Seq(S) /\ Len(Tail(s)) = Len(s) - 1
           /\ Tail(s) = <<>> <=> Len(s) = 1
           /\ \A i \in 1 .. Len(s) - 1 : Tail(s)[i] = s[i + 1]
<1>1. Head(s) = s[1] /\ Len(s) \in Nat \ {0}
  OBVIOUS
<1>2. Head(s) \in S
  BY <1>1
<1>3. Tail(s) \in Seq(S) /\ Len(Tail(s)) = Len(s) - 1
  BY <1>1
<1>4. Tail(s) = <<>> <=> Len(s) = 1
  <2>1. Tail(s) = <<>> <=> Len(Tail(s)) = 0
    BY <1>3, EmptySeq
  <2> QED BY <2>1, <1>1, <1>3
<1>5. \A i \in 1 .. Len(s) - 1 : Tail(s)[i] = s[i + 1]
  BY <1>1, <1>3
<1> QED BY <1>1, <1>2, <1>3, <1>4, <1>5

LEMMA IdrFrames == Idr \subseteq Frames /\ MaxFrames \in Nat /\ 0 \notin Frames
  BY SourceAssumption DEF Frames

-----------------------------------------------------------------------------
(* The stream *)

LEMMA InitGapInv == Init => GapInv
<1> SUFFICES ASSUME Init PROVE GapInv
  OBVIOUS
<1>1. encodedDataBuffer = <<>> /\ <<>> \in Seq(Frames) /\ Len(<<>>) = 0
  BY DEF Init
<1>2. first \in [Clients -> Frames \cup {0}]
  BY DEF Init
<1>3. TypeOK
  BY <1>1, <1>2 DEF Init, TypeOK
<1>4. Newest = 0
  BY DEF Init, Newest
<1>5. GapFree
  BY <1>1 DEF GapFree
<1>6. GateInv
  BY <1>4 DEF Init, GateInv
<1> QED BY <1>3, <1>5, <1>6 DEF GapInv

(* A step that leaves buffer, delivered frame and frame counter alone. *)
LEMMA GapQuiet ==
    ASSUME GapInv, UNCHANGED <<encodedDataBuffer, delivered>>
    PROVE  GapFree' /\ Newest' = Newest
  BY DEF GapInv, GapFree, Newest, Follows

LEMMA GapPush == ASSUME GapInv, Push PROVE GapInv'
<1> DEFINE s == encodedDataBuffer
<1>t. TypeOK /\ s \in Seq(Frames) /\ Len(s) \in Nat
  BY DEF GapInv, TypeOK
<1>d. data \in Frames /\ data \in Nat /\ delivered \in Nat
  BY IdrFrames DEF GapInv, TypeOK, GateInv, Push, Frames, Newest
<1>a. /\ encodedDataBuffer' \in Seq(Frames) /\ encodedDataBuffer' # <<>>
      /\ Len(encodedDataBuffer') = Len(s) + 1
      /\ encodedDataBuffer'[Len(s) + 1] = data
      /\ \A i \in 1 .. Len(s) : encodedDataBuffer'[i] = s[i]
  BY <1>t, <1>d, Appended DEF Push
<1>u. /\ tpc = "push" /\ tpc' = "trigger"
      /\ UNCHANGED <<awaiting, waitForIdr_, trigger, data, epc, replicatorVars, delivered>>
  BY DEF Push
<1>1. TypeOK'
  BY <1>t, <1>a, <1>u DEF TypeOK, replicatorVars
<1>2. Newest' = data
  BY <1>a, <1>t DEF Newest
<1>3. Follows(Newest, data)
  <2>1. Newest < data /\ (data \in Idr \/ data = Newest + 1)
    BY <1>u DEF GapInv, GateInv
  <2> QED BY <2>1 DEF Follows
<1>4. GapFree'
  <2>1. CASE s = <<>>
    <3>1. Len(s) = 0 /\ Newest = delivered
      BY <2>1 DEF Newest
    <3> QED BY <3>1, <1>a, <1>u, <1>3 DEF GapFree, Follows
  <2>2. CASE s # <<>>
    <3>1. Newest = s[Len(s)] /\ Len(s) \in Nat \ {0}
      BY <2>2, <1>t DEF Newest
    <3>2. Follows(delivered, s[1]) /\ \A i \in 1 .. Len(s) - 1 : Follows(s[i], s[i + 1])
      BY <2>2 DEF GapInv, GapFree
    <3>3. Follows(delivered', encodedDataBuffer'[1])
      BY <3>1, <3>2, <1>a, <1>u DEF Follows
    <3>4. ASSUME NEW i \in 1 .. Len(encodedDataBuffer') - 1
          PROVE  Follows(encodedDataBuffer'[i], encodedDataBuffer'[i + 1])
      <4>1. CASE i = Len(s)
        BY <4>1, <3>1, <1>3, <1>a
      <4>2. CASE i \in 1 .. Len(s) - 1
        <5>1. encodedDataBuffer'[i] = s[i] /\ encodedDataBuffer'[i + 1] = s[i + 1]
          BY <4>2, <1>a, <1>t
        <5> QED BY <5>1, <4>2, <3>2
      <4> QED BY <4>1, <4>2, <1>a, <1>t
    <3> QED BY <3>3, <3>4 DEF GapFree, Follows
  <2> QED BY <2>1, <2>2
<1>5. GateInv'
  BY <1>2, <1>u, <1>d DEF GateInv
<1> QED BY <1>1, <1>4, <1>5 DEF GapInv

LEMMA GapDeliver == ASSUME GapInv, DeliverData PROVE GapInv'
<1> DEFINE s == encodedDataBuffer
<1>t. TypeOK /\ s \in Seq(Frames) /\ Len(s) \in Nat
  BY DEF GapInv, TypeOK
<1>u. UNCHANGED <<waitForIdr_, trigger, tpc, data, clients, clean>>
  BY DEF DeliverData, transcoderVars
<1>1. CASE s = <<>>
  <2>1. epc' = "corrupt" /\ UNCHANGED <<awaiting, delivered, first, encodedDataBuffer>>
    BY <1>1 DEF DeliverData
  <2>2. TypeOK'
    BY <1>t, <1>u, <2>1 DEF TypeOK
  <2>3. GapFree' /\ Newest' = Newest
    BY <2>1, GapQuiet
  <2> QED BY <2>2, <2>3, <1>u DEF GapInv, GateInv
<1>2. CASE s # <<>>
  <2>a. /\ encodedDataBuffer' = Tail(s) /\ delivered' = s[1] /\ s[1] \in Frames
        /\ awaiting' = FALSE /\ epc' = "idle"
        /\ first' = [c \in Clients |->
                        IF c \in clients /\ first[c] = 0 THEN s[1] ELSE first[c]]
    BY <1>2, <1>t, Taken DEF DeliverData, AfterGetting
  <2>b. /\ Tail(s) \in Seq(Frames) /\ Len(Tail(s)) = Len(s) - 1 /\ Len(s) \in Nat \ {0}
        /\ Tail(s) = <<>> <=> Len(s) = 1
        /\ \A i \in 1 .. Len(s) - 1 : Tail(s)[i] = s[i + 1]
    BY <1>2, <1>t, Taken
  <2>1. TypeOK'
    <3>1. first' \in [Clients -> Frames \cup {0}]
      BY <2>a, <1>t DEF TypeOK
    <3> QED BY <3>1, <2>a, <2>b, <1>t, <1>u DEF TypeOK
  <2>2. Newest' = Newest
    <3>1. CASE Len(s) = 1
      BY <3>1, <2>a, <2>b, <1>2 DEF Newest
    <3>2. CASE Len(s) # 1
      <4>1. Len(s) - 1 \in 1 .. Len(s) - 1
        BY <3>2, <2>b
      <4>2. Tail(s)[Len(s) - 1] = s[Len(s)]
        BY <4>1, <2>b
      <4> QED BY <3>2, <4>2, <2>a, <2>b, <1>2 DEF Newest
    <3> QED BY <3>1, <3>2
  <2>3. GapFree'
    <3>1. \A i \in 1 .. Len(s) - 1 : Follows(s[i], s[i + 1])
      BY DEF GapInv, GapFree
    <3>2. encodedDataBuffer' # <<>> => Follows(delivered', encodedDataBuffer'[1])
      <4>1. ASSUME encodedDataBuffer' # <<>> PROVE 1 \in 1 .. Len(s) - 1
        BY <4>1, <2>a, <2>b
      <4> QED BY <4>1, <3>1, <2>a, <2>b
    <3>3. ASSUME NEW i \in 1 .. Len(encodedDataBuffer') - 1
          PROVE  Follows(encodedDataBuffer'[i], encodedDataBuffer'[i + 1])
      <4>1. i \in 1 .. Len(s) - 1 /\ i + 1 \in 1 .. Len(s) - 1
        BY <2>a, <2>b
      <4>2. encodedDataBuffer'[i] = s[i + 1] /\ encodedDataBuffer'[i + 1] = s[i + 1 + 1]
        BY <4>1, <2>a, <2>b
      <4> QED BY <4>1, <4>2, <3>1
    <3> QED BY <3>2, <3>3 DEF GapFree, Follows
  <2> QED BY <2>1, <2>2, <2>3, <1>u DEF GapInv, GateInv
<1> QED BY <1>1, <1>2

(* The stream stays free of gaps in every step of both threads. *)
LEMMA GapStep == ASSUME GapInv, [Next]_vars PROVE GapInv'
<1> USE DEF transcoderVars, replicatorVars
<1>t. TypeOK
  BY DEF GapInv
<1>n. Newest \in Nat /\ data \in Nat
  <2>1. delivered \in Nat /\ data \in Nat
    BY <1>t, IdrFrames DEF TypeOK, Frames
  <2>2. encodedDataBuffer # <<>> => encodedDataBuffer[Len(encodedDataBuffer)] \in Frames
    BY <1>t DEF TypeOK
  <2> QED BY <2>1, <2>2, IdrFrames DEF Newest, Frames
<1>1. CASE OnEncodedData
  <2>1. TypeOK'
    BY <1>1, <1>t, IdrFrames DEF OnEncodedData, TypeOK, Frames
  <2>2. GapFree' /\ Newest' = Newest
    BY <1>1, GapQuiet DEF OnEncodedData
  <2>3. GateInv'
    BY <1>1, <1>n, <2>2 DEF OnEncodedData, GapInv, GateInv
  <2> QED BY <2>1, <2>2, <2>3 DEF GapInv
<1>2. CASE Drop \/ Gate \/ OpenGate \/ TriggerEvent
  <2>1. TypeOK'
    BY <1>2, <1>t DEF Drop, Gate, OpenGate, TriggerEvent, TypeOK
  <2>2. GapFree' /\ Newest' = Newest
    BY <1>2, GapQuiet DEF Drop, Gate, OpenGate, TriggerEvent
  <2>3. GateInv'
    <3>1. CASE Drop
      BY <3>1, <1>n, <2>2 DEF Drop, GapInv, GateInv
    <3>2. CASE Gate
      BY <3>2, <1>n, <2>2 DEF Gate, hasNaluType5, GapInv, GateInv
    <3>3. CASE OpenGate
      BY <3>3, <1>n, <2>2 DEF OpenGate, GapInv, GateInv
    <3>4. CASE TriggerEvent
      BY <3>4, <1>n, <2>2 DEF TriggerEvent, GapInv, GateInv
    <3> QED BY <1>2, <3>1, <3>2, <3>3, <3>4
  <2> QED BY <2>1, <2>2, <2>3 DEF GapInv
<1>3. CASE Push
  BY <1>3, GapPush
<1>4. CASE DeliverData
  BY <1>4, GapDeliver
<1>5. CASE FireTrigger \/ DeliverFrame0 \/ GetNextFrame \/ DoGetNextFrame \/ DoStopGettingFrames
  <2>1. TypeOK'
    BY <1>5, <1>t DEF FireTrigger, DeliverFrame0, GetNextFrame, DoGetNextFrame,
                      DoStopGettingFrames, TypeOK
  <2>2. GapFree' /\ Newest' = Newest
    BY <1>5, GapQuiet DEF FireTrigger, DeliverFrame0, GetNextFrame, DoGetNextFrame,
                          DoStopGettingFrames
  <2>3. GateInv'
    BY <1>5, <1>n, <2>2 DEF FireTrigger, DeliverFrame0, GetNextFrame, DoGetNextFrame,
                            DoStopGettingFrames, GapInv, GateInv
  <2> QED BY <2>1, <2>2, <2>3 DEF GapInv
<1>6. ASSUME NEW c \in Clients, Join(c) \/ Leave(c) PROVE GapInv'
  <2>1. TypeOK'
    <3>1. CASE Join(c)
      <4>1. clients' \in SUBSET Clients /\ clean' \in SUBSET Clients
        BY <3>1, <1>t DEF Join, TypeOK
      <4>2. first' \in [Clients -> Frames \cup {0}]
        BY <3>1, <1>t DEF Join, TypeOK
      <4> QED BY <3>1, <4>1, <4>2, <1>t DEF Join, TypeOK
    <3>2. CASE Leave(c)
      BY <3>2, <1>t DEF Leave, TypeOK
    <3> QED BY <1>6, <3>1, <3>2
  <2>2. GapFree' /\ Newest' = Newest
    BY <1>6, GapQuiet DEF Join, Leave
  <2>3. GateInv'
    BY <1>6, <1>n, <2>2 DEF Join, Leave, GapInv, GateInv
  <2> QED BY <2>1, <2>2, <2>3 DEF GapInv
<1>7. CASE UNCHANGED vars
  <2>1. TypeOK'
    BY <1>7, <1>t DEF vars, TypeOK
  <2>2. GapFree' /\ Newest' = Newest
    BY <1>7, GapQuiet DEF vars
  <2> QED BY <1>7, <2>1, <2>2 DEF vars, GapInv, GateInv
<1> QED BY <1>1, <1>2, <1>3, <1>4, <1>5, <1>6, <1>7
        DEF Next, TranscoderStep, EventLoopStep, Corrupt

LEMMA GapInvariant == Spec => []GapInv
  BY InitGapInv, GapStep, PTL DEF Spec

(* CamFramedSource.cc 65-84, 97-100: for any number of clients and frames  *)
(* and whichever frames are IDRs, the delivered frame followed by the      *)
(* buffered ones never has a gap that makes a frame undecodable.           *)
THEOREM StreamHasNoGap == Spec => []GapFree
<1>1. GapInv => GapFree
  BY DEF GapInv
<1> QED BY <1>1, GapInvariant, PTL

(* CamFramedSource.cc 97-122: every frame handed to live555 is newer than  *)
(* the one before it and decodable after it.                               *)
THEOREM DeliveryInOrder == Spec => InOrder
<1>1. ASSUME GapInv, [Next]_vars
      PROVE  [delivered' # delivered => Follows(delivered, delivered')]_vars
  <2>1. CASE DeliverData
    <3>1. CASE encodedDataBuffer = <<>>
      BY <2>1, <3>1 DEF DeliverData
    <3>2. CASE encodedDataBuffer # <<>>
      <4>1. delivered' = encodedDataBuffer[1]
        BY <1>1, <2>1, <3>2, Taken DEF DeliverData, AfterGetting, GapInv, TypeOK
      <4> QED BY <1>1, <4>1, <3>2 DEF GapInv, GapFree, Follows
    <3> QED BY <3>1, <3>2
  <2>2. CASE ~DeliverData
    <3>1. UNCHANGED delivered
      BY <1>1, <2>2 DEF Next, TranscoderStep, EventLoopStep, OnEncodedData, Drop, Gate,
            OpenGate, Push, TriggerEvent, FireTrigger, DeliverFrame0, GetNextFrame,
            DoGetNextFrame, DoStopGettingFrames, Join, Leave, Corrupt, vars
    <3> QED BY <3>1
  <2> QED BY <2>1, <2>2
<1> QED BY <1>1, GapInvariant, PTL DEF Spec, InOrder

-----------------------------------------------------------------------------
(* The clients *)

LEMMA InitClientInv == Init => ClientInv
  BY DEF Init, ClientInv, IdleInv, CleanInv, CleanJoinStartsAtIdr, DataAnnounced

LEMMA ClientPush == ASSUME GapInv, ClientInv, Push PROVE ClientInv'
<1>a. /\ encodedDataBuffer' # <<>>
      /\ encodedDataBuffer # <<>> => encodedDataBuffer'[1] = encodedDataBuffer[1]
      /\ encodedDataBuffer = <<>> => encodedDataBuffer'[1] = data
  <2>1. encodedDataBuffer \in Seq(Frames) /\ data \in Frames
    BY IdrFrames DEF GapInv, TypeOK, GateInv, Push, Frames, Newest
  <2>2. encodedDataBuffer # <<>> => 1 \in 1 .. Len(encodedDataBuffer)
    BY <2>1
  <2>3. encodedDataBuffer = <<>> => Len(encodedDataBuffer) + 1 = 1
    BY <2>1
  <2> QED BY <2>1, <2>2, <2>3, Appended DEF Push
<1>u. /\ tpc = "push" /\ tpc' = "trigger"
      /\ UNCHANGED <<awaiting, waitForIdr_, trigger, data, epc, clients, first, clean>>
  BY DEF Push, replicatorVars
<1>1. IdleInv'
  BY <1>a, <1>u DEF ClientInv, IdleInv
<1>2. CleanInv'
  BY <1>a, <1>u DEF ClientInv, CleanInv
<1>3. CleanJoinStartsAtIdr'
  BY <1>u DEF ClientInv, CleanJoinStartsAtIdr
<1>4. DataAnnounced'
  BY <1>u DEF DataAnnounced
<1> QED BY <1>1, <1>2, <1>3, <1>4 DEF ClientInv

LEMMA ClientDeliver == ASSUME GapInv, ClientInv, DeliverData PROVE ClientInv'
<1>u. UNCHANGED <<waitForIdr_, trigger, tpc, data, clients, clean>> /\ epc = "deliver"
  BY DEF DeliverData, transcoderVars
<1>c. clients # {}
  BY <1>u DEF ClientInv, IdleInv
<1>1. CASE encodedDataBuffer = <<>>
  <2>1. epc' = "corrupt" /\ UNCHANGED <<awaiting, delivered, first, encodedDataBuffer>>
    BY <1>1 DEF DeliverData
  <2> QED BY <1>c, <1>u, <2>1
          DEF ClientInv, IdleInv, CleanInv, CleanJoinStartsAtIdr, DataAnnounced
<1>2. CASE encodedDataBuffer # <<>>
  <2> DEFINE f == encodedDataBuffer[1]
  <2>1. /\ f \in Frames /\ awaiting' = FALSE /\ epc' = "idle"
        /\ first' = [c \in Clients |->
                        IF c \in clients /\ first[c] = 0 THEN f ELSE first[c]]
    BY <1>2, Taken DEF DeliverData, AfterGetting, GapInv, TypeOK
  <2>2. clients \subseteq Clients /\ f # 0
    BY <2>1, IdrFrames DEF GapInv, TypeOK
  <2>3. \A c \in clients : first'[c] = IF first[c] = 0 THEN f ELSE first[c]
    BY <2>1, <2>2
  <2>4. CleanInv'
    BY <1>u, <2>2, <2>3 DEF CleanInv
  <2>5. CleanJoinStartsAtIdr'
    <3> SUFFICES ASSUME NEW c \in clean \cap clients PROVE first'[c] \in Idr \cup {0}
      BY <1>u DEF CleanJoinStartsAtIdr
    <3>1. first[c] = 0 => f \in Idr
      BY <1>2 DEF ClientInv, CleanInv
    <3> QED BY <3>1, <2>3 DEF ClientInv, CleanJoinStartsAtIdr
  <2> QED BY <1>c, <1>u, <2>1, <2>4, <2>5 DEF ClientInv, IdleInv, DataAnnounced
<1> QED BY <1>1, <1>2

LEMMA ClientJoin ==
    ASSUME GapInv, ClientInv, NEW c \in Clients, Join(c)
    PROVE  ClientInv'
<1>t. first \in [Clients -> Frames \cup {0}]
  BY DEF GapInv, TypeOK
<1>u. /\ epc = "idle" /\ c \notin clients /\ clients' = clients \cup {c}
      /\ UNCHANGED <<awaiting, waitForIdr_, encodedDataBuffer, trigger, tpc, data, epc>>
  BY DEF Join, transcoderVars
<1>f. first'[c] = 0 /\ \A d \in Clients : d # c => first'[d] = first[d]
  BY <1>t DEF Join
<1>m. \A d \in clean' \cap clients' : d # c => d \in clean \cap clients
  BY <1>u DEF Join
<1>n. c \in clean' => clients = {} /\ encodedDataBuffer = <<>> /\ tpc = "idle"
  BY DEF Join
<1>s. clients' \subseteq Clients
  BY <1>u DEF GapInv, TypeOK
<1>1. IdleInv'
  BY <1>u DEF ClientInv, IdleInv
<1>2. CleanInv'
  <2> SUFFICES ASSUME NEW d \in clean' \cap clients', first'[d] = 0
               PROVE  IF encodedDataBuffer # <<>> THEN encodedDataBuffer[1] \in Idr
                      ELSE IF tpc = "push" THEN data \in Idr ELSE waitForIdr_
    BY <1>u DEF CleanInv
  <2>1. CASE d = c
    <3>1. clients = {} /\ encodedDataBuffer = <<>> /\ tpc = "idle"
      BY <2>1, <1>n
    <3>2. waitForIdr_
      BY <3>1, <1>u DEF ClientInv, IdleInv
    <3> QED BY <3>1, <3>2
  <2>2. CASE d # c
    <3>1. d \in clean \cap clients /\ first[d] = 0
      BY <2>2, <1>m, <1>f, <1>s
    <3> QED BY <3>1 DEF ClientInv, CleanInv
  <2> QED BY <2>1, <2>2
<1>3. CleanJoinStartsAtIdr'
  <2> SUFFICES ASSUME NEW d \in clean' \cap clients' PROVE first'[d] \in Idr \cup {0}
    BY DEF CleanJoinStartsAtIdr
  <2>1. CASE d = c
    BY <2>1, <1>f
  <2>2. CASE d # c
    BY <2>2, <1>m, <1>f, <1>s DEF ClientInv, CleanJoinStartsAtIdr
  <2> QED BY <2>1, <2>2
<1>4. DataAnnounced'
  BY <1>u DEF ClientInv, DataAnnounced
<1> QED BY <1>1, <1>2, <1>3, <1>4 DEF ClientInv

LEMMA ClientStep == ASSUME GapInv, ClientInv, [Next]_vars PROVE ClientInv'
<1> USE DEF transcoderVars, replicatorVars
<1>b. waitForIdr_ \in BOOLEAN
  BY DEF GapInv, TypeOK
<1>1. CASE OnEncodedData
  BY <1>1 DEF OnEncodedData, ClientInv, IdleInv, CleanInv, CleanJoinStartsAtIdr, DataAnnounced
<1>2. CASE Drop
  BY <1>2 DEF Drop, ClientInv, IdleInv, CleanInv, CleanJoinStartsAtIdr, DataAnnounced
<1>3. CASE Gate
  <2>1. IdleInv'
    BY <1>3 DEF Gate, ClientInv, IdleInv
  <2>2. CleanInv'
    BY <1>3, <1>b DEF Gate, ClientInv, CleanInv
  <2> QED BY <1>3, <2>1, <2>2 DEF Gate, ClientInv, CleanJoinStartsAtIdr, DataAnnounced
<1>4. CASE OpenGate
  <2>1. data \in Idr
    BY <1>4 DEF OpenGate, GapInv, GateInv
  <2> QED BY <1>4, <2>1 DEF OpenGate, ClientInv, IdleInv, CleanInv,
                            CleanJoinStartsAtIdr, DataAnnounced
<1>5. CASE Push
  BY <1>5, ClientPush
<1>6. CASE TriggerEvent
  BY <1>6 DEF TriggerEvent, ClientInv, IdleInv, CleanInv, CleanJoinStartsAtIdr, DataAnnounced
<1>7. CASE FireTrigger \/ DeliverFrame0 \/ GetNextFrame \/ DoGetNextFrame
  <2>1. IdleInv'
    BY <1>7 DEF FireTrigger, DeliverFrame0, GetNextFrame, DoGetNextFrame, ClientInv, IdleInv
  <2>2. CleanInv' /\ CleanJoinStartsAtIdr'
    BY <1>7 DEF FireTrigger, DeliverFrame0, GetNextFrame, DoGetNextFrame, ClientInv,
                CleanInv, CleanJoinStartsAtIdr
  <2>3. DataAnnounced'
    BY <1>7 DEF FireTrigger, DeliverFrame0, GetNextFrame, DoGetNextFrame, ClientInv,
                DataAnnounced
  <2> QED BY <2>1, <2>2, <2>3 DEF ClientInv
<1>8. CASE DeliverData
  BY <1>8, ClientDeliver
<1>9. CASE DoStopGettingFrames
  BY <1>9 DEF DoStopGettingFrames, ClientInv, IdleInv, CleanInv, CleanJoinStartsAtIdr,
              DataAnnounced
<1>10. ASSUME NEW c \in Clients, Join(c) PROVE ClientInv'
  BY <1>10, ClientJoin
<1>11. ASSUME NEW c \in Clients, Leave(c) PROVE ClientInv'
  BY <1>11 DEF Leave, ClientInv, IdleInv, CleanInv, CleanJoinStartsAtIdr, DataAnnounced
<1>12. CASE UNCHANGED vars
  BY <1>12 DEF vars, ClientInv, IdleInv, CleanInv, CleanJoinStartsAtIdr, DataAnnounced
<1> QED BY <1>1, <1>2, <1>3, <1>4, <1>5, <1>6, <1>7, <1>8, <1>9, <1>10, <1>11, <1>12
        DEF Next, TranscoderStep, EventLoopStep, Corrupt

LEMMA ClientInvariant == Spec => []ClientInv
  BY InitClientInv, ClientStep, GapInvariant, PTL DEF Spec

(* CamFramedSource.cc 83, 91-95, 124-132: whatever the two threads do, a   *)
(* buffered frame the reader waits for is announced by a trigger that is   *)
(* pending or about to be set.                                             *)
THEOREM NoFrameIsStranded == Spec => []DataAnnounced
<1>1. ClientInv => DataAnnounced
  BY DEF ClientInv
<1> QED BY <1>1, ClientInvariant, PTL

(* CamFramedSource.cc 65-79, 134-138 and README.md 274-276: a client that  *)
(* starts an idle and empty source is given an IDR first, whoever joins or *)
(* leaves in the meantime.                                                 *)
THEOREM CleanStartIsIdr == Spec => []CleanJoinStartsAtIdr
<1>1. ClientInv => CleanJoinStartsAtIdr
  BY DEF ClientInv
<1> QED BY <1>1, ClientInvariant, PTL
=============================================================================
