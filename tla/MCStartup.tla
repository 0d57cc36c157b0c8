------------------------------ MODULE MCStartup ------------------------------
(* Small instance of Startup: files with three streams whose values are below,  *)
(* within and above the clamps and that choose a tracker in each way, and every *)
(* file that has up to three of a set of awkward lines after a first stream.    *)
EXTENDS Startup

Row(kind, indented, text, value, raw) ==
    [kind |-> kind, indented |-> indented, text |-> text, value |-> value, raw |-> raw]

Section(name) == Row("section", FALSE, name, "", "[ ]")

Pair(name, value) == Row("pair", FALSE, name, value, "a=b")

Indent(line) == [line EXCEPT !.indented = TRUE]

MCstrtol(text) ==
    CASE text = "0" -> {0} [] text = "1" -> {1} [] text = "2" -> {2} [] text = "3" -> {3}
      [] text = "9" -> {9} [] OTHER -> {}

Stream(name, threads, buffers, enable, type) ==
    <<Section(name), Pair("device", "/dev/video"), Pair("rknn_thread", threads),
      Pair("dma_buffers", buffers), Pair("tracker_enable", enable), Pair("tracker_type", type)>>

Tracker(n) ==
    CASE n = 1 -> <<"0", "1", "true", "bytetrack">> [] n = 2 -> <<"2", "3", "on", "deepsort">>
      [] n = 3 -> <<"9", "2", "no", "deepsort">> [] OTHER -> <<"1", "2", "1", "off">>

ThreeStreams(a, b, c) ==
    LET S(name, n) == Stream(name, Tracker(n)[1], Tracker(n)[2], Tracker(n)[3], Tracker(n)[4])
    IN S("video1", b) \o S("video0", a) \o S("video7", c)

Awkward ==
    {Section("video1"), Indent(Section("video1")), Pair("device", "/dev/video"), Pair("device", ""),
     Indent(Pair("device", "/dev/video")), Pair("rknn_thread", "2"), Indent(Row("junk", FALSE, "", "", "1")),
     Row("junk", FALSE, "", "", "[video1"), Row("blank", TRUE, "", "", "")}

MCFiles ==
    {ThreeStreams(a, b, c) : a, b, c \in 1 .. 4}
    \cup {<<Section("rknn"), Pair("rknn_thread", "9"), Section("video0")>> \o awkward :
             awkward \in UNION {[1 .. n -> Awkward] : n \in 0 .. 3}}
==============================================================================
