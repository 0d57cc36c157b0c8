----------------------------- MODULE MCDetection -----------------------------
EXTENDS Detection

\* Boxes in a model picture of 16 x 16; the camera has 8 x 8 pixels.  BoxB
\* overlaps BoxA and BoxC, which do not overlap each other; BoxThin is one
\* pixel high for the camera, BoxDot has no area, BoxEdge leaves the picture.
Box(x, y, w, h) == [x |-> x, y |-> y, w |-> w, h |-> h]
BoxA == Box(0, 0, 8, 8)
BoxB == Box(2, 0, 8, 8)
BoxC == Box(4, 0, 8, 8)
BoxThin == Box(10, 13, 6, 2)
BoxDot == Box(10, 10, 1, 1)
BoxEdge == Box(13, 9, 8, 3)

Cell(conf, p1, p2, box) == [conf |-> conf, probs |-> <<p1, p2>>, box |-> box]

\* With zp = -3 and a threshold of 5 the quantised threshold is 2.
CellsOfMC == {Cell(2, 9, 0, BoxA), Cell(6, 0, 9, BoxB), Cell(6, 4, 1, BoxB), Cell(4, 0, 5, BoxC),
              Cell(5, 3, 3, BoxThin), Cell(3, 6, 0, BoxDot), Cell(1, 9, 9, BoxA), Cell(7, 2, 2, BoxC)}

FourApart == {Cell(2, 9, 0, BoxA), Cell(4, 0, 5, BoxC), Cell(5, 3, 3, BoxThin), Cell(3, 0, 9, BoxEdge)}

HeadOf(cells) == [zp |-> -3, scale |-> 1, cells |-> cells]
HeadsOf(s) == CASE Len(s) = 0 -> <<HeadOf(<<>>), HeadOf(<<>>), HeadOf(<<>>)>>
                [] Len(s) = 1 -> <<HeadOf(<<>>), HeadOf(<<>>), HeadOf(s)>>
                [] OTHER -> <<HeadOf(SubSeq(s, 1, Len(s) - 2)), HeadOf(<<s[Len(s) - 1]>>),
                              HeadOf(<<s[Len(s)]>>)>>

Single == <<Cell(4, 0, 5, BoxC)>>
\* Any three cells beside an empty frame, four distant boxes in any order, and
\* two frames with one box each.
MCInputs == {<<HeadsOf(s), HeadsOf(<<>>)>> : s \in [1 .. 3 -> CellsOfMC]}
              \union {<<HeadsOf(s), HeadsOf(<<>>)>> : s \in
                        {t \in [1 .. 4 -> FourApart] : \A i, k \in 1 .. 4 : i # k => t[i] # t[k]}}
              \union {<<HeadsOf(<<c>>), HeadsOf(Single)>> : c \in CellsOfMC}

MCPads == [left |-> 0, top |-> 0]
MCScale == <<2, 1>>
=============================================================================
