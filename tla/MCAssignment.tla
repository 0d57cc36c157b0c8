---------------------------- MODULE MCAssignment ----------------------------
EXTENDS Assignment

MCShapes == {<<1, 2>>, <<2, 2>>, <<2, 3>>, <<3, 2>>, <<3, 3>>}

\* Fewer costs in larger matrices; 12 is above the limit of 8.
MCCosts(s) == CASE s = <<3, 3>> -> {0, 4}
                [] s = <<2, 3>> -> {-1, 0, 4, 12}
                [] s = <<3, 2>> -> {0, 1, 8, 12}
                [] OTHER -> {-1, 0, 4, 8, 12, NaN}
=============================================================================
