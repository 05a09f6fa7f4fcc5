--------------------------- MODULE MCProjectCache ---------------------------
(* ProjectCache on three names of one file, the first of them preloaded,   *)
(* and a refused name; or on two files with a name each.                   *)
EXTENDS ProjectCache

CONSTANTS k1, k2, k3, k4, f1, f2

AllFiles == {f1, f2}

FourKeys == {k1, k2, k3, k4}
NamesOfOne == [k \in FourKeys |-> IF k = k4 THEN f2 ELSE f1]
FourthIsRefused == {k4}

TwoKeys == {k1, k2}
OneNameEach == [k \in TwoKeys |-> IF k = k1 THEN f1 ELSE f2]

PreloadFirst == <<k1>>
SecondIsBad == {2}
=============================================================================
