-------------------------------- MODULE MCMedia --------------------------------
\* MediaFiles for TLC: the cfg files give the bounds and the faults.
EXTENDS MediaFiles, Functions

CONSTANT MaxPieces     \* bound on the pieces that all streams together receive

AtMostMaxPieces == FoldFunction(+, 0, received) <= MaxPieces
===============================================================================
