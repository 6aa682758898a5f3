------------------------- MODULE MCDisplayCapture -------------------------
EXTENDS DisplayCapture

AllModes == {"monitor", "crop", "wgc"}
MonitorOnly == {"monitor"}
ShortAndLong == {2, 4}
OneInterval == {2}
LoopGaps == {1, 9}

\* Shorter than the pacer's floor of 2, long enough to fall behind the cadence
\* and catch up, and long enough to start it anew.
HurriedGaps == {1, 4, 13}
FewAges == {0, 2}
=============================================================================
