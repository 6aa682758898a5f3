----------------------------- MODULE MCAdaptive -----------------------------
EXTENDS AdaptiveController

\* A 1080p60 display with the High preset, an ultrawide one with a limit of the
\* user's above the preset, and two sessions with adaptation disabled, one of
\* them on a slow link.  No rung fits the others: a small window of the portal's
\* with a limit above the preset, a 24 fps display with a low limit, adaptation
\* on and off, and a small window without adaptation.
Picture(width, height, fps, kbps, limit, enabled) ==
  [width |-> width, height |-> height, fps |-> fps, kbps |-> kbps, cap |-> limit,
   enabled |-> enabled]

MCSettings ==
  {Picture(1920, 1080, 60, 12000, 12000, TRUE),
   Picture(1920, 800, 30, 5000, 8000, TRUE),
   Picture(1920, 1080, 60, 8000, 8000, FALSE), Picture(1280, 720, 60, 1500, 1500, FALSE),
   Picture(640, 480, 60, 5000, 12000, TRUE), Picture(1920, 1080, 24, 3000, 3000, TRUE),
   Picture(1920, 1080, 24, 3000, 3000, FALSE), Picture(640, 480, 60, 8000, 8000, FALSE)}

Fine ==
  [loss |-> 0, nacks |-> 0, pli |-> FALSE, sampled |-> TRUE, rtt |-> "short",
   rises |-> FALSE, jitter |-> "low"]

\* One window for each way of being judged.
MCWindows ==
  {Fine,
   [Fine EXCEPT !.nacks = 5, !.rtt = "medium"],             \* retransmissions work
   [Fine EXCEPT !.rises = TRUE, !.rtt = "medium"],          \* a queue may be filling
   [Fine EXCEPT !.loss = 20, !.nacks = 5, !.jitter = "high"],  \* reordering
   [Fine EXCEPT !.loss = 80],                               \* sustained loss
   [Fine EXCEPT !.pli = TRUE, !.sampled = FALSE],           \* a picture was lost
   [Fine EXCEPT !.loss = 200, !.nacks = 60]}                \* severe congestion
=============================================================================
