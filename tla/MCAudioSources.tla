---------------------------- MODULE MCAudioSources ----------------------------
EXTENDS AudioSources, TLC

\* Time enough for the stamps, or events enough for the control.
TimeOrEvents ==
  {[now |-> 1, reconnects |-> MaxReconnects, unplugs |-> MaxUnplugs, refusals |-> MaxRefusals,
    user |-> "away"],
   [now |-> MaxNow, reconnects |-> 0, unplugs |-> 0, refusals |-> 0,
    user |-> "idle"]}

\* Packets read up to two frames late, or before they play.
MixedAges == {-4, 0, 2}
AheadAges == {0, 2}

\* A view in which the clock does not matter: times count from now, and what lies
\* far back is alike.
Past(time) == IF now - time > 12 THEN 12 ELSE now - time
FromNow ==
  <<Past(rendered), pending, IF startTs = None THEN None ELSE Past(startTs), Past(wake),
    [e \in Sources |-> IF offer[e] = None THEN None ELSE Past(offer[e])], muted, streaming,
    Past(lastEmit), Past(lastSend), control, capturer, pc, back, speakers, outside>>
=============================================================================
