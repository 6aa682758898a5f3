------------------------- MODULE DisplaySourcesProofs -------------------------
(***************************************************************************)
(* The capturers under the session, for every desktop, source and course   *)
(* of the screen: nothing captures once a Stop is complete, a window that  *)
(* closed ends the cast, and what XDamage lets the X11 thread skip has     *)
(* reached the encoder.                                                    *)
(***************************************************************************)
EXTENDS DisplaySources, TLAPS

\* Where a thread of the session may be, and what its calls return to.
Places ==
  {"size", "portal", "spawn", "probe", "media", "capture", "listen", "started", "streaming",
   "failed", "stop", "pipeline", "display", "displayJoin", "join", "idle", "wait", "work", "ended"}
Backs == {"ended", "failed", "media", "wait"}

\* Inside StopMediaPipeline, past its lock; and between the lock and the end of
\* StartStreamingMedia.
Dropping == {"display", "displayJoin", "join"}
Building == {"capture", "listen", "started"}

PlacesOK == pc \in [Threads -> Places] /\ after \in [Threads -> Backs]

FramesOK ==
  /\ slot \in Frame \cup {None} /\ work \in Frame \cup {None}
  /\ grabbed \in Frame \cup {None} /\ offered \in Frame \cup {None} /\ encoded \in Frame \cup {None}
  /\ screen \in Nat

FlagsOK ==
  /\ streaming \in BOOLEAN /\ stop \in BOOLEAN /\ frozen \in BOOLEAN
  /\ running \in BOOLEAN /\ crashed \in BOOLEAN
  /\ owner \in Threads \cup {None}
  /\ encoder \in {"none", "joinable", "detached"} /\ thread \in {"none", "joinable"}
  /\ callback \in {"none", "queue", "probe"}

SourceOK ==
  /\ backend \in {"x11", "portal", "synthetic", None}
  /\ undamaged \in Nat /\ setup \in Setups

FlowTypeOK == PlacesOK /\ FramesOK /\ FlagsOK /\ SourceOK

\* Who drops or builds holds pipeline_mutex_, and only the portal is asked for.
Locked ==
  /\ \A t \in Threads : pc[t] \in Dropping => owner = t
  /\ pc["starter"] \in Building => owner = "starter"
  /\ pc["starter"] \in {"portal", "spawn", "probe"} => backend = "portal"

\* Until Start has made the portal's capturer to find the size, the session has
\* nothing else.
Early ==
  backend = "portal" /\ (pc["starter"] = "size" \/ (pc["starter"] \in {"portal", "spawn"} /\ owner # "starter"))
    => /\ pc["stopper"] = "idle" /\ pc["encoder"] = "ended"
       /\ ~running /\ at = "off" /\ ~stop

\* A capturer that was told to stop has ended or is waited for; and while one
\* runs, or is about to, in a session that was asked to stop, somebody is on the
\* way to tell it.
Told == \A t \in Threads : pc[t] \in {"displayJoin", "join"} => ~running
AwaitsEnd ==
  /\ ~running => (at \in {"off", "ended"} /\ grabbed = None) \/ \E t \in Threads : pc[t] = "displayJoin"
  /\ at = "leave" => grabbed = None
Chased ==
  stop /\ (running \/ pc["starter"] \in {"capture", "listen", "portal", "spawn"})
    => \E t \in Threads : pc[t] \in {"pipeline", "display"}

\* What is being dropped streams no more; and but for the probed one no capturer
\* runs before it is started.
NoStream == \A t \in Threads : pc[t] \in Dropping => ~streaming
Rests ==
  /\ backend # "portal" /\ pc["starter"] \in {"size", "media", "failed", "capture", "listen"}
       => ~running
  /\ pc["starter"] = "stop" => after["starter"] = "ended"

\* A Stop that comes while the portal is asked breaks this (see the README).
Timely == ~EarlyStops \/ backend = "x11"

FlowInv ==
  /\ FlowTypeOK /\ Locked /\ NoStream
  /\ Timely => Early /\ Told /\ AwaitsEnd /\ Chased /\ Rests

\* A frame that reports a loss comes from a window.
Reports(f) == f # None /\ f.lost
LossOfWindow == at = "lost" \/ Reports(slot) \/ Reports(work) \/ Reports(grabbed) => WindowMode

\* The thread of a capturer has a frame when it is to deliver one, and so has
\* the encode thread when it works.
InHand == (at = "emit" => grabbed # None) /\ (pc["encoder"] = "work" => work # None)

FrozenSetup == frozen => setup \in Freezes

\* A monitor's connection has no events but those of its damage object.
DamageEvents == ~WindowMode => queue \in Seq({<<"damage">>})

FrameInv == LossOfWindow /\ InHand /\ FrozenSetup /\ DamageEvents

\* Once the X11 thread has reported the loss of its window the report is on its
\* way to the encode thread, or that thread is about to stop the session.
LossReported ==
  backend = "x11" /\ streaming /\ ~stop /\ pc["starter"] \in {"started", "streaming"}
    /\ at \in {"leave", "ended"}
    => \/ Reports(slot)
       \/ pc["encoder"] = "work" /\ work.lost
       \/ pc["encoder"] = "stop"

\* The newest frame the session has.
Newest == IF slot # None THEN slot ELSE IF pc["encoder"] = "work" THEN work ELSE offered

Skips == backend = "x11" /\ ~WindowMode /\ setup.damage

\* A damaged monitor sends an event unless one is waiting; and without one
\* waiting the last picture grabbed is the newest, and so is the last one that
\* was offered to the encoder before passes are skipped.
Restarted == pc["starter"] = "listen" => undamaged = 0
Hears == pc["starter"] = "listen" \/ at \notin {"off", "ended"} => armed \/ Damaged
GrabIsNewest == at = "emit" /\ ~Damaged => grabbed.content = screen
OfferedIsNewest ==
  streaming /\ ~stop /\ at \in {"top", "damage"} /\ undamaged > 0 /\ ~Damaged
    => Newest # None /\ Newest.content = screen

Watching == Skips => Restarted /\ Hears /\ GrabIsNewest /\ OfferedIsNewest

\* The steps that only start, stop or probe a capturer.
Steers ==
  \/ StartMonitor \/ StartWindow \/ X11Refused \/ X11Spawn
  \/ Size \/ PortalOpen \/ RequestPortalSession \/ PortalSpawn \/ Probed
  \/ SyntheticStart \/ AlreadyRuns
  \/ \E t \in Threads : X11Stop(t) \/ PortalStop(t) \/ SyntheticStop(t)

-----------------------------------------------------------------------------
(* Types.                                                                    *)

LEMMA TypesSuffice == FlowTypeOK => FeedTypeOK
BY DEF FlowTypeOK, FramesOK, FlagsOK, FeedTypeOK

LEMMA GotoPlaces ==
  ASSUME PlacesOK, NEW t \in Threads, NEW l \in Places, Goto(t, l)
  PROVE  PlacesOK'
BY DEF PlacesOK, Goto

LEMMA CallPlaces ==
  ASSUME PlacesOK, NEW t \in Threads, NEW l \in Places, NEW b \in Backs, Call(t, l, b)
  PROVE  PlacesOK'
BY DEF PlacesOK, Call

LEMMA ReturnedPlaces ==
  ASSUME PlacesOK, NEW t \in Threads, Returned(t)
  PROVE  PlacesOK'
<1>1. after[t] \in Places
  BY DEF PlacesOK, Backs, Places
<1> QED
  BY <1>1 DEF PlacesOK, Returned

\* Which threads take which step.
LEMMA Actors == "starter" \in Threads /\ "stopper" \in Threads /\ "encoder" \in Threads
BY DEF Threads

LEMMA PlacesNext ==
  ASSUME PlacesOK, [Next]_vars
  PROVE  PlacesOK'
<1> USE Actors, GotoPlaces, CallPlaces, ReturnedPlaces
<1>0. CASE UNCHANGED <<pc, after>>
  BY <1>0 DEF PlacesOK
<1>1. ASSUME TakeFrame PROVE PlacesOK'
  BY <1>1 DEF TakeFrame, Places
<1>2. ASSUME ProcessVideoFrame PROVE PlacesOK'
  BY <1>2 DEF ProcessVideoFrame, Places, Backs
<1>3. ASSUME StartStreamingMedia PROVE PlacesOK'
  <2>1. CASE Call("starter", "stop", "ended") \/ Call("starter", "pipeline", "failed")
    BY <2>1 DEF Places, Backs
  <2>2. CASE pc' = [pc EXCEPT !["encoder"] = "wait", !["starter"] = "capture"] /\ UNCHANGED after
    BY <2>2 DEF PlacesOK, Places
  <2> QED
    BY <1>3, <2>1, <2>2 DEF StartStreamingMedia
<1>4. ASSUME Started \/ AdaptationEnds PROVE PlacesOK'
  BY <1>4 DEF Started, AdaptationEnds, Places
<1>5. ASSUME NEW t \in Threads, Stop(t) \/ StopMediaPipeline(t) \/ JoinEncoder(t) PROVE PlacesOK'
  BY <1>5 DEF Stop, StopMediaPipeline, JoinEncoder, Places
<1>6. ASSUME StartFailed(reconnects > 0 /\ ~stop) \/ UserStops \/ Reconnect PROVE PlacesOK'
  BY <1>6 DEF StartFailed, UserStops, Reconnect, Places, Backs
<1>7. CASE Session
  BY <1>0, <1>1, <1>2, <1>3, <1>4, <1>5, <1>6, <1>7 DEF Session, FeedNext, SetFreezeStream
<1>8. CASE ConnectionLost
  BY <1>6, <1>8 DEF ConnectionLost
<1>9. CASE X11
  <2>1. ASSUME Opens \/ X11Spawn PROVE PlacesOK'
    BY <2>1 DEF Opens, X11Spawn, Places
  <2>2. ASSUME X11Refused PROVE PlacesOK'
    BY <2>2 DEF X11Refused, Places, Backs
  <2>3. ASSUME NEW t \in Threads, X11Stop(t) PROVE PlacesOK'
    BY <2>3 DEF X11Stop, Places
  <2>4. ASSUME CaptureLoop \/ Configure \/ Close \/ Unplug \/ Draw PROVE UNCHANGED <<pc, after>>
    BY <2>4 DEF CaptureLoop, Top, PollDamage, Grab, Lost, Emit, Leave, Configure, Close, Unplug, Draw, feedVars
  <2> QED
    BY <1>0, <1>9, <2>1, <2>2, <2>3, <2>4 DEF X11, StartMonitor, StartWindow
<1>10. CASE Portal
  <2>1. ASSUME Size PROVE PlacesOK'
    BY <2>1 DEF Size, Places
  <2>2. ASSUME RequestPortalSession PROVE PlacesOK'
    BY <2>2 DEF RequestPortalSession, Refused, Places, Backs
  <2>3. ASSUME PortalOpen \/ PortalSpawn PROVE PlacesOK'
    BY <2>3 DEF PortalOpen, PortalSpawn, Places
  <2>4. ASSUME Probed PROVE PlacesOK'
    BY <2>4 DEF Probed, Places, Backs
  <2>5. ASSUME NEW t \in Threads, PortalStop(t) PROVE PlacesOK'
    BY <2>5 DEF PortalStop, Places
  <2>6. ASSUME StreamLoop \/ Compose PROVE UNCHANGED <<pc, after>>
    BY <2>6 DEF StreamLoop, MakeLoop, Connect, Process, Deliver, LoopEnds, Compose, feedVars
  <2> QED
    BY <1>0, <1>10, <2>1, <2>2, <2>3, <2>4, <2>5, <2>6 DEF Portal
<1>11. CASE Synthetic
  <2>1. ASSUME NEW t \in Threads, SyntheticStop(t) PROVE PlacesOK'
    BY <2>1 DEF SyntheticStop, Places
  <2>2. ASSUME SyntheticStart PROVE PlacesOK'
    BY <2>2 DEF SyntheticStart, Places
  <2> QED
    BY <1>0, <1>11, <2>1, <2>2 DEF Synthetic, SyntheticLoop, Substitute, feedVars
<1>12. ASSUME NEW t \in Threads, AlreadyRuns \/ DisplayJoined(t) PROVE PlacesOK'
  BY <1>12 DEF AlreadyRuns, DisplayJoined, Places
<1>13. CASE Destroy \/ UNCHANGED vars
  BY <1>0, <1>13 DEF Destroy, vars, feedVars
<1> QED
  BY <1>7, <1>8, <1>9, <1>10, <1>11, <1>12, <1>13 DEF Next

\* What each kind of step leaves alone.
LEMMA CaptureLoopKeeps ==
  ASSUME CaptureLoop \/ StreamLoop
  PROVE  /\ UNCHANGED <<streaming, stop, frozen, owner, work, encoder, offered, encoded, pc, after, callback>>
         /\ UNCHANGED <<thread, backend, screen, testing, crashed>>
BY DEF CaptureLoop, Top, PollDamage, Grab, Lost, Emit, Leave, StreamLoop, MakeLoop, Connect, Process,
       Deliver, LoopEnds, feedVars, feedData, outside, x11Vars

LEMMA WorldKeeps ==
  ASSUME Configure \/ Close \/ Unplug \/ Draw \/ Compose
  PROVE  UNCHANGED <<feedVars, captureVars, backend, testing, crashed>>
BY DEF Configure, Close, Unplug, Draw, Compose, outside

LEMMA SessionKeeps ==
  ASSUME Session \/ ConnectionLost
  PROVE  UNCHANGED <<captureVars, outside, x11Vars>>
BY DEF Session, ConnectionLost, rest

LEMMA OwnFrame ==
  ASSUME FramesOK, NEW data \in {"own", "lent", "mislabelled", "pattern"}, NEW lost \in BOOLEAN
  PROVE  [content |-> screen, lost |-> lost, data |-> data] \in Frame
BY DEF FramesOK, Frame

LEMMA FramesNext ==
  ASSUME FramesOK, [Next]_vars
  PROVE  FramesOK'
<1>0. CASE UNCHANGED <<slot, work, grabbed, offered, encoded, screen>>
  BY <1>0 DEF FramesOK
<1>1. CASE Session
  <2> SUFFICES ASSUME FeedNext \/ StartFailed(reconnects > 0 /\ ~stop) \/ UserStops \/ SetFreezeStream,
                      UNCHANGED <<grabbed, screen>>
               PROVE  FramesOK'
    BY <1>1 DEF Session, captureVars, outside
  <2>1. CASE TakeFrame \/ ProcessVideoFrame
    BY <2>1 DEF TakeFrame, ProcessVideoFrame, Offer, FramesOK
  <2>2. CASE StartStreamingMedia \/ Started \/ AdaptationEnds
    BY <2>2, <1>0 DEF StartStreamingMedia, Started, AdaptationEnds, feedData
  <2>3. ASSUME NEW t \in Threads, Stop(t) \/ StopMediaPipeline(t) \/ JoinEncoder(t) PROVE FramesOK'
    BY <2>3 DEF Stop, StopMediaPipeline, JoinEncoder, FramesOK
  <2> QED
    BY <2>1, <2>2, <2>3, <1>0 DEF FeedNext, StartFailed, UserStops, SetFreezeStream, feedData
<1>2. CASE ConnectionLost
  BY <1>2, <1>0 DEF ConnectionLost, Reconnect, feedData, captureVars, outside
<1>3. CASE X11
  <2>1. CASE Top \/ PollDamage \/ Leave
    BY <2>1, <1>0 DEF Top, PollDamage, Leave, feedVars, feedData, outside
  <2>2. CASE Grab \/ Lost
    BY <2>2, OwnFrame DEF Grab, Lost, FramesOK, feedVars, feedData, outside
  <2>3. CASE Emit
    BY <2>3 DEF Emit, QueueCapturedVideoFrame, FramesOK, outside
  <2>4. CASE Draw
    BY <2>4 DEF Draw, FramesOK, feedVars, feedData, captureVars
  <2>5. CASE Configure \/ Close \/ Unplug
    BY <2>5, <1>0 DEF Configure, Close, Unplug, feedVars, feedData, captureVars, outside
  <2>6. CASE StartMonitor \/ StartWindow \/ X11Refused \/ X11Spawn \/ \E t \in Threads : X11Stop(t)
    BY <2>6, <1>0 DEF StartMonitor, StartWindow, Opens, X11Refused, X11Spawn, X11Stop, feedData, captureVars, outside
  <2> QED
    BY <1>3, <2>1, <2>2, <2>3, <2>4, <2>5, <2>6 DEF X11, CaptureLoop
<1>4. CASE Portal
  <2>1. CASE MakeLoop \/ Connect \/ LoopEnds
    BY <2>1, <1>0 DEF MakeLoop, Connect, LoopEnds, feedVars, feedData, outside
  <2>2. CASE Process
    <3>1. ASSUME NEW b \in Buffers PROVE DataOf(b) \in {"own", "lent", "mislabelled", "pattern"}
      BY DEF DataOf
    <3> QED
      BY <2>2, <3>1, OwnFrame DEF Process, FramesOK, feedVars, feedData, outside
  <2>3. CASE Deliver
    BY <2>3 DEF Deliver, QueueCapturedVideoFrame, FramesOK, outside
  <2>4. CASE Compose
    BY <2>4 DEF Compose, FramesOK, feedVars, feedData, captureVars
  <2>5. CASE Size \/ PortalOpen \/ RequestPortalSession \/ PortalSpawn \/ Probed
    BY <2>5, <1>0 DEF Size, PortalOpen, RequestPortalSession, PortalSpawn, Probed, feedData, captureVars, outside
  <2>6. ASSUME NEW t \in Threads, PortalStop(t) PROVE FramesOK'
    BY <2>6, <1>0 DEF PortalStop, feedData, outside
  <2> QED
    BY <1>4, <2>1, <2>2, <2>3, <2>4, <2>5, <2>6 DEF Portal, StreamLoop
<1>5. CASE Synthetic
  <2>1. CASE SyntheticLoop
    <3>1. Pattern \in Frame
      BY DEF Pattern, Frame
    <3>2. UNCHANGED <<work, grabbed, offered, encoded, screen>>
      BY <2>1 DEF SyntheticLoop, outside
    <3>3. slot' \in {slot, Pattern}
      BY <2>1 DEF SyntheticLoop, QueueCapturedVideoFrame
    <3> QED
      BY <3>1, <3>2, <3>3 DEF FramesOK
  <2> QED
    BY <1>5, <2>1, <1>0 DEF Synthetic, SyntheticStart, SyntheticStop, Substitute, feedVars, feedData, captureVars, outside
<1>6. CASE AlreadyRuns \/ Destroy \/ \E t \in Threads : DisplayJoined(t)
  BY <1>6 DEF AlreadyRuns, Destroy, DisplayJoined, FramesOK, feedVars, feedData, captureVars, outside
<1> QED
  BY <1>0, <1>1, <1>2, <1>3, <1>4, <1>5, <1>6 DEF Next, vars, feedVars, feedData, captureVars, outside

LEMMA FlagsNext ==
  ASSUME FlagsOK, [Next]_vars
  PROVE  FlagsOK'
<1> USE DEF FlagsOK
<1>0. CASE UNCHANGED <<streaming, stop, frozen, running, crashed, owner, encoder, thread, callback>>
  BY <1>0
<1>1. CASE Session
  <2> SUFFICES ASSUME FeedNext \/ StartFailed(reconnects > 0 /\ ~stop) \/ UserStops \/ SetFreezeStream,
                      UNCHANGED <<running, crashed, thread>>
               PROVE  FlagsOK'
    BY <1>1 DEF Session, captureVars, outside
  <2>1. CASE TakeFrame \/ ProcessVideoFrame \/ AdaptationEnds
    BY <2>1 DEF TakeFrame, ProcessVideoFrame, AdaptationEnds, feedData
  <2>2. CASE StartStreamingMedia
    BY <2>2 DEF StartStreamingMedia, Threads
  <2>3. CASE Started
    BY <2>3 DEF Started
  <2>4. ASSUME NEW t \in Threads, Stop(t) \/ StopMediaPipeline(t) \/ JoinEncoder(t) PROVE FlagsOK'
    BY <2>4 DEF Stop, StopMediaPipeline, JoinEncoder
  <2>5. CASE SetFreezeStream
    BY <2>5 DEF SetFreezeStream
  <2> QED
    BY <2>1, <2>2, <2>3, <2>4, <2>5, <1>0 DEF FeedNext, StartFailed, UserStops, feedData
<1>2. CASE ConnectionLost
  BY <1>2, <1>0 DEF ConnectionLost, Reconnect, feedData, captureVars, outside
<1>3. ASSUME CaptureLoop \/ StreamLoop PROVE FlagsOK'
  <2>1. running' \in BOOLEAN
    BY <1>3 DEF CaptureLoop, Top, PollDamage, Grab, Lost, Emit, Leave, StreamLoop, MakeLoop, Connect, Process, Deliver, LoopEnds
  <2> QED
    BY <1>3, <2>1, CaptureLoopKeeps
<1>4. ASSUME Configure \/ Close \/ Unplug \/ Draw \/ Compose PROVE FlagsOK'
  BY <1>4, WorldKeeps DEF feedVars, feedData, captureVars
<1>5. CASE X11
  <2>1. CASE StartMonitor \/ StartWindow \/ X11Refused
    BY <2>1, <1>0 DEF StartMonitor, StartWindow, Opens, X11Refused, feedData, captureVars, outside
  <2>2. CASE X11Spawn
    BY <2>2 DEF X11Spawn, feedData
  <2>3. CASE \E t \in Threads : X11Stop(t)
    BY <2>3 DEF X11Stop, feedData, outside
  <2> QED
    BY <1>5, <1>3, <1>4, <2>1, <2>2, <2>3 DEF X11
<1>6. CASE Portal
  <2>1. CASE Size
    BY <2>1 DEF Size, captureVars, outside
  <2>2. CASE PortalOpen \/ RequestPortalSession \/ Probed
    BY <2>2, <1>0 DEF PortalOpen, RequestPortalSession, Probed, feedData, captureVars, outside
  <2>3. CASE PortalSpawn
    BY <2>3 DEF PortalSpawn, feedData
  <2>4. ASSUME NEW t \in Threads, PortalStop(t) PROVE FlagsOK'
    BY <2>4 DEF PortalStop, feedData, outside
  <2> QED
    BY <1>6, <1>3, <1>4, <2>1, <2>2, <2>3, <2>4 DEF Portal
<1>7. CASE Synthetic
  <2>1. CASE SyntheticStart
    BY <2>1 DEF SyntheticStart, feedData
  <2>2. ASSUME NEW t \in Threads, SyntheticStop(t) PROVE FlagsOK'
    BY <2>2 DEF SyntheticStop, feedData, outside
  <2>3. CASE SyntheticLoop \/ Substitute
    BY <2>3, <1>0 DEF SyntheticLoop, Substitute, feedVars, feedData, captureVars, outside
  <2> QED
    BY <1>7, <2>1, <2>2, <2>3 DEF Synthetic
<1>8. CASE AlreadyRuns \/ Destroy \/ \E t \in Threads : DisplayJoined(t)
  BY <1>8 DEF AlreadyRuns, Destroy, DisplayJoined, feedVars, feedData, captureVars, outside
<1> QED
  BY <1>0, <1>1, <1>2, <1>5, <1>6, <1>7, <1>8 DEF Next, vars, feedVars, feedData, captureVars, outside

LEMMA SourceNext ==
  ASSUME SourceOK, [Next]_vars
  PROVE  SourceOK'
<1> USE DEF SourceOK
<1>0. CASE UNCHANGED <<backend, undamaged, setup>>
  BY <1>0
<1>1. CASE Session \/ ConnectionLost
  BY <1>0, <1>1, SessionKeeps DEF outside, x11Vars
<1>2. CASE X11
  <2>1. CASE StartMonitor \/ StartWindow
    BY <2>1 DEF StartMonitor, StartWindow, Opens, SetupDamage, outside
  <2>2. CASE X11Refused \/ X11Spawn \/ \E t \in Threads : X11Stop(t)
    BY <2>2 DEF X11Refused, X11Spawn, X11Stop, outside, x11Vars
  <2>3. CASE CaptureLoop
    BY <2>3 DEF CaptureLoop, Top, PollDamage, Grab, Lost, Emit, Leave, outside, x11Vars
  <2>4. CASE Configure \/ Close \/ Unplug \/ Draw
    BY <2>4 DEF Configure, Close, Unplug, Draw, outside
  <2> QED
    BY <1>2, <2>1, <2>2, <2>3, <2>4 DEF X11
<1>3. CASE Portal
  BY <1>3, CaptureLoopKeeps, <1>0 DEF Portal, Size, PortalOpen, RequestPortalSession, PortalSpawn, Probed,
     PortalStop, Compose, outside, x11Vars
<1>4. CASE Synthetic
  BY <1>4 DEF Synthetic, SyntheticStart, SyntheticStop, SyntheticLoop, Substitute, outside, rest, x11Vars
<1>5. CASE AlreadyRuns \/ Destroy \/ \E t \in Threads : DisplayJoined(t)
  BY <1>5 DEF AlreadyRuns, Destroy, DisplayJoined, outside, rest, x11Vars
<1> QED
  BY <1>0, <1>1, <1>2, <1>3, <1>4, <1>5 DEF Next, vars, outside, rest, x11Vars

LEMMA TypesInit == Init => FlowTypeOK
<1> SUFFICES ASSUME Init PROVE FlowTypeOK
  OBVIOUS
<1>1. PlacesOK
  BY DEF Init, FeedInit, PlacesOK, Places, Backs
<1>2. FramesOK /\ FlagsOK
  BY DEF Init, FeedInit, FramesOK, FlagsOK
<1>3. SourceOK
  BY DEF Init, X11Init, Create, SourceOK
<1> QED
  BY <1>1, <1>2, <1>3 DEF FlowTypeOK

LEMMA TypesNext ==
  ASSUME FlowTypeOK, [Next]_vars
  PROVE  FlowTypeOK'
BY PlacesNext, FramesNext, FlagsNext, SourceNext DEF FlowTypeOK

-----------------------------------------------------------------------------
(* The lock.                                                                 *)

LEMMA GotoAt ==
  ASSUME PlacesOK, NEW t \in Threads, NEW l, Goto(t, l)
  PROVE  pc'[t] = l /\ after' = after /\ \A u \in Threads \ {t} : pc'[u] = pc[u]
BY DEF PlacesOK, Goto

LEMMA CallAt ==
  ASSUME PlacesOK, NEW t \in Threads, NEW l, NEW b, Call(t, l, b)
  PROVE  pc'[t] = l /\ after'[t] = b /\ \A u \in Threads \ {t} : pc'[u] = pc[u] /\ after'[u] = after[u]
BY DEF PlacesOK, Call

LEMMA ReturnedAt ==
  ASSUME PlacesOK, NEW t \in Threads, Returned(t)
  PROVE  pc'[t] = after[t] /\ pc'[t] \in Backs /\ after' = after /\ \A u \in Threads \ {t} : pc'[u] = pc[u]
BY DEF PlacesOK, Returned

LEMMA LockedNext ==
  ASSUME PlacesOK, Locked, [Next]_vars
  PROVE  Locked'
<1> USE Actors, GotoAt, CallAt, ReturnedAt
<1> USE DEF Dropping, Building, Locked
<1>0. CASE UNCHANGED <<pc, owner, backend>>
  BY <1>0
<1>1. CASE Session
  <2> SUFFICES ASSUME FeedNext \/ StartFailed(reconnects > 0 /\ ~stop) \/ UserStops \/ SetFreezeStream,
                      UNCHANGED backend
               PROVE  Locked'
    BY <1>1 DEF Session, outside
  <2>1. CASE TakeFrame
    BY <2>1 DEF TakeFrame
  <2>2. CASE ProcessVideoFrame
    BY <2>2 DEF ProcessVideoFrame
  <2>3. CASE StartStreamingMedia
    <3>1. owner = None /\ pc["starter"] = "media"
      BY <2>3 DEF StartStreamingMedia
    <3>2. \A t \in Threads : pc[t] \notin Dropping
      BY <3>1, FeedAssumption
    <3>3. pc'["starter"] \in {"stop", "pipeline"} \/ (owner' = "starter" /\ pc'["starter"] = "capture")
      BY <2>3 DEF StartStreamingMedia, PlacesOK
    <3>4. \A t \in Threads : pc'[t] \notin Dropping
      BY <2>3, <3>2 DEF StartStreamingMedia, PlacesOK
    <3> QED
      BY <3>3, <3>4
  <2>4. CASE Started
    BY <2>4 DEF Started
  <2>5. CASE AdaptationEnds
    BY <2>5 DEF AdaptationEnds, feedData
  <2>6. ASSUME NEW t \in Threads, Stop(t) PROVE Locked'
    BY <2>6 DEF Stop, Backs
  <2>7. ASSUME NEW t \in Threads, StopMediaPipeline(t) PROVE Locked'
    BY <2>7, FeedAssumption DEF StopMediaPipeline
  <2>8. ASSUME NEW t \in Threads, JoinEncoder(t) PROVE Locked'
    BY <2>8 DEF JoinEncoder, Backs
  <2>9. CASE StartFailed(reconnects > 0 /\ ~stop)
    BY <2>9 DEF StartFailed, feedData
  <2>10. CASE UserStops \/ SetFreezeStream
    BY <2>10, <1>0 DEF UserStops, SetFreezeStream, feedData
  <2> QED
    BY <2>1, <2>2, <2>3, <2>4, <2>5, <2>6, <2>7, <2>8, <2>9, <2>10 DEF FeedNext
<1>2. CASE ConnectionLost
  BY <1>2 DEF ConnectionLost, Reconnect, feedData, outside
<1>3. ASSUME CaptureLoop \/ StreamLoop \/ Configure \/ Close \/ Unplug \/ Draw \/ Compose PROVE Locked'
  BY <1>0, <1>3, CaptureLoopKeeps, WorldKeeps DEF feedVars, feedData
<1>4. CASE X11
  <2>1. CASE Opens
    BY <2>1 DEF Opens, feedData, outside
  <2>2. CASE X11Refused
    BY <2>2 DEF X11Refused, feedData, outside
  <2>3. CASE X11Spawn
    BY <2>3 DEF X11Spawn, feedData
  <2>4. ASSUME NEW t \in Threads, X11Stop(t) PROVE Locked'
    BY <2>4 DEF X11Stop, feedData, outside
  <2> QED
    BY <1>3, <1>4, <2>1, <2>2, <2>3, <2>4 DEF X11, StartMonitor, StartWindow
<1>5. CASE Portal
  <2>1. CASE Size
    BY <2>1 DEF Size, outside
  <2>2. CASE PortalOpen
    BY <2>2 DEF PortalOpen, feedData, outside
  <2>3. CASE RequestPortalSession
    BY <2>3 DEF RequestPortalSession, Refused, feedData, outside
  <2>4. CASE PortalSpawn
    BY <2>4 DEF PortalSpawn, Restarts, feedData
  <2>5. CASE Probed
    BY <2>5 DEF Probed, feedData, outside
  <2>6. ASSUME NEW t \in Threads, PortalStop(t) PROVE Locked'
    BY <2>6 DEF PortalStop, feedData, outside
  <2> QED
    BY <1>3, <1>5, <2>1, <2>2, <2>3, <2>4, <2>5, <2>6 DEF Portal
<1>6. CASE Synthetic
  <2>1. CASE SyntheticStart
    BY <2>1 DEF SyntheticStart, feedData
  <2>2. ASSUME NEW t \in Threads, SyntheticStop(t) PROVE Locked'
    BY <2>2 DEF SyntheticStop, feedData, outside
  <2>3. CASE SyntheticLoop
    BY <2>3, <1>0 DEF SyntheticLoop, outside
  <2>4. CASE Substitute
    BY <2>4 DEF Substitute, feedVars, feedData
  <2> QED
    BY <1>6, <2>1, <2>2, <2>3, <2>4 DEF Synthetic
<1>7. CASE AlreadyRuns
  BY <1>7 DEF AlreadyRuns, feedData, outside
<1>8. CASE Destroy
  BY <1>8 DEF Destroy, feedVars, feedData
<1>9. ASSUME NEW t \in Threads, DisplayJoined(t) PROVE Locked'
  BY <1>9 DEF DisplayJoined, feedData, outside
<1> QED
  BY <1>0, <1>1, <1>2, <1>4, <1>5, <1>6, <1>7, <1>8, <1>9 DEF Next, vars, feedVars, feedData, outside

LEMMA NoStreamNext ==
  ASSUME PlacesOK, Locked, NoStream, [Next]_vars
  PROVE  NoStream'
<1> USE Actors, GotoAt, CallAt, ReturnedAt DEF Dropping, NoStream
<1>0. CASE UNCHANGED <<pc, streaming>>
  BY <1>0
<1>1. CASE Session
  <2>1. CASE TakeFrame \/ ProcessVideoFrame \/ Started \/ AdaptationEnds
    BY <2>1 DEF TakeFrame, ProcessVideoFrame, Started, AdaptationEnds, feedData
  <2>2. CASE StartStreamingMedia
    <3>1. \A t \in Threads : pc[t] \notin Dropping
      BY <2>2, FeedAssumption DEF StartStreamingMedia, Locked
    <3>2. \A t \in Threads : pc'[t] \notin Dropping
      BY <2>2, <3>1 DEF StartStreamingMedia, PlacesOK
    <3> QED
      BY <3>2
  <2>3. ASSUME NEW t \in Threads, Stop(t) \/ StopMediaPipeline(t) \/ JoinEncoder(t) PROVE NoStream'
    BY <2>3 DEF Stop, StopMediaPipeline, JoinEncoder, Backs
  <2>4. CASE StartFailed(reconnects > 0 /\ ~stop) \/ UserStops
    BY <2>4 DEF StartFailed, UserStops, feedData
  <2>5. CASE SetFreezeStream
    BY <2>5 DEF SetFreezeStream
  <2> QED
    BY <1>1, <2>1, <2>2, <2>3, <2>4, <2>5 DEF Session, FeedNext
<1>2. CASE ConnectionLost
  BY <1>2 DEF ConnectionLost, Reconnect, feedData
<1>3. ASSUME CaptureLoop \/ StreamLoop \/ Configure \/ Close \/ Unplug \/ Draw \/ Compose PROVE NoStream'
  BY <1>0, <1>3, CaptureLoopKeeps, WorldKeeps DEF feedVars, feedData
<1>4. CASE X11
  <2>1. CASE Opens \/ X11Refused \/ X11Spawn
    BY <2>1 DEF Opens, X11Refused, X11Spawn, feedData
  <2>2. ASSUME NEW t \in Threads, X11Stop(t) PROVE NoStream'
    BY <2>2 DEF X11Stop, feedData
  <2> QED
    BY <1>3, <1>4, <2>1, <2>2 DEF X11, StartMonitor, StartWindow
<1>5. CASE Portal
  <2>1. CASE Size \/ PortalOpen \/ PortalSpawn \/ Probed
    BY <2>1 DEF Size, PortalOpen, PortalSpawn, Probed, feedData
  <2>2. CASE RequestPortalSession
    BY <2>2 DEF RequestPortalSession, Refused, feedData
  <2>3. ASSUME NEW t \in Threads, PortalStop(t) PROVE NoStream'
    BY <2>3 DEF PortalStop, feedData
  <2> QED
    BY <1>3, <1>5, <2>1, <2>2, <2>3 DEF Portal
<1>6. CASE Synthetic
  <2>1. ASSUME NEW t \in Threads, SyntheticStop(t) PROVE NoStream'
    BY <2>1 DEF SyntheticStop, feedData
  <2> QED
    BY <1>0, <1>6, <2>1 DEF Synthetic, SyntheticStart, SyntheticLoop, Substitute, feedVars, feedData
<1>7. CASE AlreadyRuns \/ Destroy
  BY <1>7 DEF AlreadyRuns, Destroy, feedVars, feedData
<1>8. ASSUME NEW t \in Threads, DisplayJoined(t) PROVE NoStream'
  BY <1>8 DEF DisplayJoined, feedData
<1> QED
  BY <1>0, <1>1, <1>2, <1>4, <1>5, <1>6, <1>7, <1>8 DEF Next, vars, feedVars, feedData

LEMMA EarlyNext ==
  ASSUME PlacesOK, Locked, Early, Timely, [Next]_vars
  PROVE  Early'
<1> USE Actors, GotoAt, CallAt, ReturnedAt
<1>0. CASE UNCHANGED <<pc, owner, backend, running, at, stop>>
  BY <1>0 DEF Early
<1>1. CASE Session
  <2> SUFFICES ASSUME FeedNext \/ StartFailed(reconnects > 0 /\ ~stop) \/ SetFreezeStream
                        \/ (UserStops /\ (EarlyStops \/ ~Asking)),
                      UNCHANGED <<backend, running, at>>
               PROVE  Early'
    BY <1>1 DEF Session, outside, captureVars
  <2> USE DEF Early
  <2>1. CASE TakeFrame \/ ProcessVideoFrame
    BY <2>1 DEF TakeFrame, ProcessVideoFrame
  <2>2. CASE StartStreamingMedia
    BY <2>2 DEF StartStreamingMedia, PlacesOK
  <2>3. CASE Started \/ AdaptationEnds
    BY <2>3 DEF Started, AdaptationEnds, feedData
  <2>4. ASSUME NEW t \in Threads, Stop(t) PROVE Early'
    BY <2>4 DEF Stop, Backs, Threads
  <2>5. ASSUME NEW t \in Threads, StopMediaPipeline(t) PROVE Early'
    BY <2>5, FeedAssumption DEF StopMediaPipeline, Threads
  <2>6. ASSUME NEW t \in Threads, JoinEncoder(t) PROVE Early'
    BY <2>6 DEF JoinEncoder, Backs, Locked, Dropping, Threads
  <2>7. CASE StartFailed(reconnects > 0 /\ ~stop) \/ SetFreezeStream
    BY <2>7 DEF StartFailed, SetFreezeStream, feedData
  <2>8. CASE UserStops /\ (EarlyStops \/ ~Asking)
    BY <2>8 DEF UserStops, feedData, Timely, Asking, Restarts
  <2> QED
    BY <2>1, <2>2, <2>3, <2>4, <2>5, <2>6, <2>7, <2>8 DEF FeedNext
<1>2. CASE ConnectionLost
  BY <1>2 DEF ConnectionLost, Reconnect, feedData, outside, captureVars, Early
<1>3. CASE Configure \/ Close \/ Unplug \/ Draw \/ Compose
  BY <1>0, <1>3, WorldKeeps DEF feedVars, feedData, captureVars
<1>4. CASE X11
  <2>1. CASE Opens \/ X11Refused \/ X11Spawn
    BY <2>1 DEF Opens, X11Refused, X11Spawn, feedData, outside, captureVars, Early
  <2>2. ASSUME NEW t \in Threads, X11Stop(t) PROVE Early'
    BY <2>2 DEF X11Stop, outside, Early
  <2>3. CASE CaptureLoop
    BY <2>3, CaptureLoopKeeps DEF CaptureLoop, Early
  <2> QED
    BY <1>3, <1>4, <2>1, <2>2, <2>3 DEF X11, StartMonitor, StartWindow
<1>5. CASE Portal
  <2>1. CASE Size
    BY <2>1 DEF Size, captureVars, outside, Early
  <2>2. CASE PortalOpen
    BY <2>2 DEF PortalOpen, feedData, captureVars, outside, Locked, Building, Early
  <2>3. CASE RequestPortalSession
    BY <2>3 DEF RequestPortalSession, Refused, feedData, captureVars, outside, Early
  <2>4. CASE PortalSpawn \/ Probed
    BY <2>4 DEF PortalSpawn, Probed, feedData, captureVars, outside, Early
  <2>5. ASSUME NEW t \in Threads, PortalStop(t) PROVE Early'
    BY <2>5 DEF PortalStop, feedData, outside, Early, Threads
  <2>6. CASE StreamLoop
    <3>1. at # "off" /\ UNCHANGED <<pc, owner, backend>>
      BY <2>6, CaptureLoopKeeps DEF StreamLoop, MakeLoop, Connect, Process, Deliver, Connected, LoopEnds
    <3> QED
      BY <3>1 DEF Early
  <2> QED
    BY <1>3, <1>5, <2>1, <2>2, <2>3, <2>4, <2>5, <2>6 DEF Portal
<1>6. CASE Synthetic
  <2>1. ASSUME NEW t \in Threads, SyntheticStop(t) PROVE Early'
    BY <2>1 DEF SyntheticStop, outside, Early
  <2>2. CASE SyntheticStart \/ SyntheticLoop \/ Substitute
    BY <2>2 DEF SyntheticStart, SyntheticLoop, Substitute, outside, Early
  <2> QED
    BY <1>6, <2>1, <2>2 DEF Synthetic
<1>7. CASE AlreadyRuns
  BY <1>7 DEF AlreadyRuns, feedData, captureVars, outside, Early
<1>8. CASE Destroy
  BY <1>8, FeedAssumption DEF Destroy, Early
<1>9. ASSUME NEW t \in Threads, DisplayJoined(t) PROVE Early'
  BY <1>9 DEF DisplayJoined, feedData, outside, Early, Threads
<1> QED
  BY <1>0, <1>1, <1>2, <1>4, <1>5, <1>6, <1>7, <1>8, <1>9 DEF Next, vars, feedVars, feedData, outside, captureVars

-----------------------------------------------------------------------------
(* Stopping.                                                                 *)

\* While a thread drops, nobody else does, and nothing is built.
LEMMA OneDrops ==
  ASSUME Locked, NEW t \in Threads, pc[t] \in Dropping
  PROVE  /\ \A u \in Threads \ {t} : pc[u] \notin Dropping
         /\ pc["starter"] \notin Building
BY DEF Locked, Dropping, Building, Threads

\* While a capturer is built or asked for, nobody drops.
LEMMA NoneDrops ==
  ASSUME Locked, Early, backend # None,
         pc["starter"] \in Building \cup {"portal", "spawn"}
  PROVE  \A t \in Threads : pc[t] \notin Dropping
<1>1. CASE owner = "starter"
  BY <1>1 DEF Locked, Dropping, Building, Threads
<1>2. CASE owner # "starter"
  BY <1>2 DEF Locked, Early, Dropping, Building, Threads
<1> QED
  BY <1>1, <1>2

LEMMA ToldNext ==
  ASSUME PlacesOK, Locked, Early, Told, Next
  PROVE  Told'
<1> USE Actors, GotoAt, CallAt, ReturnedAt DEF Told
<1>0. CASE UNCHANGED <<pc, running>>
  BY <1>0
<1>a. ASSUME pc["starter"] \in Building \cup {"portal", "spawn"},
             NEW l \in {"started", "probe"}, Goto("starter", l)
      PROVE  Told'
  <2>1. backend # None
    BY DEF Next
  <2> QED
    BY <1>a, <2>1, NoneDrops DEF Dropping
<1>1. CASE Session
  <2> SUFFICES ASSUME FeedNext \/ StartFailed(reconnects > 0 /\ ~stop) \/ UserStops \/ SetFreezeStream,
                      UNCHANGED running
               PROVE  Told'
    BY <1>1 DEF Session, captureVars
  <2>1. CASE TakeFrame \/ ProcessVideoFrame \/ Started \/ AdaptationEnds
    BY <2>1 DEF TakeFrame, ProcessVideoFrame, Started, AdaptationEnds, feedData
  <2>2. CASE StartStreamingMedia
    BY <2>2 DEF StartStreamingMedia, PlacesOK
  <2>3. ASSUME NEW t \in Threads, Stop(t) \/ StopMediaPipeline(t) \/ JoinEncoder(t) PROVE Told'
    BY <2>3 DEF Stop, StopMediaPipeline, JoinEncoder, Backs
  <2>4. CASE StartFailed(reconnects > 0 /\ ~stop) \/ UserStops \/ SetFreezeStream
    BY <2>4 DEF StartFailed, UserStops, SetFreezeStream
  <2> QED
    BY <2>1, <2>2, <2>3, <2>4 DEF FeedNext
<1>2. CASE ConnectionLost
  BY <1>2 DEF ConnectionLost, Reconnect, captureVars
<1>3. CASE Configure \/ Close \/ Unplug \/ Draw \/ Compose
  BY <1>0, <1>3, WorldKeeps DEF feedVars, captureVars
<1>4. CASE X11
  <2>1. CASE Opens \/ X11Refused
    BY <2>1 DEF Opens, X11Refused, captureVars
  <2>2. CASE X11Spawn
    BY <1>a, <2>2 DEF X11Spawn, Building
  <2>3. ASSUME NEW t \in Threads, X11Stop(t) PROVE Told'
    BY <2>3 DEF X11Stop
  <2>4. CASE CaptureLoop
    BY <2>4, CaptureLoopKeeps DEF CaptureLoop, Top, PollDamage, Grab, Lost, Emit, Leave
  <2> QED
    BY <1>3, <1>4, <2>1, <2>2, <2>3, <2>4 DEF X11, StartMonitor, StartWindow
<1>5. CASE Portal
  <2>1. CASE Size \/ PortalOpen \/ Probed
    BY <2>1 DEF Size, PortalOpen, Probed, captureVars
  <2>2. CASE RequestPortalSession
    BY <2>2 DEF RequestPortalSession, Refused, captureVars
  <2>3. CASE PortalSpawn
    BY <1>a, <2>3 DEF PortalSpawn
  <2>4. ASSUME NEW t \in Threads, PortalStop(t) PROVE Told'
    BY <2>4 DEF PortalStop
  <2>5. CASE StreamLoop
    BY <2>5, CaptureLoopKeeps DEF StreamLoop, MakeLoop, Connect, Process, Deliver, LoopEnds
  <2> QED
    BY <1>3, <1>5, <2>1, <2>2, <2>3, <2>4, <2>5 DEF Portal
<1>6. CASE Synthetic
  <2>1. CASE SyntheticStart
    BY <1>a, <2>1 DEF SyntheticStart, Building
  <2>2. ASSUME NEW t \in Threads, SyntheticStop(t) PROVE Told'
    BY <2>2 DEF SyntheticStop
  <2>3. CASE SyntheticLoop \/ Substitute
    BY <2>3, <1>0 DEF SyntheticLoop, Substitute, feedVars, captureVars
  <2> QED
    BY <1>6, <2>1, <2>2, <2>3 DEF Synthetic
<1>7. CASE AlreadyRuns \/ Destroy
  BY <1>7 DEF AlreadyRuns, Destroy, feedVars, captureVars
<1>8. ASSUME NEW t \in Threads, DisplayJoined(t) PROVE Told'
  BY <1>8 DEF DisplayJoined
<1> QED
  BY <1>1, <1>2, <1>4, <1>5, <1>6, <1>7, <1>8 DEF Next

LEMMA AwaitsEndNext ==
  ASSUME PlacesOK, Locked, AwaitsEnd, Next
  PROVE  AwaitsEnd'
<1> USE Actors, GotoAt, CallAt, ReturnedAt DEF AwaitsEnd
<1>0. CASE UNCHANGED <<pc, running, at, grabbed>>
  BY <1>0
<1>a. ASSUME UNCHANGED <<running, at, grabbed>>, \A t \in Threads : pc[t] = "displayJoin" => pc'[t] = "displayJoin"
      PROVE  AwaitsEnd'
  BY <1>a
<1>1. CASE Session
  <2> SUFFICES ASSUME FeedNext \/ StartFailed(reconnects > 0 /\ ~stop) \/ UserStops \/ SetFreezeStream,
                      UNCHANGED <<running, at, grabbed>>
               PROVE  AwaitsEnd'
    BY <1>1 DEF Session, captureVars
  <2>1. CASE TakeFrame \/ ProcessVideoFrame \/ Started \/ AdaptationEnds
    BY <2>1, <1>a DEF TakeFrame, ProcessVideoFrame, Started, AdaptationEnds, feedData
  <2>2. CASE StartStreamingMedia
    <3>1. \A t \in Threads : pc[t] \notin Dropping
      BY <2>2, FeedAssumption DEF StartStreamingMedia, Locked
    <3> QED
      BY <3>1, <1>a DEF Dropping
  <2>3. ASSUME NEW t \in Threads, Stop(t) \/ StopMediaPipeline(t) \/ JoinEncoder(t) PROVE AwaitsEnd'
    BY <2>3, <1>a DEF Stop, StopMediaPipeline, JoinEncoder
  <2>4. CASE StartFailed(reconnects > 0 /\ ~stop) \/ UserStops \/ SetFreezeStream
    BY <2>4, <1>a DEF StartFailed, UserStops, SetFreezeStream
  <2> QED
    BY <2>1, <2>2, <2>3, <2>4 DEF FeedNext
<1>2. CASE ConnectionLost
  BY <1>2, <1>a DEF ConnectionLost, Reconnect, captureVars
<1>3. CASE Configure \/ Close \/ Unplug \/ Draw \/ Compose
  BY <1>0, <1>3, WorldKeeps DEF feedVars, captureVars
<1>4. CASE X11
  <2>1. CASE Opens \/ X11Refused
    BY <2>1, <1>a DEF Opens, X11Refused, captureVars
  <2>2. CASE X11Spawn
    BY <2>2 DEF X11Spawn
  <2>3. ASSUME NEW t \in Threads, X11Stop(t) PROVE AwaitsEnd'
    BY <2>3 DEF X11Stop
  <2>4. CASE CaptureLoop
    <3>1. UNCHANGED pc
      BY <2>4, CaptureLoopKeeps
    <3>2. CASE Top
      BY <3>1, <3>2 DEF Top, PollWindowLifecycle
    <3>3. CASE PollDamage \/ Grab \/ Lost
      BY <3>1, <3>3 DEF PollDamage, Grab, Lost
    <3>4. CASE Emit \/ Leave
      BY <3>1, <3>4 DEF Emit, Leave
    <3> QED
      BY <2>4, <3>2, <3>3, <3>4 DEF CaptureLoop
  <2> QED
    BY <1>3, <1>4, <2>1, <2>2, <2>3, <2>4 DEF X11, StartMonitor, StartWindow
<1>5. CASE Portal
  <2>1. CASE Size \/ PortalOpen \/ Probed
    BY <2>1, <1>a DEF Size, PortalOpen, Probed, captureVars
  <2>2. CASE RequestPortalSession
    BY <2>2, <1>a DEF RequestPortalSession, Refused, captureVars
  <2>3. CASE PortalSpawn
    BY <2>3 DEF PortalSpawn
  <2>4. ASSUME NEW t \in Threads, PortalStop(t) PROVE AwaitsEnd'
    BY <2>4 DEF PortalStop
  <2>5. CASE StreamLoop
    BY <2>5, CaptureLoopKeeps DEF StreamLoop, MakeLoop, Connect, Process, Deliver, Connected, LoopEnds
  <2> QED
    BY <1>3, <1>5, <2>1, <2>2, <2>3, <2>4, <2>5 DEF Portal
<1>6. CASE Synthetic
  <2>1. CASE SyntheticStart
    BY <2>1 DEF SyntheticStart
  <2>2. ASSUME NEW t \in Threads, SyntheticStop(t) PROVE AwaitsEnd'
    BY <2>2 DEF SyntheticStop
  <2>3. CASE SyntheticLoop
    BY <2>3 DEF SyntheticLoop
  <2>4. CASE Substitute
    BY <2>4, <1>0 DEF Substitute, feedVars, captureVars
  <2> QED
    BY <1>6, <2>1, <2>2, <2>3, <2>4 DEF Synthetic
<1>7. CASE AlreadyRuns \/ Destroy
  BY <1>7, <1>a DEF AlreadyRuns, Destroy, feedVars, captureVars
<1>8. ASSUME NEW t \in Threads, DisplayJoined(t) PROVE AwaitsEnd'
  BY <1>8 DEF DisplayJoined
<1> QED
  BY <1>1, <1>2, <1>4, <1>5, <1>6, <1>7, <1>8 DEF Next

LEMMA ChasedNext ==
  ASSUME FlowTypeOK, Locked, Early, Told, Chased, Next
  PROVE  Chased'
<1> USE Actors, GotoAt, CallAt, ReturnedAt
<1>0. CASE UNCHANGED <<pc, stop>> /\ (running' => running)
  BY <1>0 DEF Chased
<1>p. PlacesOK
  BY DEF FlowTypeOK
\* Who moves on was not the one on the way, and nothing begins to capture.
<1>a. ASSUME NEW t \in Threads, pc[t] \notin {"pipeline", "display"}, UNCHANGED stop, running' => running,
             \A u \in Threads \ {t} : pc'[u] = pc[u],
             pc'["starter"] \in {"capture", "listen", "portal", "spawn"} /\ stop
               => running \/ pc["starter"] \in {"capture", "listen", "portal", "spawn"}
      PROVE  Chased'
  BY <1>a DEF Chased
<1>1. CASE Session
  <2> SUFFICES ASSUME FeedNext \/ StartFailed(reconnects > 0 /\ ~stop) \/ UserStops \/ SetFreezeStream,
                      UNCHANGED running
               PROVE  Chased'
    BY <1>1 DEF Session, captureVars
  <2>1. CASE TakeFrame
    BY <2>1, <1>a, <1>p DEF TakeFrame
  <2>2. CASE ProcessVideoFrame
    BY <2>2, <1>a, <1>p DEF ProcessVideoFrame
  <2>3. CASE StartStreamingMedia
    <3>1. CASE stop
      BY <2>3, <3>1, <1>a, <1>p DEF StartStreamingMedia
    <3>2. CASE ~stop
      BY <2>3, <3>2 DEF StartStreamingMedia, Chased
    <3> QED
      BY <3>1, <3>2
  <2>4. CASE Started
    BY <2>4, <1>a, <1>p DEF Started
  <2>5. CASE AdaptationEnds
    BY <2>5, <1>a, <1>p DEF AdaptationEnds, feedData
  <2>6. ASSUME NEW t \in Threads, Stop(t) PROVE Chased'
    <3>1. CASE stop
      BY <2>6, <3>1, <1>a, <1>p, ReturnedAt DEF Stop, Backs
    <3>2. CASE ~stop
      BY <2>6, <3>2, <1>p DEF Stop, Chased
    <3> QED
      BY <3>1, <3>2
  <2>7. ASSUME NEW t \in Threads, StopMediaPipeline(t) PROVE Chased'
    BY <2>7, <1>p DEF StopMediaPipeline, Chased
  <2>8. ASSUME NEW t \in Threads, JoinEncoder(t) PROVE Chased'
    BY <2>8, <1>a, <1>p, ReturnedAt DEF JoinEncoder, Backs
  <2>9. CASE StartFailed(reconnects > 0 /\ ~stop)
    BY <2>9, <1>a, <1>p DEF StartFailed, feedData
  <2>10. CASE UserStops
    BY <2>10, <1>a, <1>p, CallAt DEF UserStops, feedData, Threads
  <2>11. CASE SetFreezeStream
    BY <2>11, <1>0 DEF SetFreezeStream
  <2> QED
    BY <2>1, <2>2, <2>3, <2>4, <2>5, <2>6, <2>7, <2>8, <2>9, <2>10, <2>11 DEF FeedNext
<1>2. CASE ConnectionLost
  BY <1>2 DEF ConnectionLost, Reconnect, feedData, Chased
<1>3. CASE Configure \/ Close \/ Unplug \/ Draw \/ Compose
  BY <1>0, <1>3, WorldKeeps DEF feedVars, feedData, captureVars
<1>s. ASSUME Goto("starter", "started") \/ Goto("starter", "probe"), UNCHANGED stop,
             pc["starter"] \in {"capture", "listen", "portal", "spawn"}
      PROVE  Chased'
  BY <1>s, <1>p DEF Chased
\* The one who drops has told the capturer, and nobody builds.
<1>t. ASSUME NEW t \in Threads, pc[t] = "display", UNCHANGED stop, ~running', \A u \in Threads \ {t} : pc'[u] = pc[u],
             pc'[t] \in {"displayJoin", "join"}
      PROVE  Chased'
  <2>1. backend # None
    BY DEF Next
  <2>2. pc["starter"] \notin {"capture", "listen", "portal", "spawn"}
    BY <1>t, <2>1, NoneDrops DEF Dropping, Building
  <2>3. pc'["starter"] \notin {"capture", "listen", "portal", "spawn"}
    BY <1>t, <2>2
  <2> QED
    BY <1>t, <2>3 DEF Chased
<1>4. CASE X11
  <2>1. CASE Opens
    BY <2>1, <1>a, <1>p DEF Opens, feedData, captureVars
  <2>2. CASE X11Refused
    BY <2>2, <1>p DEF X11Refused, feedData, captureVars, Chased
  <2>3. CASE X11Spawn
    BY <2>3, <1>s DEF X11Spawn, feedData
  <2>4. ASSUME NEW t \in Threads, X11Stop(t) PROVE Chased'
    BY <2>4, <1>t, <1>p DEF X11Stop, feedData
  <2>5. CASE CaptureLoop
    <3>1. running' = running \/ running' = FALSE
      BY <2>5 DEF CaptureLoop, Top, PollDamage, Grab, Lost, Emit, Leave
    <3> QED
      BY <2>5, <3>1, <1>0, CaptureLoopKeeps
  <2> QED
    BY <1>3, <1>4, <2>1, <2>2, <2>3, <2>4, <2>5 DEF X11, StartMonitor, StartWindow
<1>5. CASE Portal
  <2>1. CASE Size
    BY <2>1, <1>a, <1>p DEF Size, captureVars, Early
  <2>2. CASE PortalOpen
    BY <2>2, <1>a, <1>p DEF PortalOpen, feedData, captureVars
  <2>3. CASE Probed
    BY <2>3, <1>a, <1>p DEF Probed, feedData, captureVars
  <2>4. CASE RequestPortalSession
    BY <2>4, <1>a, <1>p DEF RequestPortalSession, Refused, feedData, captureVars
  <2>5. CASE PortalSpawn
    BY <2>5, <1>s DEF PortalSpawn, feedData
  <2>6. ASSUME NEW t \in Threads, PortalStop(t) PROVE Chased'
    BY <2>6, <1>t, <1>p DEF PortalStop, feedData
  <2>7. CASE StreamLoop
    <3>1. running' = running
      BY <2>7 DEF StreamLoop, MakeLoop, Connect, Process, Deliver, LoopEnds
    <3> QED
      BY <2>7, <3>1, <1>0, CaptureLoopKeeps
  <2> QED
    BY <1>3, <1>5, <2>1, <2>2, <2>3, <2>4, <2>5, <2>6, <2>7 DEF Portal
<1>6. CASE Synthetic
  <2>1. CASE SyntheticStart
    BY <2>1, <1>s DEF SyntheticStart, feedData
  <2>2. ASSUME NEW t \in Threads, SyntheticStop(t) PROVE Chased'
    BY <2>2, <1>t, <1>p DEF SyntheticStop, feedData
  <2>3. CASE SyntheticLoop \/ Substitute
    BY <2>3, <1>0 DEF SyntheticLoop, Substitute, feedVars, feedData, captureVars
  <2> QED
    BY <1>6, <2>1, <2>2, <2>3 DEF Synthetic
<1>7. CASE AlreadyRuns
  BY <1>7, <1>a, <1>p DEF AlreadyRuns, feedData, captureVars
<1>8. CASE Destroy
  BY <1>8, <1>0 DEF Destroy, feedVars, feedData, captureVars
<1>9. ASSUME NEW t \in Threads, DisplayJoined(t) PROVE Chased'
  BY <1>9, <1>a, <1>p DEF DisplayJoined, feedData
<1> QED
  BY <1>1, <1>2, <1>4, <1>5, <1>6, <1>7, <1>8, <1>9 DEF Next

LEMMA RestsNext ==
  ASSUME PlacesOK, Locked, Told, Rests, Next
  PROVE  Rests'
<1> USE Actors, GotoAt, CallAt, ReturnedAt
<1>0. CASE UNCHANGED <<pc, after, backend, running>>
  BY <1>0 DEF Rests
<1>1. CASE Session
  <2> SUFFICES ASSUME FeedNext \/ StartFailed(reconnects > 0 /\ ~stop) \/ UserStops \/ SetFreezeStream,
                      UNCHANGED <<running, backend>>
               PROVE  Rests'
    BY <1>1 DEF Session, outside, captureVars
  <2>1. CASE TakeFrame
    BY <2>1 DEF TakeFrame, Rests, Threads
  <2>2. CASE ProcessVideoFrame
    BY <2>2 DEF ProcessVideoFrame, Rests, Threads
  <2>3. CASE StartStreamingMedia
    BY <2>3 DEF StartStreamingMedia, Rests, PlacesOK, Threads
  <2>4. CASE Started
    BY <2>4 DEF Started, Rests
  <2>5. CASE AdaptationEnds
    BY <2>5 DEF AdaptationEnds, Rests
  <2>6. ASSUME NEW t \in Threads, Stop(t) PROVE Rests'
    BY <2>6 DEF Stop, Rests
  <2>7. ASSUME NEW t \in Threads, StopMediaPipeline(t) PROVE Rests'
    BY <2>7 DEF StopMediaPipeline, Rests
  <2>8. ASSUME NEW t \in Threads, JoinEncoder(t) PROVE Rests'
    BY <2>8 DEF JoinEncoder, Rests, Told, Backs
  <2>9. CASE StartFailed(reconnects > 0 /\ ~stop)
    BY <2>9 DEF StartFailed, Rests
  <2>10. CASE UserStops
    BY <2>10 DEF UserStops, Rests, Threads
  <2>11. CASE SetFreezeStream
    BY <2>11, <1>0 DEF SetFreezeStream
  <2> QED
    BY <2>1, <2>2, <2>3, <2>4, <2>5, <2>6, <2>7, <2>8, <2>9, <2>10, <2>11 DEF FeedNext
<1>2. CASE ConnectionLost
  BY <1>2 DEF ConnectionLost, Reconnect, outside, captureVars, Rests
<1>3. CASE Configure \/ Close \/ Unplug \/ Draw \/ Compose
  BY <1>0, <1>3, WorldKeeps DEF feedVars, captureVars
<1>c. ASSUME CaptureLoop \/ StreamLoop, running' = running \/ running' = FALSE PROVE Rests'
  BY <1>c, CaptureLoopKeeps DEF Rests
<1>4. CASE X11
  <2>1. CASE Opens
    BY <2>1 DEF Opens, captureVars, outside, Rests
  <2>2. CASE X11Refused
    BY <2>2 DEF X11Refused, captureVars, outside, Rests
  <2>3. CASE X11Spawn
    BY <2>3 DEF X11Spawn, Rests
  <2>4. ASSUME NEW t \in Threads, X11Stop(t) PROVE Rests'
    BY <2>4 DEF X11Stop, outside, Rests
  <2>5. CASE CaptureLoop
    BY <1>c, <2>5 DEF CaptureLoop, Top, PollDamage, Grab, Lost, Emit, Leave
  <2> QED
    BY <1>3, <1>4, <2>1, <2>2, <2>3, <2>4, <2>5 DEF X11, StartMonitor, StartWindow
<1>5. CASE Portal
  <2>1. CASE Size
    BY <2>1 DEF Size, captureVars, outside, Rests
  <2>2. CASE PortalOpen
    BY <2>2 DEF PortalOpen, captureVars, outside, Rests
  <2>3. CASE Probed
    BY <2>3 DEF Probed, captureVars, outside, Rests, Locked
  <2>4. CASE RequestPortalSession
    BY <2>4 DEF RequestPortalSession, Refused, captureVars, outside, Rests
  <2>5. CASE PortalSpawn
    BY <2>5 DEF PortalSpawn, Rests
  <2>6. ASSUME NEW t \in Threads, PortalStop(t) PROVE Rests'
    BY <2>6 DEF PortalStop, outside, Rests
  <2>7. CASE StreamLoop
    BY <1>c, <2>7 DEF StreamLoop, MakeLoop, Connect, Process, Deliver, LoopEnds
  <2> QED
    BY <1>3, <1>5, <2>1, <2>2, <2>3, <2>4, <2>5, <2>6, <2>7 DEF Portal
<1>6. CASE Synthetic
  <2>1. CASE SyntheticStart
    BY <2>1 DEF SyntheticStart, Rests
  <2>2. ASSUME NEW t \in Threads, SyntheticStop(t) PROVE Rests'
    BY <2>2 DEF SyntheticStop, outside, Rests
  <2>3. CASE SyntheticLoop
    BY <2>3, <1>0 DEF SyntheticLoop, outside
  <2>4. CASE Substitute
    BY <2>4 DEF Substitute, feedVars, captureVars, Rests
  <2> QED
    BY <1>6, <2>1, <2>2, <2>3, <2>4 DEF Synthetic
<1>7. CASE AlreadyRuns
  BY <1>7 DEF AlreadyRuns, outside, captureVars, Rests
<1>8. CASE Destroy
  BY <1>8 DEF Destroy, feedVars, captureVars, Rests
<1>9. ASSUME NEW t \in Threads, DisplayJoined(t) PROVE Rests'
  BY <1>9 DEF DisplayJoined, outside, Rests
<1> QED
  BY <1>1, <1>2, <1>4, <1>5, <1>6, <1>7, <1>8, <1>9 DEF Next

\* A desktop does not become an X11 one.
LEMMA StaysX11 ==
  ASSUME [Next]_vars, backend' = "x11"
  PROVE  backend = "x11"
<1>1. CASE Synthetic \/ Destroy
  BY <1>1, FeedAssumption DEF Synthetic, SyntheticStart, SyntheticLoop, SyntheticStop, Substitute, Destroy, outside
<1>2. CASE X11 \/ Portal
  <2>1. ASSUME NEW t \in Threads, X11Stop(t) \/ PortalStop(t) PROVE UNCHANGED backend
    BY <2>1 DEF X11Stop, PortalStop, outside
  <2>2. CASE StartMonitor \/ StartWindow \/ X11Refused \/ X11Spawn \/ CaptureLoop
    BY <2>2, CaptureLoopKeeps DEF StartMonitor, StartWindow, Opens, X11Refused, X11Spawn, outside
  <2>3. CASE Size \/ PortalOpen \/ RequestPortalSession \/ PortalSpawn \/ Probed \/ StreamLoop
    BY <2>3, CaptureLoopKeeps DEF Size, PortalOpen, RequestPortalSession, PortalSpawn, Probed, outside
  <2>4. CASE Configure \/ Close \/ Unplug \/ Draw \/ Compose
    BY <2>4, WorldKeeps
  <2> QED
    BY <1>2, <2>1, <2>2, <2>3, <2>4 DEF X11, Portal
<1>3. CASE Session \/ ConnectionLost
  BY <1>3, SessionKeeps DEF outside
<1>4. CASE AlreadyRuns \/ (\E t \in Threads : DisplayJoined(t)) \/ UNCHANGED vars
  BY <1>4 DEF AlreadyRuns, DisplayJoined, vars, outside
<1> QED
  BY <1>1, <1>2, <1>3, <1>4 DEF Next

LEMMA TimelyBefore ==
  ASSUME [Next]_vars, Timely'
  PROVE  Timely
BY StaysX11 DEF Timely

LEMMA FlowInit == Init => FlowInv
<1> SUFFICES ASSUME Init PROVE FlowInv
  OBVIOUS
<1>1. FlowTypeOK
  BY TypesInit
<1>2. /\ pc = [t \in Threads |-> CASE t = "starter" -> "size" [] t = "stopper" -> "idle" [] OTHER -> "ended"]
      /\ running = FALSE /\ at = "off" /\ grabbed = None /\ stop = FALSE /\ streaming = FALSE
  BY DEF Init, FeedInit
<1>3. pc["starter"] = "size" /\ pc["stopper"] = "idle" /\ pc["encoder"] = "ended"
      /\ \A t \in Threads : pc[t] \notin Dropping
  BY <1>2 DEF Threads, Dropping
<1>4. Locked /\ NoStream
  BY <1>2, <1>3 DEF Locked, NoStream, Building
<1>5. Early /\ Told /\ AwaitsEnd /\ Chased /\ Rests
  BY <1>2, <1>3 DEF Early, Told, AwaitsEnd, Chased, Rests, Dropping
<1> QED
  BY <1>1, <1>4, <1>5 DEF FlowInv

LEMMA FlowNext ==
  ASSUME FlowInv, [Next]_vars
  PROVE  FlowInv'
<1>1. FlowTypeOK' /\ Locked' /\ NoStream'
  BY TypesNext, LockedNext, NoStreamNext DEF FlowInv, FlowTypeOK
<1>2. ASSUME Timely' PROVE (Early /\ Told /\ AwaitsEnd /\ Chased /\ Rests)'
  <2>1. Timely /\ PlacesOK /\ FlowTypeOK /\ Locked /\ Early /\ Told /\ AwaitsEnd /\ Chased /\ Rests
    BY <1>2, TimelyBefore DEF FlowInv, FlowTypeOK
  <2>2. Early'
    BY <2>1, EarlyNext
  <2>3. CASE Next
    BY <2>1, <2>2, <2>3, ToldNext, AwaitsEndNext, ChasedNext, RestsNext
  <2>4. CASE UNCHANGED vars
    BY <2>1, <2>2, <2>4 DEF vars, feedVars, feedData, captureVars, outside, Told, AwaitsEnd, Chased, Rests
  <2> QED
    BY <2>3, <2>4
<1> QED
  BY <1>1, <1>2 DEF FlowInv

LEMMA FlowAlways == Spec => []FlowInv
<1>1. FlowInv /\ [Next]_vars => FlowInv'
  BY FlowNext
<1> QED
  BY <1>1, FlowInit, PTL DEF Spec

LEMMA QuietWhenTimely ==
  ASSUME FlowInv, Timely
  PROVE  CaptureQuiet
<1> SUFFICES ASSUME Stopped, backend # None
             PROVE  ~running /\ at \in {"off", "ended"} /\ grabbed = None
  BY DEF CaptureQuiet
<1>1. AwaitsEnd /\ Chased
  BY DEF FlowInv
<1> QED
  BY <1>1 DEF AwaitsEnd, Chased, Stopped

\* The session and its capturers keep the types of their state
\* (cast_session.h, display_capture.cc, display_capture_wayland.cc).
THEOREM SourcesTypeCorrect == Spec => []FeedTypeOK
<1>1. FlowInv => FeedTypeOK
  BY TypesSuffice DEF FlowInv
<1> QED
  BY <1>1, FlowAlways, PTL

\* No two threads build or drop the pipeline at once, and what is dropped
\* streams no more (pipeline_mutex_, cast_session.cc).
THEOREM OnePipeline == Spec => [](Locked /\ NoStream)
<1>1. FlowInv => Locked /\ NoStream
  BY DEF FlowInv
<1> QED
  BY <1>1, FlowAlways, PTL

\* When a Stop is complete no capturer runs and no thread of one does, for every
\* desktop, source and number of reconnections.  A Stop while Start asks the
\* portal for the size of the picture is excluded, as in the run; one while a
\* reconnect asks it is not (X11DisplayCapture::Stop,
\* PipeWirePortalCapture::Stop, CastSession::StopMediaPipeline).
THEOREM CaptureQuietAlways ==
  ASSUME ~EarlyStops
  PROVE  Spec => []CaptureQuiet
<1>1. FlowInv => CaptureQuiet
  BY QuietWhenTimely DEF Timely
<1> QED
  BY <1>1, FlowAlways, PTL

\* On an X11 desktop the same holds without that exclusion, whenever the user
\* stops (X11DisplayCapture::Stop).
THEOREM X11Quiet == Spec => [](backend = "x11" => CaptureQuiet)
<1>1. FlowInv => (backend = "x11" => CaptureQuiet)
  BY QuietWhenTimely DEF Timely
<1> QED
  BY <1>1, FlowAlways, PTL

-----------------------------------------------------------------------------
(* The frames.                                                               *)

LEMMA SteersKeeps ==
  ASSUME PlacesOK, Steers
  PROVE  /\ UNCHANGED <<slot, work, offered, encoded, grabbed, streaming, stop, frozen, owner, screen, backend>>
         /\ (pc'["encoder"] = "work") = (pc["encoder"] = "work")
<1> USE Actors, GotoAt, CallAt
<1>1. CASE StartMonitor \/ StartWindow \/ X11Refused \/ X11Spawn
  BY <1>1 DEF StartMonitor, StartWindow, Opens, X11Refused, X11Spawn, feedData, captureVars, outside, Threads
<1>2. CASE Size
  BY <1>2 DEF Size, captureVars, outside, Threads
<1>3. CASE PortalOpen \/ PortalSpawn \/ Probed
  BY <1>3 DEF PortalOpen, PortalSpawn, Probed, feedData, captureVars, outside, Threads
<1>4. CASE RequestPortalSession
  BY <1>4 DEF RequestPortalSession, Refused, feedData, captureVars, outside, Threads
<1>5. CASE SyntheticStart \/ AlreadyRuns
  BY <1>5 DEF SyntheticStart, AlreadyRuns, feedData, captureVars, outside, Threads
<1>6. ASSUME NEW t \in Threads, X11Stop(t)
      PROVE  /\ UNCHANGED <<slot, work, offered, encoded, grabbed, streaming, stop, frozen, owner, screen, backend>>
             /\ (pc'["encoder"] = "work") = (pc["encoder"] = "work")
  BY <1>6 DEF X11Stop, feedData, outside
<1>7. ASSUME NEW t \in Threads, PortalStop(t)
      PROVE  /\ UNCHANGED <<slot, work, offered, encoded, grabbed, streaming, stop, frozen, owner, screen, backend>>
             /\ (pc'["encoder"] = "work") = (pc["encoder"] = "work")
  BY <1>7 DEF PortalStop, feedData, outside
<1>8. ASSUME NEW t \in Threads, SyntheticStop(t)
      PROVE  /\ UNCHANGED <<slot, work, offered, encoded, grabbed, streaming, stop, frozen, owner, screen, backend>>
             /\ (pc'["encoder"] = "work") = (pc["encoder"] = "work")
  BY <1>8 DEF SyntheticStop, feedData, outside
<1> QED
  BY <1>1, <1>2, <1>3, <1>4, <1>5, <1>6, <1>7, <1>8 DEF Steers

\* A step, by what it is about.
LEMMA StepKinds ==
  ASSUME Next
  PROVE  \/ Session \/ ConnectionLost \/ Steers \/ CaptureLoop \/ StreamLoop \/ SyntheticLoop
         \/ Configure \/ Close \/ Unplug \/ Draw \/ Compose
         \/ Substitute \/ Destroy \/ \E t \in Threads : DisplayJoined(t)
<1>1. X11 => Steers \/ CaptureLoop \/ Configure \/ Close \/ Unplug \/ Draw
  BY DEF X11, Steers
<1>2. Portal => Steers \/ StreamLoop \/ Compose
  BY DEF Portal, Steers
<1>3. Synthetic => Steers \/ SyntheticLoop \/ Substitute
  BY DEF Synthetic, Steers
<1> QED
  BY <1>1, <1>2, <1>3 DEF Next, Steers

LEMMA SetupFixed == [Next]_vars => UNCHANGED setup
<1> SUFFICES ASSUME [Next]_vars PROVE UNCHANGED setup
  OBVIOUS
<1>1. CASE Session \/ ConnectionLost
  BY <1>1, SessionKeeps DEF x11Vars
<1>2. CASE X11
  <2>1. CASE StartMonitor \/ StartWindow \/ X11Refused \/ X11Spawn
    BY <2>1 DEF StartMonitor, StartWindow, Opens, X11Refused, X11Spawn, x11Vars
  <2>2. ASSUME NEW t \in Threads, X11Stop(t) PROVE UNCHANGED setup
    BY <2>2 DEF X11Stop, x11Vars
  <2>3. CASE CaptureLoop
    BY <2>3 DEF CaptureLoop, Top, PollDamage, Grab, Lost, Emit, Leave, x11Vars
  <2>4. CASE Configure \/ Close \/ Unplug \/ Draw
    BY <2>4 DEF Configure, Close, Unplug, Draw
  <2> QED
    BY <1>2, <2>1, <2>2, <2>3, <2>4 DEF X11
<1>3. CASE Portal
  BY <1>3 DEF Portal, x11Vars
<1>4. CASE Synthetic
  BY <1>4 DEF Synthetic, SyntheticStart, SyntheticLoop, SyntheticStop, Substitute, rest, x11Vars
<1>5. CASE AlreadyRuns \/ Destroy \/ \E t \in Threads : DisplayJoined(t)
  BY <1>5 DEF AlreadyRuns, Destroy, DisplayJoined, rest, x11Vars
<1> QED
  BY <1>1, <1>2, <1>3, <1>4, <1>5 DEF Next, vars, rest, x11Vars

LEMMA LossOfWindowNext ==
  ASSUME PlacesOK, FramesOK, LossOfWindow, Next
  PROVE  LossOfWindow'
<1> USE DEF Reports, LossOfWindow, WindowMode
<1>s. UNCHANGED setup
  BY SetupFixed
<1>0. CASE UNCHANGED <<slot, work, grabbed>> /\ at' # "lost"
  BY <1>0, <1>s
<1>k. CASE UNCHANGED <<slot, work, grabbed, at>>
  BY <1>k, <1>s
<1>1. CASE Session
  <2> SUFFICES ASSUME FeedNext \/ StartFailed(reconnects > 0 /\ ~stop) \/ UserStops \/ SetFreezeStream,
                      UNCHANGED <<at, grabbed>>
               PROVE  LossOfWindow'
    BY <1>1 DEF Session, captureVars
  <2>1. CASE TakeFrame
    BY <2>1, <1>s DEF TakeFrame
  <2>2. CASE ProcessVideoFrame
    BY <2>2, <1>s DEF ProcessVideoFrame
  <2>3. CASE StartStreamingMedia \/ Started \/ AdaptationEnds
    BY <2>3, <1>s DEF StartStreamingMedia, Started, AdaptationEnds, feedData
  <2>4. ASSUME NEW t \in Threads, Stop(t) \/ StopMediaPipeline(t) \/ JoinEncoder(t) PROVE LossOfWindow'
    BY <2>4, <1>s DEF Stop, StopMediaPipeline, JoinEncoder
  <2>5. CASE StartFailed(reconnects > 0 /\ ~stop) \/ UserStops \/ SetFreezeStream
    BY <2>5, <1>s DEF StartFailed, UserStops, SetFreezeStream, feedData
  <2> QED
    BY <2>1, <2>2, <2>3, <2>4, <2>5 DEF FeedNext
<1>2. CASE ConnectionLost
  BY <1>2, <1>k DEF ConnectionLost, Reconnect, feedData, captureVars
<1>3. CASE Steers
  <2>1. at' # "lost" \/ UNCHANGED at
    BY <1>3 DEF Steers, StartMonitor, StartWindow, Opens, X11Refused, X11Spawn, X11Stop, Size, PortalOpen,
       RequestPortalSession, PortalSpawn, Probed, PortalStop, SyntheticStart, SyntheticStop, AlreadyRuns, captureVars
  <2> QED
    BY <1>3, <2>1, <1>0, <1>k, SteersKeeps
<1>4. CASE CaptureLoop
  <2>1. CASE Top
    <3>1. at' = "lost" => WindowMode
      BY <2>1 DEF Top
    <3> QED
      BY <2>1, <3>1, <1>s DEF Top, feedVars, feedData
  <2>2. CASE PollDamage \/ Leave
    BY <2>2, <1>0 DEF PollDamage, Leave, feedVars, feedData
  <2>3. CASE Grab
    BY <2>3, <1>s DEF Grab, feedVars, feedData
  <2>4. CASE Lost
    BY <2>4, <1>s DEF Lost, feedVars, feedData
  <2>5. CASE Emit
    BY <2>5, <1>s DEF Emit, QueueCapturedVideoFrame
  <2> QED
    BY <1>4, <2>1, <2>2, <2>3, <2>4, <2>5 DEF CaptureLoop
<1>5. CASE StreamLoop
  <2>1. CASE MakeLoop \/ Connect \/ LoopEnds
    BY <2>1, <1>0 DEF MakeLoop, Connect, LoopEnds, feedVars, feedData
  <2>2. CASE Process
    BY <2>2, <1>s DEF Process, feedVars, feedData
  <2>3. CASE Deliver
    BY <2>3, <1>s DEF Deliver, QueueCapturedVideoFrame
  <2> QED
    BY <1>5, <2>1, <2>2, <2>3 DEF StreamLoop
<1>6. CASE SyntheticLoop
  BY <1>6, <1>s DEF SyntheticLoop, QueueCapturedVideoFrame, Pattern
<1>7. CASE Configure \/ Close \/ Unplug \/ Draw \/ Compose
  BY <1>7, <1>k, WorldKeeps DEF feedVars, feedData, captureVars
<1>8. CASE Substitute \/ Destroy
  BY <1>8, <1>k DEF Substitute, Destroy, feedVars, feedData, captureVars
<1>9. ASSUME NEW t \in Threads, DisplayJoined(t) PROVE LossOfWindow'
  BY <1>9, <1>s DEF DisplayJoined, feedData
<1> QED
  BY <1>1, <1>2, <1>3, <1>4, <1>5, <1>6, <1>7, <1>8, <1>9, StepKinds

LEMMA InHandNext ==
  ASSUME PlacesOK, FramesOK, InHand, Next
  PROVE  InHand'
<1> USE Actors, GotoAt, CallAt, ReturnedAt DEF InHand
<1>k. CASE UNCHANGED <<work, grabbed, at>> /\ (pc'["encoder"] = "work" => pc["encoder"] = "work")
  BY <1>k
<1>1. CASE Session
  <2> SUFFICES ASSUME FeedNext \/ StartFailed(reconnects > 0 /\ ~stop) \/ UserStops \/ SetFreezeStream,
                      UNCHANGED <<at, grabbed>>
               PROVE  InHand'
    BY <1>1 DEF Session, captureVars
  <2>1. CASE TakeFrame
    BY <2>1 DEF TakeFrame
  <2>2. CASE ProcessVideoFrame
    BY <2>2 DEF ProcessVideoFrame
  <2>3. CASE StartStreamingMedia
    BY <2>3, <1>k DEF StartStreamingMedia, PlacesOK, Threads
  <2>4. CASE Started \/ AdaptationEnds \/ StartFailed(reconnects > 0 /\ ~stop)
    BY <2>4, <1>k DEF Started, AdaptationEnds, StartFailed, feedData, Threads
  <2>5. ASSUME NEW t \in Threads, Stop(t) \/ StopMediaPipeline(t) \/ JoinEncoder(t) PROVE InHand'
    BY <2>5, <1>k DEF Stop, StopMediaPipeline, JoinEncoder, Backs
  <2>6. CASE UserStops \/ SetFreezeStream
    BY <2>6, <1>k DEF UserStops, SetFreezeStream, feedData, Threads
  <2> QED
    BY <2>1, <2>2, <2>3, <2>4, <2>5, <2>6 DEF FeedNext
<1>2. CASE ConnectionLost
  BY <1>2, <1>k DEF ConnectionLost, Reconnect, feedData, captureVars, Threads
<1>3. CASE Steers
  <2>1. at' # "emit" \/ UNCHANGED at
    BY <1>3 DEF Steers, StartMonitor, StartWindow, Opens, X11Refused, X11Spawn, X11Stop, Size, PortalOpen,
       RequestPortalSession, PortalSpawn, Probed, PortalStop, SyntheticStart, SyntheticStop, AlreadyRuns, captureVars
  <2> QED
    BY <1>3, <2>1, SteersKeeps
<1>4. CASE CaptureLoop
  <2>1. UNCHANGED <<pc, work>>
    BY <1>4, CaptureLoopKeeps
  <2>2. CASE Top \/ PollDamage \/ Emit \/ Leave
    BY <2>1, <2>2 DEF Top, PollWindowLifecycle, PollDamage, Emit, Leave
  <2>3. ASSUME Grab \/ Lost PROVE at' = "emit" => grabbed' # None
    <3>1. ASSUME NEW lost \in BOOLEAN PROVE [content |-> screen, lost |-> lost, data |-> "own"] # None
      BY OwnFrame, FeedAssumption
    <3> QED
      BY <2>3, <3>1 DEF Grab, Lost
  <2> QED
    BY <1>4, <2>1, <2>2, <2>3 DEF CaptureLoop
<1>5. CASE StreamLoop
  BY <1>5, CaptureLoopKeeps DEF StreamLoop, MakeLoop, Connect, Process, Deliver, Connected, LoopEnds
<1>6. CASE SyntheticLoop
  BY <1>6 DEF SyntheticLoop
<1>7. CASE Configure \/ Close \/ Unplug \/ Draw \/ Compose
  BY <1>7, <1>k, WorldKeeps DEF feedVars, feedData, captureVars
<1>8. CASE Substitute \/ Destroy
  BY <1>8, <1>k DEF Substitute, Destroy, feedVars, feedData, captureVars
<1>9. ASSUME NEW t \in Threads, DisplayJoined(t) PROVE InHand'
  BY <1>9 DEF DisplayJoined, feedData
<1> QED
  BY <1>1, <1>2, <1>3, <1>4, <1>5, <1>6, <1>7, <1>8, <1>9, StepKinds

LEMMA FrozenSetupNext ==
  ASSUME PlacesOK, FrozenSetup, Next
  PROVE  FrozenSetup'
<1>s. UNCHANGED setup
  BY SetupFixed
<1>k. ASSUME frozen' = frozen \/ frozen' = FALSE PROVE FrozenSetup'
  BY <1>k, <1>s DEF FrozenSetup
<1>1. CASE Session
  <2>1. CASE SetFreezeStream /\ setup \in Freezes
    BY <2>1, <1>s DEF FrozenSetup
  <2>2. ASSUME NEW t \in Threads, Stop(t) \/ StopMediaPipeline(t) \/ JoinEncoder(t) PROVE FrozenSetup'
    BY <2>2, <1>k DEF Stop, StopMediaPipeline, JoinEncoder
  <2>3. CASE TakeFrame \/ ProcessVideoFrame \/ StartStreamingMedia \/ Started \/ AdaptationEnds
             \/ StartFailed(reconnects > 0 /\ ~stop) \/ UserStops
    BY <2>3, <1>k DEF TakeFrame, ProcessVideoFrame, StartStreamingMedia, Started, AdaptationEnds, StartFailed,
       UserStops, feedData
  <2> QED
    BY <1>1, <2>1, <2>2, <2>3 DEF Session, FeedNext
<1>2. CASE ConnectionLost
  BY <1>2, <1>k DEF ConnectionLost, Reconnect, feedData
<1>3. CASE Steers
  BY <1>3, <1>k, SteersKeeps
<1>4. CASE CaptureLoop \/ StreamLoop
  BY <1>4, <1>k, CaptureLoopKeeps
<1>5. CASE Configure \/ Close \/ Unplug \/ Draw \/ Compose
  BY <1>5, <1>k, WorldKeeps DEF feedVars, feedData
<1>6. CASE SyntheticLoop \/ Substitute \/ Destroy
  BY <1>6, <1>k DEF SyntheticLoop, Substitute, Destroy, feedVars, feedData
<1>7. ASSUME NEW t \in Threads, DisplayJoined(t) PROVE FrozenSetup'
  BY <1>7, <1>k DEF DisplayJoined, feedData
<1> QED
  BY <1>1, <1>2, <1>3, <1>4, <1>5, <1>6, <1>7, StepKinds

\* With a monitor only the damage object sends events.
LEMMA QueueSteps ==
  ASSUME Next, ~WindowMode
  PROVE  queue' \in {queue, <<>>} \/ (queue' = Append(queue, <<"damage">>) /\ Draw)
<1>1. CASE X11
  <2>1. CASE StartMonitor \/ StartWindow \/ X11Refused \/ X11Spawn
    BY <2>1 DEF StartMonitor, StartWindow, Opens, X11Refused, X11Spawn, x11Vars
  <2>2. ASSUME NEW t \in Threads, X11Stop(t) PROVE queue' = queue
    BY <2>2 DEF X11Stop, x11Vars
  <2>3. CASE CaptureLoop
    BY <2>3 DEF CaptureLoop, Top, PollDamage, Grab, Lost, Emit, Leave, x11Vars
  <2>4. CASE Configure \/ Close \/ Unplug \/ Draw
    BY <2>4 DEF Configure, Close, Unplug, Draw
  <2> QED
    BY <1>1, <2>1, <2>2, <2>3, <2>4 DEF X11
<1>2. CASE Portal \/ Synthetic \/ AlreadyRuns \/ Destroy \/ \E t \in Threads : DisplayJoined(t)
  BY <1>2 DEF Portal, Synthetic, SyntheticStart, SyntheticLoop, SyntheticStop, Substitute, AlreadyRuns, Destroy,
     DisplayJoined, rest, x11Vars
<1>3. CASE Session \/ ConnectionLost
  BY <1>3, SessionKeeps DEF x11Vars
<1> QED
  BY <1>1, <1>2, <1>3 DEF Next

LEMMA DamageEventsNext ==
  ASSUME DamageEvents, Next
  PROVE  DamageEvents'
<1>1. WindowMode' = WindowMode
  BY SetupFixed DEF WindowMode
<1>2. CASE ~WindowMode
  <2>1. queue \in Seq({<<"damage">>})
    BY <1>2 DEF DamageEvents
  <2>2. <<>> \in Seq({<<"damage">>}) /\ Append(queue, <<"damage">>) \in Seq({<<"damage">>})
    BY <2>1
  <2> QED
    BY <1>2, <2>1, <2>2, QueueSteps DEF DamageEvents
<1> QED
  BY <1>1, <1>2 DEF DamageEvents

LEMMA FrameInit == Init => FrameInv
<1> SUFFICES ASSUME Init PROVE FrameInv
  OBVIOUS
<1>1. slot = None /\ work = None /\ grabbed = None /\ at = "off" /\ frozen = FALSE /\ queue = <<>>
  BY DEF Init, FeedInit, X11Init
<1>2. pc["encoder"] = "ended"
  BY DEF Init, FeedInit, Threads
<1> QED
  BY <1>1, <1>2 DEF FrameInv, LossOfWindow, Reports, InHand, FrozenSetup, DamageEvents

LEMMA FrameNext ==
  ASSUME FlowInv, FrameInv, [Next]_vars
  PROVE  FrameInv'
<1>1. CASE Next
  <2>1. PlacesOK /\ FramesOK
    BY DEF FlowInv, FlowTypeOK
  <2> QED
    BY <1>1, <2>1, LossOfWindowNext, InHandNext, FrozenSetupNext, DamageEventsNext DEF FrameInv
<1>2. CASE UNCHANGED vars
  BY <1>2 DEF vars, rest, feedVars, feedData, captureVars, x11Vars, FrameInv, LossOfWindow, Reports, InHand,
     FrozenSetup, DamageEvents, WindowMode
<1> QED
  BY <1>1, <1>2

-----------------------------------------------------------------------------
(* The loss of a window.                                                     *)

\* A capturer that was not started yet is at rest.
LEMMA NotStarted ==
  ASSUME FlowInv, backend = "x11", pc["starter"] \in {"media", "capture", "listen"}, owner \in {None, "starter"}
  PROVE  ~running /\ at \in {"off", "ended"}
<1>1. ~running /\ AwaitsEnd /\ Locked
  BY DEF FlowInv, Timely, Rests
<1>2. \A t \in Threads : pc[t] # "displayJoin"
  BY <1>1, FeedAssumption DEF Locked, Dropping, Threads
<1> QED
  BY <1>1, <1>2 DEF AwaitsEnd

LEMMA LossReportedNext ==
  ASSUME FlowInv, FrameInv, LossReported, [Next]_vars,
         \A s \in Freezes : s.kind # "window"
  PROVE  LossReported'
<1> USE Actors, GotoAt, CallAt, ReturnedAt
<1> DEFINE OnItsWay == Reports(slot) \/ (pc["encoder"] = "work" /\ work.lost) \/ pc["encoder"] = "stop"
           Ended2 == at \in {"leave", "ended"}
           Going == pc["starter"] \in {"started", "streaming"}
<1> SUFFICES ASSUME backend' = "x11", streaming', ~stop', Going', Ended2'
             PROVE  OnItsWay'
  BY DEF LossReported
<1>x. backend = "x11"
  BY StaysX11
<1>p. PlacesOK /\ FramesOK /\ Locked /\ NoStream /\ AwaitsEnd /\ Rests
  BY <1>x DEF FlowInv, FlowTypeOK, Timely
<1>b. ASSUME streaming, ~stop, Going, Ended2 PROVE OnItsWay
  BY <1>b, <1>x DEF LossReported
<1>k. CASE UNCHANGED <<slot, work, streaming, stop, at>> /\ pc'["encoder"] = pc["encoder"] /\ (Going' => Going)
  BY <1>b, <1>k DEF Reports
<1>1. CASE Session
  <2> SUFFICES ASSUME FeedNext \/ StartFailed(reconnects > 0 /\ ~stop) \/ UserStops \/ SetFreezeStream,
                      UNCHANGED at
               PROVE  OnItsWay'
    BY <1>1 DEF Session, captureVars
  <2>1. CASE TakeFrame
    BY <2>1, <1>b, <1>p DEF TakeFrame, Reports, Threads
  <2>2. CASE ProcessVideoFrame
    <3>1. UNCHANGED <<slot, streaming, stop>> /\ pc["encoder"] = "work" /\ pc'["starter"] = pc["starter"]
      BY <2>2, <1>p DEF ProcessVideoFrame, Threads
    <3>2. CASE Reports(slot)
      BY <3>1, <3>2 DEF Reports
    <3>3. CASE ~Reports(slot)
      <4>1. work.lost /\ work # None
        BY <3>1, <3>3, <1>b DEF FrameInv, InHand
      <4>2. ~frozen
        BY <4>1 DEF FrameInv, LossOfWindow, Reports, FrozenSetup, WindowMode
      <4> QED
        BY <2>2, <3>1, <4>1, <4>2, <1>p DEF ProcessVideoFrame
    <3> QED
      BY <3>2, <3>3
  <2>3. CASE StartStreamingMedia
    <3>1. pc'["starter"] \in {"stop", "pipeline", "capture"}
      <4>1. CASE pc' = [pc EXCEPT !["encoder"] = "wait", !["starter"] = "capture"]
        BY <4>1, <1>p DEF PlacesOK
      <4> QED
        BY <2>3, <4>1, <1>p DEF StartStreamingMedia
    <3> QED
      BY <3>1
  <2>4. CASE Started
    BY <2>4, <1>b, <1>p DEF Started, Reports, Threads
  <2>5. CASE AdaptationEnds
    BY <2>5, <1>p DEF AdaptationEnds
  <2>6. ASSUME NEW t \in Threads, Stop(t) PROVE OnItsWay'
    BY <2>6 DEF Stop
  <2>7. ASSUME NEW t \in Threads, StopMediaPipeline(t) PROVE OnItsWay'
    BY <2>7 DEF StopMediaPipeline
  <2>8. ASSUME NEW t \in Threads, JoinEncoder(t) PROVE OnItsWay'
    BY <2>8, <1>p DEF JoinEncoder, NoStream, Dropping
  <2>9. CASE StartFailed(reconnects > 0 /\ ~stop)
    BY <2>9, <1>p DEF StartFailed
  <2>10. CASE UserStops \/ SetFreezeStream
    BY <2>10, <1>k, <1>p DEF UserStops, SetFreezeStream, feedData, Threads
  <2> QED
    BY <2>1, <2>2, <2>3, <2>4, <2>5, <2>6, <2>7, <2>8, <2>9, <2>10 DEF FeedNext
<1>2. CASE ConnectionLost
  BY <1>2, <1>p DEF ConnectionLost, Reconnect
<1>3. CASE X11
  <2>1. CASE Opens \/ X11Refused
    BY <2>1, <1>p DEF Opens, X11Refused
  <2>2. CASE X11Spawn
    BY <2>2 DEF X11Spawn
  <2>3. ASSUME NEW t \in Threads, X11Stop(t) PROVE OnItsWay'
    BY <2>3, <1>p DEF X11Stop, NoStream, Dropping, feedData
  <2>4. CASE Top
    <3>1. ~running /\ streaming
      BY <2>4 DEF Top, PollWindowLifecycle, feedVars, feedData
    <3> QED
      BY <2>4, <3>1, <1>p DEF Top, AwaitsEnd, NoStream, Dropping
  <2>5. CASE PollDamage \/ Grab \/ Lost
    BY <2>5 DEF PollDamage, Grab, Lost
  <2>6. CASE Emit
    <3>1. streaming /\ ~stop /\ at = "emit" /\ grabbed.lost /\ slot' = grabbed
      BY <2>6 DEF Emit, QueueCapturedVideoFrame
    <3> QED
      BY <3>1 DEF FrameInv, InHand, Reports
  <2>7. CASE Leave
    BY <2>7, <1>b DEF Leave, feedVars, feedData, Reports
  <2>8. CASE Configure \/ Close \/ Unplug \/ Draw
    BY <2>8, <1>k, WorldKeeps DEF feedVars, feedData, captureVars
  <2> QED
    BY <1>3, <2>1, <2>2, <2>3, <2>4, <2>5, <2>6, <2>7, <2>8 DEF X11, CaptureLoop, StartMonitor, StartWindow
<1>4. CASE Portal
  <2>1. CASE Size
    BY <1>x, <2>1, <1>p DEF Size
  <2>2. CASE RequestPortalSession \/ PortalSpawn \/ Probed
    BY <1>x, <2>2, <1>p DEF RequestPortalSession, PortalSpawn, Probed, Locked
  <2> QED
    BY <1>x, <1>4, <2>1, <2>2 DEF Portal, PortalOpen, StreamLoop, PortalStop
<1>5. CASE Synthetic
  BY <1>x, <1>5 DEF Synthetic, SyntheticStart, SyntheticLoop, SyntheticStop, Substitute
<1>6. CASE AlreadyRuns
  BY <1>x, <1>6, <1>p DEF AlreadyRuns, Rests
<1>7. CASE Destroy
  BY <1>7, FeedAssumption DEF Destroy
<1>8. ASSUME NEW t \in Threads, DisplayJoined(t) PROVE OnItsWay'
  BY <1>8, <1>p DEF DisplayJoined
<1>9. CASE UNCHANGED vars
  BY <1>9, <1>k DEF vars, feedVars, feedData, captureVars
<1> QED
  BY <1>1, <1>2, <1>3, <1>4, <1>5, <1>6, <1>7, <1>8, <1>9 DEF Next

-----------------------------------------------------------------------------
(* What XDamage lets the thread skip.                                        *)

LEMMA AnyEventIsDamage ==
  ASSUME NEW q \in Seq({<<"damage">>})
  PROVE  (\E i \in DOMAIN q : q[i][1] = "damage") <=> q # <<>>
<1>1. ASSUME NEW i \in DOMAIN q PROVE q[i][1] = "damage"
  <2>1. q[i] = <<"damage">>
    BY <1>1
  <2> QED
    BY <2>1
<1>2. q # <<>> <=> 1 \in DOMAIN q
  OBVIOUS
<1>3. q = <<>> => DOMAIN q = {}
  OBVIOUS
<1> QED
  BY <1>1, <1>2, <1>3

LEMMA WatchingNext ==
  ASSUME FlowInv, FrameInv, Watching, [Next]_vars,
         \A s \in Freezes : ~s.damage \/ s.kind = "window"
  PROVE  Watching'
<1> USE Actors, GotoAt, CallAt, ReturnedAt
<1> DEFINE Parts == Restarted /\ Hears /\ GrabIsNewest /\ OfferedIsNewest
<1> SUFFICES ASSUME Skips' PROVE Parts'
  BY DEF Watching
<1>s. UNCHANGED setup /\ ~WindowMode
  BY SetupFixed DEF Skips, WindowMode
<1>x. backend = "x11" /\ Skips /\ setup.damage
  BY StaysX11, <1>s DEF Skips
<1>p. PlacesOK /\ FramesOK /\ Locked /\ NoStream /\ AwaitsEnd /\ Rests /\ undamaged \in Nat
  BY <1>x DEF FlowInv, FlowTypeOK, Timely, SourceOK
<1>w. Restarted /\ Hears /\ GrabIsNewest /\ OfferedIsNewest
  BY <1>x DEF Watching
<1>f. at # "lost" /\ ~Reports(slot) /\ ~Reports(work) /\ ~Reports(grabbed) /\ ~frozen
  BY <1>s, <1>x DEF FrameInv, LossOfWindow, FrozenSetup, WindowMode
<1>d. Damaged <=> queue # <<>>
  BY <1>s, AnyEventIsDamage DEF Damaged, FrameInv, DamageEvents
<1>e. Damaged' <=> queue' # <<>>
  <2>1. queue' \in Seq({<<"damage">>})
    BY <1>s, FrameNext DEF FrameInv, DamageEvents, WindowMode
  <2> QED
    BY <2>1, AnyEventIsDamage DEF Damaged
<1> USE DEF Restarted, Hears, GrabIsNewest, OfferedIsNewest
\* Steps that leave the capturer alone and do away with no frame.
<1>k. ASSUME UNCHANGED <<undamaged, armed, queue, at, grabbed, screen>>,
             pc'["starter"] = "listen" => pc["starter"] = "listen",
             streaming' /\ ~stop' /\ at \in {"top", "damage"} => streaming /\ ~stop /\ Newest' = Newest
      PROVE  Parts'
  BY <1>k, <1>w, <1>d, <1>e
<1>1. CASE Session \/ ConnectionLost
  <2>u. UNCHANGED <<undamaged, armed, queue, at, grabbed, screen>>
    BY <1>1, SessionKeeps DEF captureVars, outside, x11Vars
  <2>1. CASE TakeFrame
    BY <2>1, <2>u, <1>k, <1>p DEF TakeFrame, Newest, Threads
  <2>2. CASE ProcessVideoFrame
    <3>1. UNCHANGED <<slot, streaming, stop>> /\ pc["encoder"] = "work" /\ pc'["starter"] = pc["starter"]
      BY <2>2, <1>p DEF ProcessVideoFrame, Threads
    <3>2. ASSUME streaming' PROVE Newest' = Newest
      <4>1. work # None
        BY <3>1 DEF FrameInv, InHand
      <4>2. ~work.lost /\ ~frozen /\ streaming
        BY <4>1, <1>f, <3>1, <3>2 DEF Reports
      <4>3. offered' = work /\ pc'["encoder"] = "wait"
        BY <2>2, <4>2, <1>p DEF ProcessVideoFrame, Offer
      <4> QED
        BY <3>1, <4>3 DEF Newest
    <3> QED
      BY <2>u, <3>1, <3>2, <1>k
  <2>3. CASE StartStreamingMedia
    <3>1. pc["starter"] = "media" /\ owner = None
      BY <2>3 DEF StartStreamingMedia
    <3>2. at \in {"off", "ended"}
      BY <1>x, <3>1, NotStarted
    <3>3. pc'["starter"] \in {"stop", "pipeline", "capture"}
      <4>1. CASE pc' = [pc EXCEPT !["encoder"] = "wait", !["starter"] = "capture"]
        BY <4>1, <1>p DEF PlacesOK
      <4> QED
        BY <2>3, <4>1, <1>p DEF StartStreamingMedia
    <3> QED
      BY <2>u, <3>2, <3>3
  <2>4. CASE Started \/ AdaptationEnds \/ StartFailed(reconnects > 0 /\ ~stop) \/ Reconnect
    <3>1. pc'["encoder"] = pc["encoder"] /\ pc'["starter"] # "listen"
      BY <2>4, <1>p DEF Started, AdaptationEnds, StartFailed, Reconnect, Threads
    <3>2. UNCHANGED <<slot, work, offered, encoded, streaming, stop>>
      BY <2>4 DEF Started, AdaptationEnds, StartFailed, Reconnect, feedData
    <3> QED
      BY <2>u, <3>1, <3>2, <1>k DEF Newest
  <2>5. ASSUME NEW t \in Threads, Stop(t) PROVE Parts'
    <3>1. \A u \in Threads : pc'[u] = pc[u] \/ (u = t /\ pc[u] = "stop" /\ pc'[u] \notin {"work", "listen"})
      BY <2>5, <1>p DEF Stop, Backs
    <3>2. UNCHANGED <<slot, work, offered, encoded, streaming>> /\ (~stop' => ~stop)
      BY <2>5 DEF Stop
    <3> QED
      BY <2>u, <3>1, <3>2, <1>k DEF Newest
  <2>6. ASSUME NEW t \in Threads, StopMediaPipeline(t) PROVE Parts'
    BY <2>6, <2>u, <1>k, <1>p DEF StopMediaPipeline
  <2>7. ASSUME NEW t \in Threads, JoinEncoder(t) PROVE Parts'
    <3>1. \A u \in Threads : pc'[u] = pc[u] \/ (u = t /\ pc[u] = "join" /\ pc'[u] \notin {"work", "listen"})
      BY <2>7, <1>p DEF JoinEncoder, Backs
    <3>2. UNCHANGED <<slot, work, offered, encoded, streaming, stop>>
      BY <2>7 DEF JoinEncoder
    <3> QED
      BY <2>u, <3>1, <3>2, <1>k DEF Newest
  <2>8. CASE UserStops \/ SetFreezeStream
    <3>1. UNCHANGED <<slot, work, offered, encoded, streaming, stop>>
      BY <2>8 DEF UserStops, SetFreezeStream, feedData
    <3>2. pc'["encoder"] = pc["encoder"] /\ pc'["starter"] = pc["starter"]
      BY <2>8, <1>p DEF UserStops, SetFreezeStream, Threads
    <3> QED
      BY <2>u, <3>1, <3>2, <1>k DEF Newest
  <2> QED
    BY <1>1, <2>1, <2>2, <2>3, <2>4, <2>5, <2>6, <2>7, <2>8 DEF Session, FeedNext, ConnectionLost
<1>2. CASE X11
  <2>1. CASE StartMonitor
    <3>1. pc["starter"] = "capture" /\ undamaged' = 0 /\ armed' = setup.damage
          /\ UNCHANGED <<at, grabbed, screen>>
      BY <2>1 DEF StartMonitor, Opens, SetupDamage, captureVars, outside
    <3>2. at \in {"off", "ended"}
      BY <1>x, <3>1, <1>p, NotStarted DEF Locked, Building
    <3> QED
      BY <3>1, <3>2, <1>x
  <2>2. CASE StartWindow
    BY <1>s, <2>2 DEF StartWindow
  <2>3. CASE X11Refused
    BY <2>3, <1>p, <1>k DEF X11Refused, feedData, captureVars, outside, x11Vars, Newest, Threads
  <2>4. CASE X11Spawn
    BY <2>4, <1>p, <1>w, <1>d, <1>e DEF X11Spawn
  <2>5. ASSUME NEW t \in Threads, X11Stop(t) PROVE Parts'
    <3>1. UNCHANGED <<undamaged, armed, queue, at, grabbed, screen, slot, work, offered, streaming, stop>>
      BY <2>5 DEF X11Stop, feedData, outside, x11Vars
    <3>2. \A u \in Threads : pc'[u] = pc[u] \/ (pc[u] = "display" /\ pc'[u] \notin {"work", "listen"})
      BY <2>5, <1>p DEF X11Stop
    <3> QED
      BY <3>1, <3>2, <1>k DEF Newest
  <2>6. CASE CaptureLoop
    <3>u. UNCHANGED <<streaming, stop, work, offered, pc, screen>>
      BY <2>6, CaptureLoopKeeps
    <3>1. CASE Top
      BY <3>1, <3>u, <1>s, <1>w, <1>d, <1>e DEF Top, feedVars, feedData, Newest
    <3>2. CASE PollDamage
      <4>1. at = "damage" /\ queue' = <<>> /\ armed' = (armed \/ Damaged) /\ at' \in {"top", "grab"}
            /\ UNCHANGED <<slot, grabbed>>
        BY <3>2, <1>x DEF PollDamage, feedVars, feedData
      <4>2. armed'
        BY <4>1, <1>w
      <4>3. undamaged' = 0 \/ (~Damaged /\ undamaged > 0) \/ at' = "grab"
        BY <3>2, <1>x, <1>s, <1>p DEF PollDamage, kDamageSkipThreshold
      <4>4. pc["starter"] = "listen" => undamaged' = 0
        BY <1>x, <4>1, <1>p, NotStarted DEF Locked, Building
      <4> QED
        BY <3>u, <4>1, <4>2, <4>3, <4>4, <1>w DEF Newest
    <3>3. CASE Grab
      BY <3>3, <3>u, <1>s, <1>w, <1>d, <1>e DEF Grab, x11Vars
    <3>4. CASE Lost
      BY <3>4, <1>f DEF Lost
    <3>5. CASE Emit
      <4>1. grabbed # None /\ ~grabbed.lost /\ at = "emit"
        BY <3>5, <1>f DEF Emit, FrameInv, InHand, Reports
      <4>2. at' = "top" /\ UNCHANGED <<undamaged, armed, queue>>
        BY <3>5, <4>1 DEF Emit, x11Vars
      <4>3. streaming /\ ~stop => Newest' = grabbed
        BY <3>5, <4>1 DEF Emit, QueueCapturedVideoFrame, Newest
      <4> QED
        BY <3>u, <4>1, <4>2, <4>3, <1>w, <1>d, <1>e
    <3>6. CASE Leave
      BY <3>6, <3>u, <1>w, <1>d, <1>e DEF Leave, x11Vars
    <3> QED
      BY <2>6, <3>1, <3>2, <3>3, <3>4, <3>5, <3>6 DEF CaptureLoop
  <2>7. CASE Configure \/ Close
    BY <1>s, <2>7 DEF Configure, Close
  <2>8. CASE Unplug
    BY <2>8, <1>k DEF Unplug, feedVars, feedData, captureVars, outside, Newest
  <2>9. CASE Draw
    <3>1. UNCHANGED <<pc, at, undamaged>> /\ queue' = (IF armed THEN Append(queue, <<"damage">>) ELSE queue)
      BY <2>9 DEF Draw, feedVars, captureVars
    <3>2. queue \in Seq({<<"damage">>})
      BY <1>s DEF FrameInv, DamageEvents
    <3>3. armed \/ Damaged => Damaged'
      BY <3>1, <3>2, <1>d, <1>e
    <3> QED
      BY <3>1, <3>3, <1>w
  <2> QED
    BY <1>2, <2>1, <2>2, <2>3, <2>4, <2>5, <2>6, <2>7, <2>8, <2>9 DEF X11
<1>3. CASE Portal
  <2>1. CASE Size
    BY <1>x, <2>1, <1>3, <1>p, <1>k DEF Size, Portal, captureVars, outside, x11Vars, Newest, Threads
  <2>2. CASE RequestPortalSession \/ PortalSpawn \/ Probed
    BY <1>x, <2>2, <1>p DEF RequestPortalSession, PortalSpawn, Probed, Locked
  <2> QED
    BY <1>x, <1>3, <2>1, <2>2 DEF Portal, PortalOpen, StreamLoop, PortalStop
<1>4. CASE Synthetic
  <2>1. CASE Substitute
    BY <2>1 DEF Substitute, Skips
  <2> QED
    BY <1>x, <1>4, <2>1 DEF Synthetic, SyntheticStart, SyntheticLoop, SyntheticStop
<1>5. CASE AlreadyRuns
  BY <1>5, <1>p, <1>k DEF AlreadyRuns, feedData, captureVars, outside, rest, x11Vars, Newest, Threads
<1>6. CASE Destroy
  BY <1>6, FeedAssumption DEF Destroy, Skips
<1>7. ASSUME NEW t \in Threads, DisplayJoined(t) PROVE Parts'
  <2>1. pc'["starter"] = "listen" => pc["starter"] = "listen"
    BY <1>7, <1>p DEF DisplayJoined
  <2>2. at' = "off" /\ UNCHANGED <<undamaged, armed, queue>>
    BY <1>7 DEF DisplayJoined, x11Vars
  <2> QED
    BY <2>1, <2>2, <1>w, <1>d, <1>e
<1>8. CASE UNCHANGED vars
  BY <1>8, <1>k DEF vars, rest, feedVars, feedData, captureVars, outside, x11Vars, Newest
<1> QED
  BY <1>1, <1>2, <1>3, <1>4, <1>5, <1>6, <1>7, <1>8 DEF Next

-----------------------------------------------------------------------------

LEMMA FrameAlways == Spec => [](FlowInv /\ FrameInv)
<1>1. FlowInv /\ FrameInv /\ [Next]_vars => (FlowInv /\ FrameInv)'
  BY FlowNext, FrameNext
<1>2. Init => FlowInv /\ FrameInv
  BY FlowInit, FrameInit
<1> QED
  BY <1>1, <1>2, PTL DEF Spec

\* A window that the X11 thread saw close ends a cast that cannot be frozen: the
\* report is neither dropped by the session nor overtaken by another frame
\* (PollWindowLifecycle, QueueCapturedVideoFrame, ProcessVideoFrame).
THEOREM LossFailsAlways ==
  ASSUME \A s \in Freezes : s.kind # "window"
  PROVE  Spec => []LossFails
<1>1. Init => LossReported
  BY DEF Init, FeedInit, LossReported
<1>2. FlowInv /\ FrameInv /\ LossReported /\ [Next]_vars => LossReported'
  BY LossReportedNext
<1>3. FlowInv /\ LossReported => LossFails
  BY DEF LossReported, LossFails, AtRest, Reports
<1> QED
  BY <1>1, <1>2, <1>3, FrameAlways, FlowAlways, PTL DEF Spec

\* While XDamage lets the X11 thread skip its passes over a monitor that cannot
\* be frozen, the newest picture has reached the encoder, across restarts of the
\* capturer and whatever the screen does between two of its steps (SetupDamage,
\* PollDamage, CaptureLoop, ProcessVideoFrame).
THEOREM NewestOfferedAlways ==
  ASSUME \A s \in Freezes : ~s.damage \/ s.kind = "window"
  PROVE  Spec => []NewestOffered
<1>1. Init => Watching
  <2> SUFFICES ASSUME Init PROVE Watching
    OBVIOUS
  <2>1. undamaged = 0 /\ at = "off" /\ pc["starter"] = "size"
    BY DEF Init, FeedInit, X11Init, Threads
  <2> QED
    BY <2>1 DEF Watching, Restarted, Hears, GrabIsNewest, OfferedIsNewest
<1>2. FlowInv /\ FrameInv /\ Watching /\ [Next]_vars => Watching'
  BY WatchingNext
<1>3. FrameInv /\ Watching => NewestOffered
  <2> SUFFICES ASSUME FrameInv, Watching, AtRest, backend = "x11", ~WindowMode, setup.damage,
                      at = "top", queue = <<>>, undamaged > 0
               PROVE  offered # None /\ offered.content = screen
    BY DEF NewestOffered, Skipping
  <2>1. ~Damaged
    BY AnyEventIsDamage DEF FrameInv, DamageEvents, Damaged
  <2>2. Newest = offered
    BY DEF AtRest, Newest
  <2> QED
    BY <2>1, <2>2 DEF Watching, Skips, OfferedIsNewest, AtRest
<1> QED
  BY <1>1, <1>2, <1>3, FrameAlways, FlowAlways, PTL DEF Spec
=============================================================================
