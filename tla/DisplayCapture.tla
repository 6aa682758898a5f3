-------------------------- MODULE DisplayCapture --------------------------
(***************************************************************************)
(* The capture worker of DisplayCaptureWgc (display_capture_wgc.cc):       *)
(* CaptureLoop, which duplicates a desktop output for a monitor or for the *)
(* crop of a window, WindowCaptureLoop, which captures a window through    *)
(* Windows.Graphics.Capture, and EmitPacedFrame, which draws the pointer   *)
(* and the latency HUD over the frame the pacer chose and hands it to the  *)
(* session.  One stream is modelled, from Start to the end of the worker.  *)
(* The loop's time is a clock that only its steps advance.  Pixel formats, *)
(* sizes and crops are left out; what DXGI, the window manager and the     *)
(* pointer answer is a choice.                                             *)
(***************************************************************************)
EXTENDS FramePacer

CONSTANTS
  Modes,        \* a non-empty subset of {"monitor", "crop", "wgc"}
  Gaps,         \* how long one pass of the loop may take
  Ages,         \* how far a present time may lie behind the clock
  Pointers,     \* the pointer's positions; NoPointer when it is hidden
  NoPointer,
  NoOverlay,    \* overlay_cache_valid_ is false
  MaxRetries,   \* kMaxDuplicationRetries
  Horizon       \* bound: by this time the owner has called Stop

ASSUME CaptureAssumption ==
  /\ Modes \subseteq {"monitor", "crop", "wgc"} /\ Modes # {}
  /\ Gaps \subseteq Nat \ {0} /\ Ages \subseteq Nat
  /\ MaxRetries \in Nat /\ Horizon \in Nat
  /\ NoPointer \notin Pointers
  /\ NoOverlay \notin [frame : Frame, pointer : Pointers]

VARIABLES
  pc,           \* where the worker is
  mode,         \* which loop runs, on what source
  running,      \* running_
  stopped,      \* the owner called Stop
  frameStart,   \* the pass's frame_start
  dupl,         \* desk_dupl_ is live
  retries,      \* dupl_retries
  presentTs,    \* last_present_ts_, 0 while have_last_present_ts_ is false
  captured,     \* number of the newest frame staged
  overlay,      \* the composited copy kept for re-sends
  delivered,    \* the latest frame given to the session's callback
  lostEmitted   \* source_lost_emitted_

loopVars == <<pc, mode, running, stopped, frameStart, dupl, retries,
              presentTs, captured, overlay, delivered, lostEmitted>>
vars == <<pacerVars, now, loopVars>>

Places == {"top", "tick", "emit", "source", "seed", "guard", "acquire", "acquired", "ended"}

TypeOK ==
  /\ PacerTypeOK
  /\ frameStart \in Nat /\ presentTs \in Nat /\ captured \in Nat
  /\ pc \in Places /\ mode \in Modes
  /\ running \in BOOLEAN /\ stopped \in BOOLEAN /\ dupl \in BOOLEAN /\ lostEmitted \in BOOLEAN
  /\ retries \in 0..MaxRetries
  /\ overlay \in [frame : Frame, pointer : Pointers] \cup {NoOverlay}
  /\ delivered \in Frame \cup {NoFrame}

\* Start: the duplication was created, or the window source was.  The stream
\* starts some time after the clock's epoch.
Init ==
  /\ now = 1 /\ NewPacer(now)
  /\ pc = "top" /\ mode \in Modes
  /\ running = TRUE /\ stopped = FALSE
  /\ frameStart = 1
  /\ dupl = (mode # "wgc") /\ retries = 0
  /\ presentTs = 0 /\ captured = 0
  /\ overlay = NoOverlay /\ delivered = NoFrame /\ lostEmitted = FALSE

-----------------------------------------------------------------------------

Goto(place) == pc' = place
Pass == \E d \in Gaps : now' = now + d

\* A new frame, stamped ts, is staged for the pacer.
Stage(ts) ==
  /\ captured' = captured + 1
  /\ Submit([id |-> captured + 1, ts |-> ts])

\* EmitSourceLost: the one-shot frame that fails the session.
EmitSourceLost == lostEmitted' = TRUE

\* break out of the loop: running_ = false follows.
Leave == Goto("ended") /\ running' = FALSE

\* The loop condition, the clock and the target rate read at the top.
Top ==
  /\ pc = "top"
  /\ IF running
       THEN /\ now < Horizon
            /\ frameStart' = now
            /\ \E i \in Intervals : SetTargetFps(i)
            /\ Goto("tick")
       ELSE /\ Goto("ended")
            /\ UNCHANGED <<frameStart, pacerVars>>
  /\ UNCHANGED <<now, mode, running, stopped, dupl, retries, presentTs, captured,
                 overlay, delivered, lostEmitted>>

TickPacer ==
  /\ pc = "tick"
  /\ Tick(frameStart)
  /\ Goto("emit")
  /\ UNCHANGED <<now, mode, running, stopped, frameStart, dupl, retries, presentTs,
                 captured, overlay, delivered, lostEmitted>>

\* Faulty EmitPacedFrame: the composite is kept when the pointer is not drawn.
EmitPacedFrameKeepsComposite(want, hud, pointer) ==
  IF want /\ ~hud /\ ~decision.fresh /\ overlay # NoOverlay /\ overlay.pointer = pointer
    THEN delivered' = overlay.frame /\ UNCHANGED overlay
    ELSE /\ delivered' = decision.frame
         /\ overlay' = IF want /\ pointer # NoPointer
                         THEN [frame |-> decision.frame, pointer |-> pointer] ELSE overlay

\* CompositeCursor: what a drawn frame looks like is told by the frame and the
\* place of the pointer.
CompositeCursor(frame, pointer) == [frame |-> frame, pointer |-> pointer]

\* What EmitPacedFrame keeps for re-sends: a composite that shows the pointer
\* and nothing else.
Composite(want, pointer) ==
  IF want /\ pointer # NoPointer
    THEN CompositeCursor(decision.frame, pointer)
    ELSE NoOverlay

\* can_reuse: a re-send whose pointer has not moved since the composite.
CanReuse(want, hud, pointer) ==
  /\ want /\ ~hud /\ ~decision.fresh
  /\ overlay # NoOverlay
  /\ pointer = overlay.pointer

EmitPacedFrame(want, hud, pointer) ==
  IF CanReuse(want, hud, pointer)
    THEN /\ delivered' = overlay.frame
         /\ UNCHANGED overlay
    ELSE /\ delivered' = decision.frame
         /\ overlay' = Composite(want, pointer)

EmitFrame ==
  /\ pc = "emit"
  /\ IF decision.emit
       THEN \E want, hud \in BOOLEAN, pointer \in Pointers \cup {NoPointer} :
              EmitPacedFrame(want, hud, pointer)
       ELSE UNCHANGED <<delivered, overlay>>
  /\ Goto("source")
  /\ UNCHANGED <<pacerVars, now, mode, running, stopped, frameStart, dupl, retries,
                 presentTs, captured, lostEmitted>>

-----------------------------------------------------------------------------

\* The window checks of both loops.
WindowClosed ==
  /\ pc = "source" /\ mode # "monitor"
  /\ EmitSourceLost
  /\ Leave
  /\ UNCHANGED <<pacerVars, now, mode, stopped, frameStart, dupl, retries, presentTs,
                 captured, overlay, delivered>>

\* Minimised, or (desktop crop) off this output: wait and start over.
WindowHidden ==
  /\ pc = "source" /\ mode # "monitor"
  /\ Pass
  /\ Goto("top")
  /\ UNCHANGED <<pacerVars, mode, running, stopped, frameStart, dupl, retries, presentTs,
                 captured, overlay, delivered, lostEmitted>>

\* The window slid onto another output: its duplication is dropped here and
\* rebuilt by the guard.
WindowMoved ==
  /\ pc = "source" /\ mode = "crop"
  /\ dupl' = FALSE
  /\ Pass
  /\ Goto("top")
  /\ UNCHANGED <<pacerVars, mode, running, stopped, frameStart, retries, presentTs,
                 captured, overlay, delivered, lostEmitted>>

SourceReady ==
  /\ pc = "source"
  /\ Goto(IF mode = "wgc" THEN "acquire" ELSE "seed")
  /\ UNCHANGED <<pacerVars, now, mode, running, stopped, frameStart, dupl, retries,
                 presentTs, captured, overlay, delivered, lostEmitted>>

\* A desktop that is static when capture starts is seeded with a placeholder.
Seed ==
  /\ pc = "seed"
  /\ IF HasFrame THEN UNCHANGED <<pacerVars, captured>> ELSE Stage(frameStart)
  /\ Goto("guard")
  /\ UNCHANGED <<now, mode, running, stopped, frameStart, dupl, retries, presentTs,
                 overlay, delivered, lostEmitted>>

\* The guard before the acquire: a lost duplication is rebuilt within a budget.
GuardLive ==
  /\ pc = "guard" /\ dupl
  /\ Goto("acquire")
  /\ UNCHANGED <<pacerVars, now, mode, running, stopped, frameStart, dupl, retries,
                 presentTs, captured, overlay, delivered, lostEmitted>>

GuardGivesUp ==
  /\ pc = "guard" /\ ~dupl /\ retries >= MaxRetries
  /\ IF mode = "crop" THEN EmitSourceLost ELSE UNCHANGED lostEmitted
  /\ Leave
  /\ UNCHANGED <<pacerVars, now, mode, stopped, frameStart, dupl, retries, presentTs,
                 captured, overlay, delivered>>

\* CreateDuplication drops what is left of the old device and duplication and
\* makes them anew, unless the outputs or the driver refuse.
CreateDuplication(live) == dupl' = live

\* Faulty GuardRebuilds: starts over without reading the clock again.
GuardKeepsOldClock ==
  /\ pc = "guard" /\ ~dupl /\ retries < MaxRetries
  /\ \E live \in BOOLEAN :
       CreateDuplication(live) /\ retries' = IF live THEN 0 ELSE retries + 1
  /\ Pass
  /\ Goto("tick")
  /\ UNCHANGED <<pacerVars, mode, running, stopped, frameStart, presentTs, captured,
                 overlay, delivered, lostEmitted>>

\* The single site that rebuilds; whether it fails or succeeds, the pass starts
\* over.
GuardRebuilds ==
  /\ pc = "guard" /\ ~dupl /\ retries < MaxRetries
  /\ \E live \in BOOLEAN :
       CreateDuplication(live) /\ retries' = IF live THEN 0 ELSE retries + 1
  /\ Pass
  /\ Goto("top")
  /\ UNCHANGED <<pacerVars, mode, running, stopped, frameStart, presentTs, captured,
                 overlay, delivered, lostEmitted>>

\* The wait inside AcquireNextFrame, or between two TryGetFrame polls.
Acquire ==
  /\ pc = "acquire"
  /\ Pass
  /\ Goto("acquired")
  /\ UNCHANGED <<pacerVars, mode, running, stopped, frameStart, dupl, retries, presentTs,
                 captured, overlay, delivered, lostEmitted>>

\* It timed out or its frame was unusable, or TryGetFrame had nothing.
AcquiredNothing ==
  /\ pc = "acquired"
  /\ Goto("top")
  /\ UNCHANGED <<pacerVars, now, mode, running, stopped, frameStart, dupl, retries,
                 presentTs, captured, overlay, delivered, lostEmitted>>

\* DXGI_ERROR_ACCESS_LOST.
AcquiredLost ==
  /\ pc = "acquired" /\ mode # "wgc"
  /\ dupl' = FALSE
  /\ Pass
  /\ Goto("top")
  /\ UNCHANGED <<pacerVars, mode, running, stopped, frameStart, retries, presentTs,
                 captured, overlay, delivered, lostEmitted>>

\* Any other failure breaks the loop; an unsupported surface format clears
\* running_ and the loop condition ends it.
AcquiredFailure ==
  /\ pc = "acquired" /\ mode # "wgc"
  /\ Leave
  /\ UNCHANGED <<pacerVars, now, mode, stopped, frameStart, dupl, retries, presentTs,
                 captured, overlay, delivered, lostEmitted>>

\* A frame whose content was presented `age` ago.  Present times do not run
\* backwards and none lies in the future.
AcquiredContent ==
  /\ pc = "acquired"
  /\ \E age \in Ages :
       /\ now - age > presentTs
       /\ presentTs' = now - age
       /\ Stage(now - age)
  /\ Goto("top")
  /\ UNCHANGED <<now, mode, running, stopped, frameStart, dupl, retries, overlay,
                 delivered, lostEmitted>>

\* A pointer-only update has no present time of its own: it keeps the last
\* one, or the pass's start when there has been none.
AcquiredPointerOnly ==
  /\ pc = "acquired"
  /\ Stage(IF presentTs # 0 THEN presentTs ELSE frameStart)
  /\ Goto("top")
  /\ UNCHANGED <<now, mode, running, stopped, frameStart, dupl, retries, presentTs,
                 overlay, delivered, lostEmitted>>

\* The owner's Stop.
Stop ==
  /\ ~stopped
  /\ stopped' = TRUE /\ running' = FALSE
  /\ UNCHANGED <<pacerVars, now, pc, mode, frameStart, dupl, retries, presentTs, captured,
                 overlay, delivered, lostEmitted>>

\* Stop joined the worker.
Done == pc = "ended" /\ stopped /\ UNCHANGED vars

Next ==
  \/ Top \/ TickPacer \/ EmitFrame
  \/ WindowClosed \/ WindowHidden \/ WindowMoved \/ SourceReady
  \/ Seed \/ GuardLive \/ GuardGivesUp \/ GuardRebuilds
  \/ Acquire \/ AcquiredNothing \/ AcquiredLost \/ AcquiredFailure
  \/ AcquiredContent \/ AcquiredPointerOnly
  \/ Stop \/ Done

Spec == Init /\ [][Next]_vars

-----------------------------------------------------------------------------

\* The worker acquires from a live duplication only, whichever step lost the
\* one before and however often a rebuild failed: the comment on the guard
\* calls this the loop's invariant.
NoNullAcquire == (pc \in {"acquire", "acquired"} /\ mode # "wgc") => dupl

\* Every frame the session receives shows the newest capture staged before
\* its tick, also when a composite kept from an earlier tick is sent in its
\* place: a stale composite, or a queued capture, would show old content.
DeliversNewest ==
  [][(pc = "emit" /\ decision.emit /\ pc' # pc) => delivered'.id = captured]_vars

\* Once a tick's frame is out, a kept composite shows the pacer's last frame,
\* so that handing it out for a re-send changes no pixel.
OverlayMatches == (pc # "emit" /\ overlay # NoOverlay) => overlay.frame.id = last.id

\* The stream the session receives keeps the pacer's promise: each frame is
\* stamped later than the one before.  The comment in Tick says "the video
\* clock keeps real-time rate on every path".
DeliveredStampsAdvance ==
  [][(pc = "emit" /\ decision.emit /\ pc' # pc /\ delivered # NoFrame)
       => delivered'.ts > delivered.ts]_vars
=============================================================================
