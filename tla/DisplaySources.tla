---------------------------- MODULE DisplaySources ----------------------------
(***************************************************************************)
(* The capturers that DisplayCaptureFactory::Create chooses between, each  *)
(* under the session of VideoFeed.tla.  (The Windows one has a module of   *)
(* its own, DisplayCapture.tla.)                                           *)
(***************************************************************************)
EXTENDS X11Capture, PortalCapture

CONSTANTS
  Desktops,       \* records: WAYLAND_DISPLAY is set, an X display opens, X11 is forced
  TestModes,      \* the values of SyntheticCaptureAllowed
  Freezes,        \* the setups whose picture is frozen
  MaxScreen,      \* bound: changes of the screen
  MaxReconnects   \* bound

VARIABLE reconnects

rest == <<x11Vars, portalVars>>
vars == <<feedVars, captureVars, outside, rest, reconnects>>

ASSUME SourcesAssumption ==
  /\ Desktops \subseteq [wayland : BOOLEAN, x11 : BOOLEAN, forced : BOOLEAN]
  /\ Freezes \subseteq Setups /\ TestModes \subseteq BOOLEAN /\ EarlyStops \in BOOLEAN
  /\ MaxScreen \in Nat /\ MaxReconnects \in Nat

\* DisplayCaptureFactory::Create.
Create(d) ==
  IF d.wayland /\ ~d.forced THEN "portal" ELSE IF d.x11 THEN "x11" ELSE "synthetic"

Init ==
  /\ FeedInit /\ X11Init /\ PortalInit
  /\ backend \in {Create(d) : d \in Desktops}
  /\ testing \in TestModes
  /\ screen = 0 /\ reconnects = 0

-----------------------------------------------------------------------------
\* SyntheticDisplayCapture.

SyntheticStart ==
  /\ backend = "synthetic" /\ pc["starter"] = "capture" /\ ~running
  /\ running' = TRUE /\ thread' = "joinable" /\ at' = "top" /\ crashed' = (thread = "joinable")
  /\ Goto("starter", "started")
  /\ UNCHANGED <<feedData, grabbed, backend, screen, testing, rest, reconnects>>

SyntheticStop(t) ==
  /\ backend = "synthetic" /\ pc[t] = "display"
  /\ running' = FALSE /\ Goto(t, IF running THEN "displayJoin" ELSE "join")
  /\ UNCHANGED <<feedData, thread, at, grabbed, outside, rest, reconnects>>

Pattern == [content |-> 0, lost |-> FALSE, data |-> "pattern"]

SyntheticLoop ==
  /\ backend = "synthetic" /\ at = "top"
  /\ IF running THEN QueueCapturedVideoFrame(Pattern) /\ UNCHANGED at
                ELSE at' = "ended" /\ UNCHANGED slot
  /\ UNCHANGED <<streaming, stop, frozen, owner, work, encoder, offered, encoded, pc, after, callback,
                 running, thread, grabbed, outside, rest, reconnects>>

\* A capturer that cannot start is replaced in a test.
Substitute ==
  /\ testing /\ pc["starter"] = "capture" /\ ~running /\ backend # "synthetic"
  /\ backend' = "synthetic"
  /\ UNCHANGED <<feedVars, captureVars, screen, testing, crashed, rest, reconnects>>

-----------------------------------------------------------------------------
\* What the capturers share.

\* A capturer that Start has probed already runs.
AlreadyRuns ==
  /\ pc["starter"] = "capture" /\ running
  /\ Goto("starter", "started")
  /\ UNCHANGED <<feedData, captureVars, outside, rest, reconnects>>

\* The end of the capturer's Stop, once its thread is gone; to destroy the
\* portal's stream is to wait for the callback that runs.
DisplayJoined(t) ==
  /\ pc[t] = "displayJoin" /\ at = "ended" /\ grabbed = None
  /\ thread' = "none" /\ at' = "off"
  /\ loop' = "none" /\ quit' = FALSE /\ fresh' = FALSE
  /\ Goto(t, "join")
  /\ UNCHANGED <<feedData, running, grabbed, outside, x11Vars, requested, token, passed, probed, reconnects>>

\* The session is destroyed, and its capturer with it.
Destroy ==
  /\ Stopped /\ pc["starter"] = "ended" /\ pc["encoder"] = "ended"
  /\ crashed' = (thread = "joinable")
  /\ backend' = None
  /\ UNCHANGED <<feedVars, captureVars, screen, testing, rest, reconnects>>

\* Start asks for the size of a portal's picture, and its capturer does not run
\* yet.  A reconnect, which holds pipeline_mutex_, asks without this.
Asking ==
  backend = "portal" /\ (pc["starter"] = "size" \/ (pc["starter"] \in {"portal", "spawn"} /\ ~Restarts))

Session ==
  /\ \/ FeedNext \/ StartFailed(reconnects > 0 /\ ~stop)
     \/ UserStops /\ (EarlyStops \/ ~Asking)
     \/ SetFreezeStream /\ setup \in Freezes
  /\ UNCHANGED <<captureVars, outside, rest, reconnects>>

ConnectionLost ==
  /\ reconnects < MaxReconnects /\ reconnects' = reconnects + 1
  /\ Reconnect
  /\ UNCHANGED <<captureVars, outside, rest>>

X11 ==
  /\ \/ StartMonitor \/ StartWindow \/ X11Refused \/ X11Spawn \/ CaptureLoop \/ (\E t \in Threads : X11Stop(t))
     \/ backend = "x11" /\ (Configure \/ Close \/ Unplug \/ (screen < MaxScreen /\ Draw))
  /\ UNCHANGED <<portalVars, reconnects>>

Portal ==
  /\ \/ Size \/ PortalOpen \/ RequestPortalSession \/ PortalSpawn \/ Probed \/ StreamLoop
     \/ \E t \in Threads : PortalStop(t)
     \/ backend = "portal" /\ screen < MaxScreen /\ Compose
  /\ UNCHANGED <<x11Vars, reconnects>>

Synthetic == SyntheticStart \/ SyntheticLoop \/ Substitute \/ \E t \in Threads : SyntheticStop(t)

Next ==
  /\ ~crashed /\ backend # None
  /\ \/ Session \/ ConnectionLost \/ X11 \/ Portal \/ Synthetic
     \/ AlreadyRuns \/ Destroy \/ \E t \in Threads : DisplayJoined(t)

Spec == Init /\ [][Next]_vars

-----------------------------------------------------------------------------

TypeOK ==
  /\ FeedTypeOK
  /\ backend \in {"x11", "portal", "synthetic", None}
  /\ at \in {"off", "top", "damage", "grab", "lost", "emit", "leave", "init", "made", "runs", "ended"}
  /\ undamaged \in 0..kDamageSkipThreshold /\ screen \in 0..MaxScreen
  /\ window \in {"shown", "hidden", "gone"} /\ geometry \in Geometries /\ crop \in Geometries \cup {None}
  /\ plugged \subseteq {Outputs[i] : i \in DOMAIN Outputs}
  /\ loop \in {"none", "made", "runs"} /\ token \in Kinds \cup {None}

\* Everything that is on its way has arrived.
AtRest == streaming /\ ~stop /\ pc["encoder"] = "wait" /\ slot = None

\* XDamage lets the X11 thread skip its passes over a monitor.
Skipping ==
  /\ backend = "x11" /\ ~WindowMode /\ setup.damage /\ at = "top" /\ queue = <<>> /\ undamaged > 0
  /\ AtRest /\ running /\ ~frozen

\* While it does, the newest picture has reached the encoder: no change of the
\* screen is lost between the damage object, the grab and the one-frame slot
\* (display_capture.cc:1041: skipped only "without damage").  Whether the encoder
\* took it is another matter, see NewestShown below.
NewestOffered == Skipping => offered # None /\ offered.content = screen

\* A window that the X11 thread saw close ends a cast that is not frozen ("Fail
\* the session with a clear message instead of stalling.", cast_session.cc:685).
LossFails == ~(AtRest /\ pc["starter"] = "streaming" /\ backend = "x11" /\ at = "ended")

\* Once a Stop is complete, however the threads met, nothing captures, no thread
\* of the capturer runs and no frame is being delivered.
CaptureQuiet == Stopped /\ backend # None => ~running /\ at \in {"off", "ended"} /\ grabbed = None

\* "Never stream a generated test pattern to someone's TV as if it were their
\* screen." (cast_session.cc:576)
NoTestPattern == encoded # None /\ encoded.data = "pattern" => testing

-----------------------------------------------------------------------------
\* What the source says and the code does not keep (see the README).

\* While passes are skipped the TV shows the newest picture.  A frame that the
\* encoder or the transport refused is not grabbed again until the next damage.
NewestShown == Skipping => encoded # None /\ encoded.content = screen

\* "Assigning over a joinable std::thread would call std::terminate."
NoTerminate == ~crashed

\* The callback of the size probe "must not survive beyond Start()".
ProbeGone == grabbed # None /\ callback = "probe" => pc["starter"] # "ended"

\* "Only pass a restore_token when the requested kind matches the kind we
\* previously persisted a token for."
TokenMatches == passed \in {None, requested}

\* A frame that is encoded is the capturer's own copy, in the format it says.
OwnCopy == work # None /\ ~work.lost => work.data \in {"own", "pattern"}

\* The window's geometry is followed, its size ("lifecycle tracking (resize,
\* destroy, unmap)") and its place ("offset by the window's root-relative
\* position").
Watched == AtRest /\ WindowMode /\ backend = "x11" /\ at = "top" /\ queue = <<>> /\ window = "shown"
SizeFollows == Watched => crop.size = geometry.size
CursorPlaced == Watched => crop.place = geometry.place

\* The display that was chosen is the one that is captured.
SameMonitor == monitor # None /\ Outputs[setup.id] \in plugged => monitor = Outputs[setup.id]
=============================================================================
