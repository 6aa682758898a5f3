------------------------------ MODULE X11Capture ------------------------------
(***************************************************************************)
(* X11DisplayCapture (display_capture.cc): one thread polls the X          *)
(* connection and grabs the root window, cropped to a monitor, or one      *)
(* window.  XDamage lets it skip passes over a monitor that does not       *)
(* change; in window mode the events of the window tell of its size and    *)
(* of its end.  Both pollers drain the same queue of events.               *)
(***************************************************************************)
EXTENDS VideoFeed, SequencesExt, FiniteSetsExt

CONSTANTS
  Outputs,      \* the outputs of the X server, in its order
  PrimaryOutput,
  Windows,      \* toplevel windows: records of what EnumerateX11Windows asks
  Geometries,   \* [size, place] of a window; sizes are ordered
  Setups,       \* the sources and extensions considered
  MaxEvents,    \* bound: the events that wait when a window is resized
  Ewmh          \* whether the window manager keeps _NET_CLIENT_LIST

ASSUME SetupsAssumption ==
  Setups \subseteq [kind : {"monitor", "window"}, id : Nat, damage : BOOLEAN]

kDamageSkipThreshold == 3

VARIABLES
  setup,        \* [kind, id, damage]: source_ and whether XDamage is there
  plugged,      \* the outputs that are connected and lit
  monitor,      \* the output that is captured
  crop,         \* crop_w_, crop_h_ and window_root_x_, _y_, in window mode
  undamaged,    \* undamaged_frames_
  armed,        \* the damage region is empty: the next change sends an event
  listening,    \* XSelectInput was called
  queue,        \* the connection's events
  window,       \* "shown", "hidden", "gone"
  geometry      \* the window's size and place

x11Vars == <<setup, plugged, monitor, crop, undamaged, armed, listening, queue, window, geometry>>

WindowMode == setup.kind = "window"

-----------------------------------------------------------------------------
\* What the user chooses from.

\* build_info: no popup, no desktop chrome, not iconified, not a pixel wide,
\* not without a name.
Shareable(w) == ~w.override_redirect /\ w.viewable /\ ~w.tiny /\ ~w.chrome /\ w.titled

\* The window manager's list, or the root's children in the normal state.
EnumerateX11Windows(all) ==
  IF Ewmh THEN {w \in all : w.managed /\ Shareable(w)}
          ELSE {w \in all : w.normal /\ Shareable(w)}

\* EnumerateRandrDisplays: an output's id is its place among those that are lit.
EnumerateDisplays(lit) == SelectSeq(Outputs, LAMBDA o : o \in lit)

\* The display with this id, else the primary one, else the first.
Chosen(lit, id) ==
  LET list == EnumerateDisplays(lit)
  IN  IF list = <<>> THEN None
      ELSE IF id \in DOMAIN list THEN list[id]
      ELSE IF PrimaryOutput \in lit THEN PrimaryOutput ELSE list[1]

X11Init ==
  /\ setup \in Setups
  /\ plugged = {Outputs[i] : i \in DOMAIN Outputs}
  /\ setup.kind = "window" => EnumerateX11Windows(Windows) # {}
  /\ monitor = None /\ crop = None /\ undamaged = 0 /\ armed = FALSE /\ listening = FALSE
  /\ queue = <<>> /\ window = "shown" /\ geometry \in Geometries

-----------------------------------------------------------------------------
\* Start and Stop.

\* Faulty SetupDamage: the count of undamaged passes survives a restart.
SetupDamageKeepsCount == armed' = setup.damage /\ UNCHANGED undamaged

\* The damage object is new, its region empty.
SetupDamage == armed' = setup.damage /\ undamaged' = 0

\* Start: Stop first, then the connection, the geometry and the damage object.
Opens ==
  /\ backend = "x11" /\ pc["starter"] = "capture" /\ ~running
  /\ Goto("starter", "listen")
  /\ SetupDamage
  /\ queue' = <<>> /\ listening' = FALSE
  /\ UNCHANGED <<feedData, captureVars, outside, setup, plugged, window, geometry>>

StartMonitor ==
  /\ ~WindowMode /\ Opens
  /\ monitor' = Chosen(plugged, setup.id) /\ UNCHANGED crop

StartWindow ==
  /\ WindowMode /\ window = "shown" /\ Opens
  /\ crop' = geometry /\ UNCHANGED monitor

\* No connection, or the window is not there: only a test goes on without.
X11Refused ==
  /\ backend = "x11" /\ pc["starter"] = "capture" /\ ~running /\ ~testing
  /\ Call("starter", "pipeline", "failed")
  /\ UNCHANGED <<feedData, captureVars, outside, x11Vars>>

\* The end of Start: events are asked for, and the thread starts.  Assigning
\* over a thread that was not joined ends the program.
X11Spawn ==
  /\ pc["starter"] = "listen"
  /\ listening' = WindowMode
  /\ running' = TRUE /\ thread' = "joinable" /\ at' = "top"
  /\ crashed' = (thread = "joinable")
  /\ Goto("starter", "started")
  /\ UNCHANGED <<feedData, grabbed, backend, screen, testing, setup, plugged, monitor, crop, undamaged, armed, queue, window, geometry>>

\* Faulty X11Stop: the thread is left to end by itself.
X11StopNoJoin(t) ==
  /\ backend = "x11" /\ pc[t] = "display"
  /\ running' = FALSE /\ Goto(t, "join")
  /\ UNCHANGED <<feedData, thread, at, grabbed, outside, x11Vars>>

\* Stop joins a thread that was still running.
X11Stop(t) ==
  /\ backend = "x11" /\ pc[t] = "display"
  /\ running' = FALSE
  /\ Goto(t, IF running THEN "displayJoin" ELSE "join")
  /\ UNCHANGED <<feedData, thread, at, grabbed, outside, x11Vars>>

-----------------------------------------------------------------------------
\* CaptureLoop.

Ended(e) == e[1] \in {"hidden", "gone"}

\* A window that only moved keeps its old place.
Resized(old, e) == IF e[1] = "configure" /\ e[2].size # old.size THEN e[2] ELSE old

\* PollWindowLifecycle reads up to the window's end.
PollWindowLifecycle ==
  LET ends == {i \in DOMAIN queue : Ended(queue[i])}
      n == IF ends = {} THEN Len(queue) ELSE Min(ends)
  IN  /\ crop' = FoldLeft(Resized, crop, SubSeq(queue, 1, n))
      /\ queue' = SubSeq(queue, n + 1, Len(queue))
      /\ at' = IF ends = {} THEN "damage" ELSE "lost"

Top ==
  /\ at = "top"
  /\ IF ~running THEN at' = "ended" /\ UNCHANGED <<queue, crop>>
     ELSE IF WindowMode THEN PollWindowLifecycle
     ELSE at' = "damage" /\ UNCHANGED <<queue, crop>>
  /\ UNCHANGED <<feedVars, running, thread, grabbed, outside,
                 setup, plugged, monitor, undamaged, armed, listening, window, geometry>>

\* Every damage event counts: with XDamageReportNonEmpty the server reports
\* the whole drawable.
Damaged == \E i \in DOMAIN queue : queue[i][1] = "damage"

\* PollDamage drains the queue, and so does away with the other events; the
\* region is emptied before the picture is grabbed.
PollDamage ==
  /\ at = "damage"
  /\ IF ~setup.damage THEN at' = "grab" /\ UNCHANGED <<queue, armed, undamaged>>
     ELSE /\ queue' = <<>>
          /\ armed' = (armed \/ Damaged)
          /\ undamaged' = IF Damaged THEN 0
                          ELSE IF WindowMode \/ undamaged = kDamageSkipThreshold THEN undamaged
                          ELSE undamaged + 1
          /\ at' = IF ~WindowMode /\ undamaged' = kDamageSkipThreshold THEN "top" ELSE "grab"
  /\ UNCHANGED <<feedVars, running, thread, grabbed, outside,
                 setup, plugged, monitor, crop, listening, window, geometry>>

\* XShmGetImage and XGetImage fail on a window that is not shown, or is
\* smaller than it was.
Grab ==
  /\ at = "grab"
  /\ IF WindowMode /\ ~(window = "shown" /\ crop.size <= geometry.size)
       THEN at' = "top" /\ UNCHANGED grabbed
       ELSE at' = "emit" /\ grabbed' = [content |-> screen, lost |-> FALSE, data |-> "own"]
  /\ UNCHANGED <<feedVars, running, thread, outside, x11Vars>>

Lost ==
  /\ at = "lost"
  /\ at' = "emit" /\ grabbed' = [content |-> screen, lost |-> TRUE, data |-> "own"]
  /\ UNCHANGED <<feedVars, running, thread, outside, x11Vars>>

\* The callback.  After the frame that says so the thread ends by itself.
Emit ==
  /\ at = "emit"
  /\ QueueCapturedVideoFrame(grabbed)
  /\ at' = (IF grabbed.lost THEN "leave" ELSE "top") /\ grabbed' = None
  /\ UNCHANGED <<streaming, stop, frozen, owner, work, encoder, offered, encoded, pc, after, callback,
                 running, thread, outside, x11Vars>>

Leave ==
  /\ at = "leave"
  /\ running' = FALSE /\ at' = "ended"
  /\ UNCHANGED <<feedVars, thread, grabbed, outside, x11Vars>>

CaptureLoop == backend = "x11" /\ (Top \/ PollDamage \/ Grab \/ Lost \/ Emit \/ Leave)

-----------------------------------------------------------------------------
\* The X server, and the people at the desk.

Send(event) == queue' = IF listening THEN Append(queue, event) ELSE queue

Draw ==
  /\ screen' = screen + 1
  /\ armed' = FALSE
  /\ queue' = IF armed THEN Append(queue, <<"damage">>) ELSE queue
  /\ UNCHANGED <<feedVars, captureVars, backend, testing, crashed, setup, plugged, monitor, crop, undamaged, listening, window, geometry>>

Configure ==
  /\ WindowMode /\ window = "shown" /\ Len(queue) < MaxEvents
  /\ \E g \in Geometries \ {geometry} : geometry' = g /\ Send(<<"configure", g>>)
  /\ UNCHANGED <<feedVars, captureVars, outside, setup, plugged, monitor, crop, undamaged, armed, listening, window>>

Close ==
  /\ WindowMode /\ window = "shown"
  /\ window' \in {"hidden", "gone"} /\ Send(<<window'>>)
  /\ UNCHANGED <<feedVars, captureVars, outside, setup, plugged, monitor, crop, undamaged, armed, listening, geometry>>

Unplug ==
  /\ ~WindowMode
  /\ \E o \in plugged : plugged' = plugged \ {o} /\ plugged' # {}
  /\ UNCHANGED <<feedVars, captureVars, outside, setup, monitor, crop, undamaged, armed, listening, queue, window, geometry>>
=============================================================================
