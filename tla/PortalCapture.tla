----------------------------- MODULE PortalCapture -----------------------------
(***************************************************************************)
(* PipeWirePortalCapture (display_capture_wayland.cc): the desktop portal  *)
(* asks the user what to share, then a thread runs a PipeWire loop whose   *)
(* process callback delivers the compositor's buffers.  The size of the    *)
(* picture is unknown before, so CastSession::Start runs the capturer with *)
(* a callback of its own until the first frame.                            *)
(***************************************************************************)
EXTENDS VideoFeed

CONSTANTS
  Kinds,        \* the kinds of source that are asked for
  Buffers,      \* the compositor's buffers: "bgrx", "nv12dmabuf", "nv12shm"
  EarlyStops    \* whether the user may stop before the portal's loop runs

VARIABLES
  requested,    \* requested_source_.kind; last_source_kind, which StartCasting saved
  token,        \* the kind portal_restore_token was given for
  passed,       \* the token a request was made with
  probed,       \* got_first_frame
  loop,         \* pw_loop_: "none", "made", "runs"
  quit,         \* the running loop was told to quit
  fresh         \* the compositor has a buffer that was not dequeued

portalVars == <<requested, token, passed, probed, loop, quit, fresh>>

PortalInit ==
  /\ requested \in Kinds /\ token \in Kinds \cup {None} /\ passed = None
  /\ probed = FALSE /\ loop = "none" /\ quit = FALSE /\ fresh = FALSE

\* CastSession::Start: a size that is known, or the capturer with a callback
\* that refers to Start's locals.
Size ==
  /\ pc["starter"] = "size"
  /\ IF backend = "portal" THEN Goto("starter", "portal") /\ callback' = "probe"
                           ELSE Goto("starter", "media") /\ UNCHANGED callback
  /\ UNCHANGED <<streaming, stop, frozen, owner, slot, work, encoder, offered, encoded,
                 captureVars, outside, portalVars>>

\* Whether StartStreamingMedia restarts the capturer, or Start probes it.
Restarts == owner = "starter"
Refused ==
  IF Restarts THEN ~testing /\ Call("starter", "pipeline", "failed") ELSE Call("starter", "stop", "ended")

PortalOpen ==
  /\ backend = "portal" /\ pc["starter"] = "capture" /\ ~running
  /\ Goto("starter", "portal")
  /\ UNCHANGED <<feedData, captureVars, outside, portalVars>>

\* RequestPortalSession: CreateSession, SelectSources with the token of an
\* earlier cast, Start; each may fail, be refused or run out of its minute.
SelectSources == passed' = token

\* A new token is saved with its session.
RequestPortalSession ==
  /\ pc["starter"] = "portal"
  /\ SelectSources
  /\ \/ Goto("starter", "spawn") /\ token' \in {token, requested}
     \/ Refused /\ UNCHANGED token
  /\ UNCHANGED <<feedData, captureVars, outside, requested, probed, loop, quit, fresh>>

PortalSpawn ==
  /\ pc["starter"] = "spawn"
  /\ running' = TRUE /\ thread' = "joinable" /\ at' = "init"
  /\ crashed' = (thread = "joinable")
  /\ Goto("starter", IF Restarts THEN "started" ELSE "probe")
  /\ UNCHANGED <<feedData, grabbed, backend, screen, testing, portalVars>>

\* Start waits for the first frame, a minute at most, and is not told of a Stop.
Probed ==
  /\ pc["starter"] = "probe"
  /\ \/ probed /\ ~stop /\ Goto("starter", "media")
     \/ probed /\ stop /\ Call("starter", "stop", "ended")
     \/ ~probed /\ Call("starter", "stop", "ended")
  /\ UNCHANGED <<feedData, captureVars, outside, portalVars>>

\* Stop: a loop that does not run yet is not told to quit.
PortalStop(t) ==
  /\ backend = "portal" /\ pc[t] = "display"
  /\ IF running THEN running' = FALSE /\ quit' = (loop = "runs") /\ Goto(t, "displayJoin")
                ELSE Goto(t, "join") /\ UNCHANGED <<running, quit>>
  /\ UNCHANGED <<feedData, thread, at, grabbed, outside, requested, token, passed, probed, loop, fresh>>

-----------------------------------------------------------------------------
\* StreamLoop.

MakeLoop ==
  /\ at = "init"
  /\ \/ at' = "made" /\ loop' = "made"
     \/ at' = "ended" /\ UNCHANGED loop
  /\ UNCHANGED <<feedVars, running, thread, grabbed, outside, requested, token, passed, probed, quit, fresh>>

\* The context, the core, the stream and its connection; the compositor sends
\* what it shows.  A failure ends the thread, and nobody hears of it.
Connect ==
  /\ at = "made"
  /\ \/ at' = "runs" /\ loop' = "runs" /\ fresh' = TRUE
     \/ at' = "ended" /\ UNCHANGED <<loop, fresh>>
  /\ UNCHANGED <<feedVars, running, thread, grabbed, outside, requested, token, passed, probed, quit>>

\* What a buffer becomes: memory is copied as BGRA whatever it holds, a DMA-BUF
\* is passed on while it is the compositor's.
DataOf(buffer) ==
  CASE buffer = "bgrx" -> "own" [] buffer = "nv12dmabuf" -> "lent" [] OTHER -> "mislabelled"

\* The stream is connected, and lives until Stop has joined the loop's thread.
Connected == loop = "runs" /\ at \in {"runs", "ended"}

\* The process callback, until it calls back.  PW_STREAM_FLAG_RT_PROCESS puts it
\* on PipeWire's data thread, which does not wait for the loop to return.
Process ==
  /\ Connected /\ fresh /\ running /\ grabbed = None
  /\ fresh' = FALSE
  /\ \E b \in Buffers : grabbed' = [content |-> screen, lost |-> FALSE, data |-> DataOf(b)]
  /\ UNCHANGED <<feedVars, running, thread, at, outside, requested, token, passed, probed, loop, quit>>

\* The callback, and pw_stream_queue_buffer.  The probe's notes that there is a
\* frame and passes it on.
Deliver ==
  /\ Connected /\ grabbed # None
  /\ probed' = (probed \/ callback = "probe")
  /\ QueueCapturedVideoFrame(grabbed)
  /\ grabbed' = None
  /\ UNCHANGED <<streaming, stop, frozen, owner, work, encoder, offered, encoded, pc, after, callback,
                 running, thread, at, outside, requested, token, passed, loop, quit, fresh>>

\* pw_main_loop_run returns.
LoopEnds ==
  /\ at = "runs" /\ quit
  /\ at' = "ended"
  /\ UNCHANGED <<feedVars, running, thread, grabbed, outside, portalVars>>

StreamLoop == backend = "portal" /\ (MakeLoop \/ Connect \/ Process \/ Deliver \/ LoopEnds)

\* The compositor sends a buffer when what it shows has changed.
Compose ==
  /\ screen' = screen + 1
  /\ fresh' = (fresh \/ loop = "runs")
  /\ UNCHANGED <<feedVars, captureVars, backend, testing, crashed, requested, token, passed, probed, loop, quit>>
=============================================================================
