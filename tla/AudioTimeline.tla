----------------------------- MODULE AudioTimeline -----------------------------
(***************************************************************************)
(* The stamps of the sound on its way to the TV.  A capture loop           *)
(* (WasapiAudioCapture::CaptureThreadMain, PulseAudioCapture::CaptureLoop) *)
(* cuts what the endpoint plays into frames of 10 ms and fills its silence *)
(* with frames of its own; the session adds silence when the user mutes    *)
(* the TV or when nothing was sent for a while, and pins every stamp to    *)
(* one frame past the last one it sent (ProcessAudioFrameInternal).        *)
(* The unit of time is half a frame, 5 ms.                                 *)
(***************************************************************************)
EXTENDS Integers

CONSTANTS
  MaxNow,      \* the bound of the clock, and of the stamps buffers out of order lead to
  IdleCap,     \* frames of silence a late wake-up makes at most (5 in the code)
  StallAfter,  \* without a frame sent for so long the session adds one (200 ms)
  Packets,     \* the lengths of what the endpoint delivers at a time
  Ages,        \* when a packet's first sample plays, counted from when it is read
  MaxLate,     \* by how much a packet is read late at most
  None

ASSUME TimelineAssumption ==
  /\ MaxNow \in Nat /\ IdleCap \in Nat \ {0} /\ Packets \subseteq Nat /\ None \notin Int
  /\ Ages \subseteq Int /\ MaxLate \in Nat /\ \A age \in Ages : age >= -MaxLate

Frame == 2

VARIABLES
  backend,     \* "wasapi" or "pulse"
  now,
  rendered,    \* where the sound the endpoint has delivered ends
  pending,     \* pending_: how much of it waits to be cut into frames
  startTs,     \* pending_start_ts_
  wake,        \* when the loop last woke up; for Pulse, last_emit
  offer,       \* the stamp a thread brings to ProcessAudioFrameInternal
  muted,       \* is_audio_muted_
  streaming,   \* is_streaming_
  lastEmit,    \* last_audio_emit_us_
  lastSend,    \* last_audio_send_ms_
  sent         \* the stamp of the last frame that went out

\* Who brings frames: the capture thread, and the adaptation loop.
Sources == {"capture", "session"}

source == <<backend, rendered, pending, startTs, wake>>
sink == <<offer, lastEmit, lastSend, sent>>
timelineVars == <<now, source, sink, muted, streaming>>

TimelineTypeOK ==
  /\ backend \in {"wasapi", "pulse"} /\ now \in 0..MaxNow
  /\ rendered \in Int /\ pending \in Nat /\ startTs \in Int \cup {None} /\ wake \in Nat
  /\ offer \in [Sources -> Int \cup {None}]
  /\ muted \in BOOLEAN /\ streaming \in BOOLEAN
  /\ lastEmit \in Int /\ lastSend \in Nat /\ sent \in Int \cup {None}

Later(a, b) == IF a > b THEN a ELSE b

TimelineInit(b, time) ==
  /\ backend = b /\ now = time /\ rendered = time /\ pending = 0 /\ startTs = None /\ wake = time
  /\ offer = [e \in Sources |-> None] /\ muted = FALSE /\ streaming = FALSE
  /\ lastEmit = 0 /\ lastSend = time /\ sent = None

Tick == now < MaxNow /\ now' = now + 1 /\ UNCHANGED <<source, sink, muted, streaming>>

SetAudioMuted == muted' = ~muted /\ UNCHANGED <<now, source, sink, streaming>>

(***************************************************************************)
(* The loops.  One that waits in the callback, or has a whole frame to     *)
(* hand on first, does not get to them.                                    *)
(***************************************************************************)
Waiting == offer["capture"] = None /\ pending < Frame

\* A buffer of the endpoint goes to the end of the queue, whose stamp it sets
\* when the queue is empty.  After a discontinuity what is queued ends where the
\* buffer starts.
ConvertAndEmit(n, ts, disc) ==
  /\ wake' = now
  /\ startTs' = IF pending = 0 THEN ts
                ELSE IF disc THEN ts - pending ELSE startTs
  /\ pending' = pending + n

\* The stamp is the time the first sample plays, which may lie before or after
\* the time the buffer is read; when it cannot be trusted it is replaced by now.
\* Buffers follow each other, unless the engine reports that it reordered them
\* (as often as MaxNow bounds the stamps).  Several may be read at one wake-up.
WasapiPacket ==
  /\ backend = "wasapi" /\ Waiting
  /\ \E n \in Packets, age \in Ages, disc, bad \in BOOLEAN :
       /\ now + age >= rendered \/ (disc /\ lastEmit < MaxNow)
       /\ ConvertAndEmit(n, IF bad THEN now ELSE now + age, disc)
       /\ rendered' = now + age + n
  /\ UNCHANGED <<now, backend, sink, muted, streaming>>

\* Faulty DueSilence: a frame at every wake-up, heard or not.
SilencePerWake(start) == 1

\* How much silence keeps the frames on the wall clock.
DueSilence(start) == IF now > start THEN (now - start) \div Frame ELSE 0

WasapiIdle ==
  /\ backend = "wasapi" /\ Waiting /\ now >= wake + Frame
  /\ LET start == IF startTs = None THEN now ELSE startTs
         due == DueSilence(start)
         frames == IF due > IdleCap THEN IdleCap ELSE due
     IN /\ startTs' = IF due > IdleCap THEN now - IdleCap * Frame ELSE start
        /\ pending' = pending + frames * Frame
  /\ wake' = now
  /\ UNCHANGED <<now, backend, rendered, sink, muted, streaming>>

\* Pulse: whatever was recorded since the last read, up to now.
PulseRead ==
  /\ backend = "pulse" /\ Waiting
  /\ \E n \in Packets :
       /\ n <= now - rendered
       /\ rendered' = rendered + n /\ pending' = pending + n
  /\ UNCHANGED <<now, backend, startTs, wake, sink, muted, streaming>>

(***************************************************************************)
(* A frame enters the session: while muted the TV gets silence stamped now *)
(* in its place, and nothing passes once is_streaming_ is off.             *)
(***************************************************************************)
Bring(e, ts) == offer' = [offer EXCEPT ![e] = IF ~streaming THEN None ELSE IF muted THEN now ELSE ts]

\* FlushPending, and the end of Pulse's loop: the oldest frame of the queue.
\* Pulse stamps it with the age of the queue and the latency the server reports.
FlushPending ==
  /\ offer["capture"] = None /\ pending >= Frame
  /\ pending' = pending - Frame
  /\ IF backend = "wasapi"
     THEN /\ Bring("capture", startTs)
          /\ startTs' = startTs + Frame /\ UNCHANGED wake
     ELSE /\ \E latency \in {0, Frame} :
               Bring("capture", now - latency - (pending \div Frame - 1) * Frame)
          /\ wake' = now /\ UNCHANGED startTs
  /\ UNCHANGED <<now, backend, rendered, muted, streaming, lastEmit, lastSend, sent>>

\* Pulse's keepalive: a frame of silence when 20 ms brought nothing.
PulseKeepalive ==
  /\ backend = "pulse" /\ Waiting /\ now - wake >= 2 * Frame
  /\ Bring("capture", now) /\ wake' = now
  /\ UNCHANGED <<now, backend, rendered, pending, startTs, muted, streaming, lastEmit, lastSend, sent>>

\* The adaptation loop: nothing was sent for a while (InjectSilenceAudioFrame).
InjectSilenceAudioFrame ==
  /\ offer["session"] = None /\ now - lastSend > StallAfter
  /\ offer' = [offer EXCEPT !["session"] = IF streaming THEN now ELSE None]
  /\ UNCHANGED <<now, source, muted, streaming, lastEmit, lastSend, sent>>

\* Faulty Pinned: the stamps of two clocks go out as they come.
PinnedToSelf(ts) == ts

(***************************************************************************)
(* The body under audio_mutex_: the stamp is pinned on the way into the    *)
(* encoder and kept when the packets went out.                             *)
(***************************************************************************)
Pinned(ts) == Later(ts, lastEmit + Frame)

ProcessAudioFrameInternal(e, sends) ==
  /\ offer[e] # None
  /\ offer' = [offer EXCEPT ![e] = None]
  /\ IF sends
     THEN lastEmit' = Pinned(offer[e]) /\ sent' = Pinned(offer[e]) /\ lastSend' = now
     ELSE UNCHANGED <<lastEmit, sent, lastSend>>
  /\ UNCHANGED <<now, source, muted, streaming>>

\* Start, once the media run: the stamp of an earlier session is dropped.
ForgetLastEmit == lastEmit' = 0 /\ lastSend' = now /\ UNCHANGED <<now, source, offer, muted, streaming, sent>>
=============================================================================
