------------------------------- MODULE VideoFeed -------------------------------
(***************************************************************************)
(* The picture's way through CastSession (cast_session.cc): the display    *)
(* capturer's thread leaves each frame in a slot of one                    *)
(* (QueueCapturedVideoFrame), the encode thread takes it (VideoEncodeLoop, *)
(* ProcessVideoFrame).  StartStreamingMedia and StopMediaPipeline build    *)
(* and drop both under pipeline_mutex_.  The capturer itself is one of     *)
(* X11Capture, PortalCapture or SyntheticCapture (DisplaySources.tla);     *)
(* what all of them keep (IDisplayCapture) is declared here.               *)
(***************************************************************************)
EXTENDS Naturals, Sequences, FiniteSets

CONSTANTS None

VARIABLES
  streaming,    \* is_streaming_
  stop,         \* stop_requested_
  frozen,       \* is_frozen_
  owner,        \* who holds pipeline_mutex_
  slot,         \* pending_video_frame_
  work,         \* the frame the encode thread has taken
  encoder,      \* video_encode_thread_: "none", "joinable", "detached"
  offered,      \* the last frame that was brought to video_encoder_ (history)
  encoded,      \* the last frame that was encoded and sent
  pc, after,    \* where a thread is, and where StopMediaPipeline and Stop return to
  backend,      \* what display_capture_ points to
  callback,     \* "none", "queue", or "probe": the one that refers to Start's locals
  running,      \* running_ of the capturer
  thread,       \* capture_thread_: "none", "joinable"
  at,           \* where the capture thread is
  grabbed,      \* the frame the capture thread is delivering
  screen,       \* what the monitor or the window shows
  testing,      \* SyntheticCaptureAllowed
  crashed       \* std::terminate

feedData == <<streaming, stop, frozen, owner, slot, work, encoder, offered, encoded, callback>>
feedVars == <<feedData, pc, after>>
captureVars == <<running, thread, at, grabbed>>
outside == <<backend, screen, testing, crashed>>

\* The thread that runs Start and then the adaptation loop, one that stops the
\* session, and the encode thread, which stops it when the source is lost.
Threads == {"starter", "stopper", "encoder"}

Frame == [content : Nat, lost : BOOLEAN, data : {"own", "lent", "mislabelled", "pattern"}]

ASSUME FeedAssumption == None \notin Threads \cup Frame \cup {"x11", "portal", "synthetic"}

Goto(t, l) == pc' = [pc EXCEPT ![t] = l] /\ UNCHANGED after
Call(t, l, back) == pc' = [pc EXCEPT ![t] = l] /\ after' = [after EXCEPT ![t] = back]
Returned(t) == pc' = [pc EXCEPT ![t] = after[t]] /\ UNCHANGED after

FeedTypeOK ==
  /\ {streaming, stop, frozen, running, crashed} \subseteq BOOLEAN
  /\ owner \in Threads \cup {None}
  /\ {slot, work, grabbed, offered, encoded} \subseteq Frame \cup {None}
  /\ encoder \in {"none", "joinable", "detached"} /\ thread \in {"none", "joinable"}
  /\ callback \in {"none", "queue", "probe"}

\* CastSession::Start has reset the session and made the capturer.
FeedInit ==
  /\ streaming = FALSE /\ stop = FALSE /\ frozen = FALSE /\ owner = None
  /\ slot = None /\ work = None /\ encoder = "none"
  /\ offered = None /\ encoded = None
  /\ pc = [t \in Threads |-> CASE t = "starter" -> "size" [] t = "stopper" -> "idle" [] OTHER -> "ended"]
  /\ after = [t \in Threads |-> "ended"]
  /\ callback = "none" /\ running = FALSE /\ thread = "none" /\ at = "off" /\ grabbed = None
  /\ crashed = FALSE

-----------------------------------------------------------------------------
\* The frames.

\* The newest frame replaces one that still waits.
QueueCapturedVideoFrame(frame) ==
  slot' = IF streaming /\ ~stop THEN frame ELSE slot

\* One round of VideoEncodeLoop: the end, or the frame.
TakeFrame ==
  /\ pc["encoder"] = "wait"
  /\ IF streaming /\ ~stop
       THEN slot # None /\ work' = slot /\ slot' = None /\ Goto("encoder", "work")
       ELSE Goto("encoder", "ended") /\ UNCHANGED <<slot, work>>
  /\ UNCHANGED <<streaming, stop, frozen, owner, encoder, offered, encoded, callback>>

\* The encoder is given the frame.  It is dropped, and nobody asks for another,
\* when there is no encoder, when Encode fails and when SendPackets does.
Offer(frame) == offered' = frame /\ encoded' \in {frame, encoded}

\* Faulty ProcessVideoFrame: the encoder refuses the empty frame before anyone
\* asks whether the source was lost.
ProcessEncodesFirst ==
  /\ pc["encoder"] = "work"
  /\ work' = None
  /\ IF ~streaming \/ frozen \/ work.lost THEN UNCHANGED <<offered, encoded>> ELSE Offer(work)
  /\ Goto("encoder", "wait")
  /\ UNCHANGED <<streaming, stop, frozen, owner, slot, encoder, callback>>

\* ProcessVideoFrame: a frozen picture drops the frame whatever it says, a lost
\* source fails the session, and any other frame is offered to the encoder.
ProcessVideoFrame ==
  /\ pc["encoder"] = "work"
  /\ work' = None
  /\ IF ~streaming \/ frozen THEN Goto("encoder", "wait") /\ UNCHANGED <<offered, encoded>>
     ELSE IF work.lost THEN Call("encoder", "stop", "wait") /\ UNCHANGED <<offered, encoded>>
     ELSE Offer(work) /\ Goto("encoder", "wait")
  /\ UNCHANGED <<streaming, stop, frozen, owner, slot, encoder, callback>>

SetFreezeStream ==
  /\ streaming /\ ~stop
  /\ frozen' = ~frozen
  /\ UNCHANGED <<streaming, stop, owner, slot, work, encoder, offered, encoded, pc, after, callback>>

-----------------------------------------------------------------------------
\* Stop and StopMediaPipeline, of any thread.

Stop(t) ==
  /\ pc[t] = "stop"
  /\ IF stop THEN Returned(t) /\ UNCHANGED <<stop, frozen>>
     ELSE Goto(t, "pipeline") /\ stop' = TRUE /\ frozen' = FALSE
  /\ UNCHANGED <<streaming, owner, slot, work, encoder, offered, encoded, callback>>

\* StopMediaPipeline, until it calls Stop of the capturer.
StopMediaPipeline(t) ==
  /\ pc[t] = "pipeline" /\ owner \in {None, t}
  /\ owner' = t /\ streaming' = FALSE /\ slot' = None
  /\ Goto(t, "display")
  /\ UNCHANGED <<stop, frozen, work, encoder, offered, encoded, callback>>

\* JoinOrDetach of the encode thread; the rest of the pipeline follows.
JoinEncoder(t) ==
  /\ pc[t] = "join"
  /\ IF encoder # "joinable" THEN UNCHANGED encoder
     ELSE IF t = "encoder" THEN encoder' = "detached"
     ELSE pc["encoder"] = "ended" /\ encoder' = "none"
  /\ owner' = None
  /\ Returned(t)
  /\ UNCHANGED <<streaming, stop, frozen, slot, work, offered, encoded, callback>>

-----------------------------------------------------------------------------
\* Start, once it knows the size of the picture, and the adaptation loop.

\* StartStreamingMedia until it starts the capturer: refused after a Stop;
\* transport and encoder may fail.  The callback that referred to Start's
\* locals is replaced.
StartStreamingMedia ==
  /\ pc["starter"] = "media" /\ owner = None
  /\ \/ /\ stop
        /\ Call("starter", "stop", "ended")
        /\ UNCHANGED <<owner, streaming, encoder, callback>>
     \/ /\ ~stop /\ owner' = "starter"
        /\ Call("starter", "pipeline", "failed")
        /\ UNCHANGED <<streaming, encoder, callback>>
     \/ /\ ~stop /\ owner' = "starter"
        /\ streaming' = TRUE /\ encoder' = "joinable" /\ callback' = "queue"
        /\ pc' = [pc EXCEPT !["encoder"] = "wait", !["starter"] = "capture"]
        /\ UNCHANGED after
  /\ UNCHANGED <<stop, frozen, slot, work, offered, encoded>>

\* A start that failed stops the session; an attempt to reconnect is tried
\* again while the window is open.
StartFailed(again) ==
  /\ pc["starter"] = "failed"
  /\ IF again THEN Goto("starter", "media") ELSE Call("starter", "stop", "ended")
  /\ UNCHANGED feedData

\* The capturer runs: StartStreamingMedia returns.
Started ==
  /\ pc["starter"] = "started"
  /\ owner' = None /\ Goto("starter", "streaming")
  /\ UNCHANGED <<streaming, stop, frozen, slot, work, encoder, offered, encoded, callback>>

\* The adaptation loop drops the pipeline when the TV is lost and builds it
\* again, or ends with the session.
Reconnect ==
  /\ pc["starter"] = "streaming" /\ ~stop
  /\ Call("starter", "pipeline", "media")
  /\ UNCHANGED feedData

AdaptationEnds ==
  /\ pc["starter"] = "streaming" /\ stop
  /\ Goto("starter", "ended")
  /\ UNCHANGED feedData

\* The user stops the cast.
UserStops ==
  /\ pc["stopper"] = "idle"
  /\ Call("stopper", "stop", "ended")
  /\ UNCHANGED feedData

FeedNext ==
  \/ TakeFrame \/ ProcessVideoFrame \/ StartStreamingMedia \/ Started \/ AdaptationEnds
  \/ \E t \in Threads : Stop(t) \/ StopMediaPipeline(t) \/ JoinEncoder(t)

\* The Stop that counted has returned.
Stopped == stop /\ owner = None /\ \A t \in Threads : pc[t] \notin {"pipeline", "display", "displayJoin", "join"}
=============================================================================
