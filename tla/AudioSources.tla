------------------------------ MODULE AudioSources ------------------------------
(***************************************************************************)
(* The sound's capturers (audio_capture.cc, audio_capture_wasapi.cc) in    *)
(* the session: StartStreamingMedia creates and starts one, the adaptation *)
(* loop restarts one whose thread ended, StopMediaPipeline stops and drops *)
(* it.  Pulse silences the speakers of the computer meanwhile.  The frames *)
(* are AudioTimeline's.                                                    *)
(***************************************************************************)
EXTENDS AudioTimeline

CONSTANTS
  Backends,        \* which of the two platforms
  MaxReconnects, MaxUnplugs, MaxRefusals,
  Budgets,         \* what of the bounds a behaviour has already used up
  SlowInit         \* whether the set-up can outlast the 2 s Start waits for it

ASSUME SourcesAssumption ==
  /\ Backends \subseteq {"wasapi", "pulse"}
  /\ \A used \in Budgets :
       used.now \in 0..MaxNow /\ used.user \in {"idle", "away"} /\ used.refusals \in Nat
  /\ None \notin [volume : BOOLEAN, mute : BOOLEAN] /\ None \notin {"session", "stopper"}

VARIABLES
  mutex,           \* who holds audio_mutex_
  pipeline,        \* who holds pipeline_mutex_
  stop,            \* stop_requested_
  encoder,         \* audio_encoder_ and what goes with it
  capture,         \* audio_capture_
  running, thread, \* running_, and where the capture thread is ("none": joined)
  initDone,        \* init_done_ and init_ok_: "no", "ok", "failed"
  pc, back,        \* where a thread is, and where the capturer's Stop returns to
  present,         \* the endpoint can be opened
  sinkState,       \* the speakers' [volume, mute]; volume TRUE is the user's, FALSE is 0
  before,          \* the same before Start changed it (locals of Start)
  saved,           \* muted_sink_ and what to restore, or None
  users,           \* what the user had set
  recovering,      \* the session is past its first start
  reconnects, unplugs, refusals

control == <<mutex, pipeline, stop, encoder, capture, recovering>>
capturer == <<running, thread, initDone>>
speakers == <<sinkState, before, saved>>
outside == <<present, users, reconnects, unplugs, refusals>>
vars == <<timelineVars, control, capturer, pc, back, speakers, outside>>

Threads == {"session", "stopper"}
Speakers == [volume : BOOLEAN, mute : BOOLEAN]

Places ==
  {"build", "streaming", "adapt", "reconnect", "drop", "dropped", "gone",
   "open", "readSink", "silence", "spawn", "waitInit", "giveUp", "started", "restarted", "startFailed",
   "stopCapture", "join", "restore",
   "idle", "away", "stopMedia", "joinSession", "stopped"}

TypeOK ==
  /\ TimelineTypeOK
  /\ mutex \in Threads \cup {None} /\ pipeline \in Threads \cup {None}
  /\ stop \in BOOLEAN /\ encoder \in BOOLEAN /\ capture \in BOOLEAN /\ running \in BOOLEAN
  /\ thread \in {"none", "init", "loop", "ended"} /\ initDone \in {"no", "ok", "failed"}
  /\ pc \in [Threads -> Places] /\ back \in [Threads -> Places]
  /\ present \in BOOLEAN /\ sinkState \in Speakers /\ users \in Speakers
  /\ before \in Speakers /\ saved \in Speakers \cup {None}

Init ==
  /\ \E b \in Backends, used \in Budgets :
       /\ TimelineInit(b, used.now)
       /\ reconnects = used.reconnects /\ unplugs = used.unplugs /\ refusals = used.refusals
       /\ pc = [session |-> "build", stopper |-> used.user]
  /\ mutex = None /\ pipeline = None /\ stop = FALSE /\ encoder = FALSE /\ capture = FALSE
  /\ running = FALSE /\ thread = "none" /\ initDone = "no"
  /\ back = [t \in Threads |-> "idle"]
  /\ present = TRUE /\ users \in [volume : {TRUE}, mute : IF backend = "pulse" THEN BOOLEAN ELSE {FALSE}]
  /\ sinkState = users /\ before = users /\ saved = None
  /\ recovering = FALSE

Goto(t, l) == pc' = [pc EXCEPT ![t] = l] /\ UNCHANGED back
Call(t, l, r) == pc' = [pc EXCEPT ![t] = l] /\ back' = [back EXCEPT ![t] = r]
Return(t) == pc' = [pc EXCEPT ![t] = back[t]] /\ UNCHANGED back

\* A call to the sound server, the engine, the encoder or the socket may fail.
Refused == refusals < MaxRefusals /\ refusals' = refusals + 1
Works == UNCHANGED refusals

(***************************************************************************)
(* Stop of a capturer.  Pulse joins when it was running, cleans up and     *)
(* gives the speakers back; WASAPI joins whatever thread there is.         *)
(***************************************************************************)
Joins == IF backend = "pulse" THEN running ELSE thread # "none"

StopCapture(t) ==
  /\ pc[t] = "stopCapture" /\ running' = FALSE
  /\ Goto(t, IF Joins THEN "join" ELSE "restore")
  /\ UNCHANGED <<timelineVars, control, thread, initDone, speakers, outside>>

JoinCapture(t) ==
  /\ pc[t] = "join" /\ thread \in {"ended", "none"}
  /\ thread' = "none" /\ Goto(t, "restore")
  /\ UNCHANGED <<timelineVars, control, running, initDone, speakers, outside>>

\* The volume first, then the mute switch; the answers are not looked at.
Restored(ok) == IF saved = None THEN sinkState
                ELSE [volume |-> IF ok THEN saved.volume ELSE sinkState.volume, mute |-> saved.mute]

RestorePlayback(t) ==
  /\ pc[t] = "restore" /\ Return(t)
  /\ \/ Works /\ sinkState' = Restored(TRUE)
     \/ saved # None /\ Refused /\ sinkState' = Restored(FALSE)
  /\ saved' = None
  /\ UNCHANGED <<timelineVars, control, capturer, before, present, users, reconnects, unplugs>>

(***************************************************************************)
(* Start, after its own Stop.  The adaptation loop calls it with           *)
(* audio_mutex_ held, StartStreamingMedia without.                         *)
(***************************************************************************)
Calling == IF mutex = "session" THEN "restarted" ELSE "started"

Spawned(at) == running' = TRUE /\ thread' = at /\ initDone' = "no"

\* Pulse: context, default sink, record stream.
PulseOpen ==
  /\ pc["session"] = "open" /\ backend = "pulse"
  /\ \/ Works /\ present /\ Goto("session", "readSink")
     \/ ~present /\ Works /\ Goto("session", "startFailed")
     \/ Refused /\ Goto("session", "startFailed")
  /\ UNCHANGED <<timelineVars, control, capturer, speakers, present, users, reconnects, unplugs>>

\* PulseGetSinkPlayback, then PulseSetSinkVolume to 0.
ReadSink ==
  /\ pc["session"] = "readSink"
  /\ \/ Works /\ before' = sinkState /\ Goto("session", "silence")
     \/ Refused /\ UNCHANGED before /\ Goto("session", "spawn")
  /\ UNCHANGED <<timelineVars, control, capturer, sinkState, saved, present, users, reconnects, unplugs>>

\* Faulty SilenceSink: what is saved is read back after the sink is silent.
SilenceThenSave ==
  /\ pc["session"] = "silence" /\ Goto("session", "spawn")
  /\ Works /\ sinkState' = [volume |-> FALSE, mute |-> FALSE] /\ saved' = sinkState'
  /\ UNCHANGED <<timelineVars, control, capturer, before, present, users, reconnects, unplugs>>

\* Silent but not muted, so that the monitor goes on.  Only when both calls
\* worked is there something to restore.
SilenceSink ==
  /\ pc["session"] = "silence" /\ Goto("session", "spawn")
  /\ \/ /\ Works /\ sinkState' = [volume |-> FALSE, mute |-> FALSE] /\ saved' = before
     \/ /\ Refused /\ UNCHANGED saved
        /\ sinkState' \in {[sinkState EXCEPT !.mute = FALSE],   \* the volume was refused
                           [sinkState EXCEPT !.volume = FALSE]} \* a mute switch was
        /\ sinkState'.volume = FALSE => before.mute
  /\ UNCHANGED <<timelineVars, control, capturer, before, present, users, reconnects, unplugs>>

\* The thread; Pulse's is in its loop at once, WASAPI's sets itself up first.
SpawnCapture ==
  /\ \/ pc["session"] = "spawn" /\ Spawned("loop") /\ Goto("session", Calling)
     \/ pc["session"] = "open" /\ backend = "wasapi" /\ Spawned("init") /\ Goto("session", "waitInit")
  /\ pending' = 0 /\ UNCHANGED <<rendered, startTs>> /\ wake' = now
  /\ UNCHANGED <<now, backend, sink, muted, streaming, control, speakers, outside>>

WaitInit ==
  /\ pc["session"] = "waitInit" /\ initDone # "no"
  /\ IF initDone = "ok" THEN Goto("session", Calling) /\ UNCHANGED running
     ELSE running' = FALSE /\ Call("session", "join", "startFailed")
  /\ UNCHANGED <<timelineVars, control, thread, initDone, speakers, outside>>

\* 200 sleeps are over and init_done_ is still off; the thread may set it yet.
WaitInitTooLong ==
  /\ SlowInit /\ pc["session"] = "waitInit" /\ initDone = "no"
  /\ Goto("session", "giveUp")
  /\ UNCHANGED <<timelineVars, control, capturer, speakers, outside>>
GiveUp ==
  /\ pc["session"] = "giveUp" /\ running' = FALSE /\ Call("session", "join", "startFailed")
  /\ UNCHANGED <<timelineVars, control, thread, initDone, speakers, outside>>

(***************************************************************************)
(* The capture thread.                                                     *)
(***************************************************************************)
Ends == thread' = "ended" /\ running' = FALSE

\* InitOnThread and IAudioClient::Start.
InitOnThread ==
  /\ thread = "init"
  /\ \/ Works /\ present /\ initDone' = "ok" /\ thread' = "loop" /\ UNCHANGED running
     \/ (IF present THEN Refused ELSE Works) /\ initDone' = "failed" /\ Ends
  /\ UNCHANGED <<timelineVars, control, pc, back, speakers, present, users, reconnects, unplugs>>

Loops == thread = "loop" /\ running
\* RestartOnThread on the new default endpoint: it works once there is one, and
\* after 20 attempts without one the thread ends.
LosesEndpoint ==
  /\ Loops /\ Waiting /\ ~present /\ backend = "wasapi" /\ Ends
  /\ UNCHANGED <<timelineVars, control, initDone, pc, back, speakers, outside>>
\* Pulse's loop breaks when the server is gone; running_ stays on.
BreaksOff ==
  /\ Loops /\ Waiting /\ ~present /\ backend = "pulse"
  /\ thread' = "ended" /\ UNCHANGED running
  /\ UNCHANGED <<timelineVars, control, initDone, pc, back, speakers, outside>>
LeavesLoop ==
  /\ thread = "loop" /\ ~running /\ offer["capture"] = None /\ pending < Frame /\ thread' = "ended"
  /\ UNCHANGED <<timelineVars, control, running, initDone, pc, back, speakers, outside>>

CaptureSteps ==
  \/ Loops /\ present /\ (WasapiPacket \/ PulseRead) /\ UNCHANGED <<control, capturer, pc, back, speakers, outside>>
  \/ Loops /\ (WasapiIdle \/ PulseKeepalive) /\ UNCHANGED <<control, capturer, pc, back, speakers, outside>>
  \/ thread = "loop" /\ FlushPending /\ UNCHANGED <<control, capturer, pc, back, speakers, outside>>

SendFrame(e) ==
  /\ mutex = None
  /\ \/ Works /\ ProcessAudioFrameInternal(e, encoder)
     \/ encoder /\ Refused /\ ProcessAudioFrameInternal(e, FALSE)
  /\ UNCHANGED <<control, capturer, pc, back, speakers, present, users, reconnects, unplugs>>

(***************************************************************************)
(* StartStreamingMedia and StopMediaPipeline, under pipeline_mutex_.       *)
(***************************************************************************)
BuildMedia ==
  /\ pc["session"] = "build" /\ pipeline = None
  /\ IF stop
     THEN Goto("session", "gone") /\ UNCHANGED <<pipeline, encoder, capture, streaming>>
     ELSE /\ pipeline' = "session" /\ encoder' = TRUE /\ capture' = TRUE /\ streaming' = TRUE
          /\ Call("session", "stopCapture", "open")
  /\ UNCHANGED <<now, source, sink, muted, mutex, stop, recovering, capturer, speakers, outside>>

\* A capturer that did not start is dropped and the picture goes on.
Started ==
  /\ pc["session"] = "started" \/ (pc["session"] = "startFailed" /\ mutex # "session")
  /\ capture' = (pc["session"] = "started") /\ pipeline' = None
  /\ Goto("session", IF recovering THEN "adapt" ELSE "streaming")
  /\ UNCHANGED <<timelineVars, mutex, stop, encoder, recovering, capturer, speakers, outside>>

Streaming ==
  /\ pc["session"] = "streaming" /\ ForgetLastEmit /\ Goto("session", "adapt") /\ recovering' = TRUE
  /\ UNCHANGED <<mutex, pipeline, stop, encoder, capture, capturer, speakers, outside>>

StopMediaPipeline(t, l, next) ==
  /\ pc[t] = l /\ pipeline = None /\ pipeline' = t /\ streaming' = FALSE
  /\ IF capture THEN Call(t, "stopCapture", next) ELSE Goto(t, next)
  /\ UNCHANGED <<now, source, sink, muted, mutex, stop, encoder, capture, recovering, capturer, speakers, outside>>

\* audio_capture_.reset() runs the destructor, and with it Stop, under audio_mutex_.
DropMedia(t) ==
  /\ pc[t] = "drop" /\ mutex = None /\ mutex' = t /\ encoder' = FALSE
  /\ IF capture THEN Call(t, "stopCapture", "dropped") ELSE Goto(t, "dropped")
  /\ UNCHANGED <<timelineVars, pipeline, stop, capture, recovering, capturer, speakers, outside>>

Dropped(t) ==
  /\ pc[t] = "dropped" /\ mutex' = None /\ pipeline' = None /\ capture' = FALSE
  /\ Goto(t, IF t = "session" THEN "build" ELSE "joinSession")
  /\ UNCHANGED <<timelineVars, stop, encoder, recovering, capturer, speakers, outside>>

(***************************************************************************)
(* The adaptation loop: silence, the restart of a dead capturer, and the   *)
(* reconnect, which stops the media and builds them again.                 *)
(***************************************************************************)
AddSilence ==
  /\ pc["session"] = "adapt" /\ InjectSilenceAudioFrame
  /\ UNCHANGED <<control, capturer, pc, back, speakers, outside>>

Adapting == pc["session"] = "adapt" /\ offer["session"] = None

RestartCapture ==
  /\ Adapting /\ mutex = None /\ capture /\ ~running /\ streaming
  /\ mutex' = "session" /\ Call("session", "stopCapture", "open")
  /\ UNCHANGED <<timelineVars, pipeline, stop, encoder, capture, recovering, capturer, speakers, outside>>

Restarted ==
  /\ mutex = "session" /\ pc["session"] \in {"restarted", "startFailed"}
  /\ mutex' = None /\ Goto("session", "adapt")
  /\ UNCHANGED <<timelineVars, pipeline, stop, encoder, capture, recovering, capturer, speakers, outside>>

Reconnect ==
  /\ Adapting /\ ~stop /\ reconnects < MaxReconnects /\ reconnects' = reconnects + 1
  /\ Goto("session", "reconnect")
  /\ UNCHANGED <<timelineVars, control, capturer, speakers, present, users, unplugs, refusals>>

AdaptationEnds ==
  /\ Adapting /\ stop /\ Goto("session", "gone")
  /\ UNCHANGED <<timelineVars, control, capturer, speakers, outside>>

\* CastSession::Stop by another thread.
UserStops ==
  /\ pc["stopper"] = "idle" /\ pc["session"] # "gone" /\ ~stop /\ stop' = TRUE /\ muted' = FALSE
  /\ Goto("stopper", "stopMedia")
  /\ UNCHANGED <<now, source, sink, streaming, mutex, pipeline, encoder, capture, recovering, capturer, speakers, outside>>

JoinSession ==
  /\ pc["stopper"] = "joinSession" /\ pc["session"] = "gone" /\ Goto("stopper", "stopped")
  /\ UNCHANGED <<timelineVars, control, capturer, speakers, outside>>

Unplug ==
  /\ unplugs < MaxUnplugs /\ present /\ present' = FALSE /\ unplugs' = unplugs + 1
  /\ UNCHANGED <<timelineVars, control, capturer, pc, back, speakers, users, reconnects, refusals>>
Replug ==
  /\ ~present /\ present' = TRUE
  /\ UNCHANGED <<timelineVars, control, capturer, pc, back, speakers, users, reconnects, unplugs, refusals>>

\* The mute button is left to the behaviours the user does not end.
Clock == (Tick \/ (pc["session"] = "adapt" /\ pc["stopper"] = "away" /\ SetAudioMuted))
         /\ UNCHANGED <<control, capturer, pc, back, speakers, outside>>

\* Two threads in join() of the same std::thread: undefined, nothing follows.
Crashed == \A t \in Threads : pc[t] = "join"

\* The adaptation loop joins, with audio_mutex_ held, a thread that waits for it:
\* Start had just given up when the slow set-up ended and brought a frame.
HeldJoin == mutex = "session" /\ pc["session"] = "join" /\ offer["capture"] # None

Over == (Crashed \/ HeldJoin \/ pc["stopper"] = "stopped") /\ UNCHANGED vars

Step ==
  \/ \E t \in Threads :
       StopCapture(t) \/ JoinCapture(t) \/ RestorePlayback(t) \/ DropMedia(t) \/ Dropped(t)
  \/ StopMediaPipeline("session", "reconnect", "drop")
  \/ StopMediaPipeline("stopper", "stopMedia", "drop")
  \/ PulseOpen \/ ReadSink \/ SilenceSink \/ SpawnCapture
  \/ WaitInit \/ WaitInitTooLong \/ GiveUp
  \/ InitOnThread \/ LosesEndpoint \/ BreaksOff \/ LeavesLoop \/ CaptureSteps
  \/ \E e \in Sources : SendFrame(e)
  \/ BuildMedia \/ Started \/ Streaming \/ AddSilence \/ RestartCapture \/ Restarted
  \/ Reconnect \/ AdaptationEnds \/ UserStops \/ JoinSession
  \/ Unplug \/ Replug \/ Clock

Next == (~Crashed /\ Step) \/ Over

Spec == Init /\ [][Next]_vars
-----------------------------------------------------------------------------
(***************************************************************************)
(* Properties                                                              *)
(***************************************************************************)
\* "The emitted audio timeline must advance by exactly one frame per frame
\* emitted": each frame that goes out is stamped at least one frame past the
\* frame before it, whether it was captured, stood in for a muted one, or filled
\* a gap (ProcessAudioFrameInternal, cast_session.cc:752), from the moment Start
\* has forgotten the stamps of an earlier session.
StampsAdvance == [][sent' # sent /\ lastEmit # 0 => sent' >= sent + Frame]_vars

\* Silence is filled in for what the endpoint does not play, and what of it turns
\* out to lie on top of late sound does not add up: what the loop has queued and
\* handed on ends less than a frame past the clock or, by no more than one packet
\* can be late, past the endpoint's own sound, however late packets, silence,
\* discontinuities, untrusted stamps, late wake-ups and restarts follow each other
\* (the WAIT_TIMEOUT branch of CaptureThreadMain, audio_capture_wasapi.cc:700).
CaptureOnTime ==
  backend = "wasapi" /\ startTs # None => startTs + pending < Later(now, rendered + MaxLate) + Frame

\* Once the session has stopped and as long as the sound server did what it was
\* asked, the computer's speakers play as the user had left them, however often
\* the capture was restarted (PulseAudioCapture::Start and Stop).
SinkRestored == pc["stopper"] = "stopped" /\ refusals = 0 => sinkState = users

\* Violated: a packet that is read late comes after silence for the time it
\* played, and its sound is queued behind that silence.
NoSilenceOnTop ==
  backend = "wasapi" /\ startTs # None => startTs + pending < Later(now, rendered) + Frame

\* Violated: Start forgets the last stamp when frames of this session have
\* already gone out (cast_session.cc:289).
StampsAdvanceAnyway == [][sent' # sent /\ sent # None => sent' >= sent + Frame]_vars

\* Violated with refusals: muted speakers whose unmuting failed stay at volume 0.
SinkRestoredAnyway == pc["stopper"] = "stopped" => sinkState = users
\* Violated: IsCapturing() goes on saying yes after Pulse's loop has broken off.
RunningIsTrue == running /\ pc["session"] = "adapt" => thread # "ended"
\* Violated: a user's Stop and a restart by the adaptation loop are in the same
\* capturer, and both join its thread.
OneJoins == ~Crashed
\* Violated: Stop would wait for ever for an adaptation loop that waits for ever.
NoHeldJoin == ~HeldJoin
\* Violated after a while (FromNow, MCAudioLead.cfg): where a packet starts inside
\* silence that was already sent, the queue's stamp goes back and the pinned one
\* does not, so that each time the stamps sent run further ahead of the clock.
LeadBounded == backend = "wasapi" => lastEmit <= now + (IdleCap + 3) * Frame
\* Pulse's silence comes on top of sound that was only late.
PulseLeadBounded == backend = "pulse" => lastEmit <= now + 2 * Frame
=============================================================================
