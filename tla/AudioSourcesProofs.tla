-------------------------- MODULE AudioSourcesProofs --------------------------
(***************************************************************************)
(* The stamps of the sound the TV gets advance by at least a frame for     *)
(* every frame, silence is not put on top of the endpoint's own sound, and *)
(* the computer's speakers are given back, for any                         *)
(* lengths of what the endpoint delivers, any cap of the silence, any      *)
(* number of restarts, failures, reconnects and lost endpoints, in         *)
(* whatever order the session's threads and the user's Stop come.          *)
(***************************************************************************)
EXTENDS AudioSources, TLAPS

\* What is queued on WASAPI has a stamp.
Stamped == backend = "wasapi" /\ pending > 0 => startTs \in Int

\* The pin is the stamp of the last frame that went out, until it is forgotten.
PinIsSent == lastEmit # 0 => sent = lastEmit

SoundInv == TypeOK /\ Stamped /\ PinIsSent

\* A step that leaves the sound alone.
Silently == UNCHANGED timelineVars

-----------------------------------------------------------------------------
(* The sound.                                                              *)

\* Whatever does not touch the sound keeps what is said of it.
LEMMA SilentKeeps ==
  ASSUME TimelineTypeOK, Stamped, PinIsSent, Silently
  PROVE  TimelineTypeOK' /\ Stamped' /\ PinIsSent'
BY DEF TimelineTypeOK, Stamped, PinIsSent, Silently, timelineVars, source, sink

\* A frame that is brought has a stamp, or is not brought.
LEMMA BroughtType ==
  ASSUME TimelineTypeOK, NEW e \in Sources, NEW ts \in Int \cup {None}, Bring(e, ts)
  PROVE  offer' \in [Sources -> Int \cup {None}]
BY DEF TimelineTypeOK, Bring

\* What the capture thread makes of the endpoint's sound and of its silence.
LEMMA CaptureKeeps ==
  ASSUME TimelineTypeOK, Stamped, PinIsSent,
         WasapiPacket \/ PulseRead \/ WasapiIdle \/ PulseKeepalive \/ FlushPending
  PROVE  TimelineTypeOK' /\ Stamped' /\ PinIsSent'
<1>0. /\ now \in 0..MaxNow /\ MaxNow \in Nat /\ now \in Nat /\ IdleCap \in Nat /\ Packets \subseteq Nat
      /\ rendered \in Int /\ pending \in Nat /\ startTs \in Int \cup {None} /\ wake \in Nat
      /\ backend \in {"wasapi", "pulse"} /\ "capture" \in Sources
  BY TimelineAssumption DEF TimelineTypeOK, Sources
<1>1. CASE WasapiPacket
  <2>1. /\ UNCHANGED <<now, backend, sink, muted, streaming>> /\ wake' = now
        /\ rendered' \in Int /\ pending' \in Nat /\ startTs' \in Int
    <3>1. Ages \subseteq Int
      BY TimelineAssumption
    <3>2. PICK n \in Packets, age \in Ages, disc, bad \in BOOLEAN :
            /\ ConvertAndEmit(n, IF bad THEN now ELSE now + age, disc)
            /\ rendered' = now + age + n
      BY <1>1 DEF WasapiPacket
    <3>3. (IF bad THEN now ELSE now + age) \in Int /\ n \in Nat
      BY <1>0, <3>1
    <3> HIDE DEF Frame
    <3> QED
      BY <1>0, <1>1, <3>1, <3>2, <3>3 DEF WasapiPacket, ConvertAndEmit, Stamped
  <2> QED
    BY <1>0, <2>1 DEF TimelineTypeOK, Stamped, PinIsSent, sink
<1>2. CASE PulseRead
  <2>1. /\ UNCHANGED <<now, backend, startTs, wake, sink, muted, streaming>> /\ backend = "pulse"
        /\ rendered' \in Int /\ pending' \in Nat
    BY <1>0, <1>2 DEF PulseRead
  <2> QED
    BY <1>0, <2>1 DEF TimelineTypeOK, Stamped, PinIsSent, sink
<1>3. CASE WasapiIdle
  <2> DEFINE start == IF startTs = None THEN now ELSE startTs
             due == DueSilence(start)
             frames == IF due > IdleCap THEN IdleCap ELSE due
  <2>1. start \in Int
    BY <1>0
  <2>2. due \in Nat
    <3> HIDE DEF start
    <3> QED
      BY <1>0, <2>1 DEF DueSilence, Frame
  <2>3. /\ startTs' = IF due > IdleCap THEN now - IdleCap * Frame ELSE start
        /\ pending' = pending + frames * Frame
        /\ wake' = now /\ UNCHANGED <<now, backend, rendered, sink, muted, streaming>>
    BY <1>3 DEF WasapiIdle
  <2> HIDE DEF due, start
  <2>4. startTs' \in Int /\ pending' \in Nat
    BY <1>0, <2>1, <2>2, <2>3 DEF Frame
  <2> QED
    BY <1>0, <2>3, <2>4 DEF TimelineTypeOK, Stamped, PinIsSent, sink
<1>4. CASE PulseKeepalive
  <2>1. offer' \in [Sources -> Int \cup {None}]
    BY <1>0, <1>4, BroughtType DEF PulseKeepalive
  <2> QED
    BY <1>0, <1>4, <2>1 DEF PulseKeepalive, TimelineTypeOK, Stamped, PinIsSent
<1>5. CASE FlushPending
  <2>1. /\ UNCHANGED <<now, backend, rendered, muted, streaming, lastEmit, lastSend, sent>>
        /\ pending >= Frame /\ pending' = pending - Frame /\ pending' \in Nat
    BY <1>0, <1>5 DEF FlushPending, Frame
  <2>2. CASE backend = "wasapi"
    <3>1. startTs \in Int /\ startTs' = startTs + Frame /\ wake' = wake /\ Bring("capture", startTs)
      BY <1>0, <1>5, <2>1, <2>2 DEF FlushPending, Stamped, Frame
    <3>2. offer' \in [Sources -> Int \cup {None}] /\ startTs' \in Int
      BY <1>0, <3>1, BroughtType DEF Frame
    <3> QED
      BY <1>0, <2>1, <3>1, <3>2 DEF TimelineTypeOK, Stamped, PinIsSent
  <2>3. CASE backend # "wasapi"
    <3>1. PICK latency \in {0, Frame} :
            Bring("capture", now - latency - (pending \div Frame - 1) * Frame)
      BY <1>5, <2>3 DEF FlushPending
    <3>2. now - latency - (pending \div Frame - 1) * Frame \in Int
      BY <1>0 DEF Frame
    <3>3. offer' \in [Sources -> Int \cup {None}]
      BY <1>0, <3>1, <3>2, BroughtType
    <3>4. wake' = now /\ startTs' = startTs
      BY <1>5, <2>3 DEF FlushPending
    <3> QED
      BY <1>0, <2>1, <2>3, <3>3, <3>4 DEF TimelineTypeOK, Stamped, PinIsSent
  <2> QED
    BY <2>2, <2>3
<1> QED
  BY <1>1, <1>2, <1>3, <1>4, <1>5

\* The clock and the mute button.
LEMMA ClockKeeps ==
  ASSUME TimelineTypeOK, Stamped, PinIsSent, Tick \/ SetAudioMuted
  PROVE  TimelineTypeOK' /\ Stamped' /\ PinIsSent'
<1>1. UNCHANGED <<source, sink, streaming>> /\ now' \in 0..MaxNow /\ muted' \in BOOLEAN
  <2>1. CASE Tick
    BY <2>1, TimelineAssumption DEF Tick, TimelineTypeOK
  <2>2. CASE SetAudioMuted
    BY <2>2 DEF SetAudioMuted, TimelineTypeOK
  <2> QED
    BY <2>1, <2>2
<1> QED
  BY <1>1 DEF TimelineTypeOK, Stamped, PinIsSent, source, sink

\* Silence of the adaptation loop's own.
LEMMA SilenceKeeps ==
  ASSUME TimelineTypeOK, Stamped, PinIsSent, InjectSilenceAudioFrame
  PROVE  TimelineTypeOK' /\ Stamped' /\ PinIsSent'
<1>1. now \in Int /\ "session" \in Sources /\ offer \in [Sources -> Int \cup {None}]
  BY TimelineAssumption DEF TimelineTypeOK, Sources
<1>2. PICK v \in Int \cup {None} : offer' = [offer EXCEPT !["session"] = v]
  BY <1>1 DEF InjectSilenceAudioFrame
<1>3. offer' \in [Sources -> Int \cup {None}]
  BY <1>1, <1>2
<1> QED
  BY <1>1, <1>3 DEF InjectSilenceAudioFrame, TimelineTypeOK, Stamped, PinIsSent, source

\* The pin: what goes out is past the frame before it.
LEMMA PinnedAdvances ==
  ASSUME NEW ts \in Int, lastEmit \in Int
  PROVE  Pinned(ts) \in Int /\ Pinned(ts) >= lastEmit + Frame
BY DEF Pinned, Later, Frame

\* A frame enters the encoder, and goes out or does not.
LEMMA ProcessKeeps ==
  ASSUME TimelineTypeOK, Stamped, PinIsSent, NEW e \in Sources, NEW sends,
         ProcessAudioFrameInternal(e, sends)
  PROVE  /\ TimelineTypeOK' /\ Stamped' /\ PinIsSent'
         /\ sent' # sent /\ lastEmit # 0 => sent' >= sent + Frame
<1>1. offer[e] \in Int /\ lastEmit \in Int /\ now \in Nat
  BY TimelineAssumption DEF TimelineTypeOK, ProcessAudioFrameInternal
<1>2. Pinned(offer[e]) \in Int /\ Pinned(offer[e]) >= lastEmit + Frame
  BY <1>1, PinnedAdvances
<1>3. offer' \in [Sources -> Int \cup {None}]
  BY DEF TimelineTypeOK, ProcessAudioFrameInternal
<1>4. \/ lastEmit' = Pinned(offer[e]) /\ sent' = Pinned(offer[e]) /\ lastSend' = now
      \/ UNCHANGED <<lastEmit, sent, lastSend>>
  BY DEF ProcessAudioFrameInternal
<1>5. UNCHANGED <<now, source, muted, streaming>>
  BY DEF ProcessAudioFrameInternal
<1> QED
  BY <1>1, <1>2, <1>3, <1>4, <1>5 DEF TimelineTypeOK, Stamped, PinIsSent, source

-----------------------------------------------------------------------------
(* The control.                                                            *)

\* What is said of everything but the sound.
ControlOK ==
  /\ mutex \in Threads \cup {None} /\ pipeline \in Threads \cup {None}
  /\ stop \in BOOLEAN /\ encoder \in BOOLEAN /\ capture \in BOOLEAN /\ running \in BOOLEAN
  /\ thread \in {"none", "init", "loop", "ended"} /\ initDone \in {"no", "ok", "failed"}
  /\ pc \in [Threads -> Places] /\ back \in [Threads -> Places]
  /\ present \in BOOLEAN /\ sinkState \in Speakers /\ users \in Speakers
  /\ before \in Speakers /\ saved \in Speakers \cup {None}

\* A capturer is stopped.
LEMMA StopKeeps ==
  ASSUME ControlOK, NEW t \in Threads,
         \/ StopCapture(t)
         \/ JoinCapture(t)
         \/ RestorePlayback(t)
  PROVE  ControlOK' /\ Silently
<1>0. /\ pc \in [Threads -> Places] /\ back \in [Threads -> Places]
      /\ "session" \in Threads /\ "stopper" \in Threads
  BY DEF ControlOK, Threads
<1>1. CASE StopCapture(t)
  <2>1. pc' \in [Threads -> Places] /\ back' \in [Threads -> Places]
    BY <1>1, <1>0 DEF StopCapture, Goto, Call, Return, Places
  <2> QED
    BY <1>1, <2>1 DEF StopCapture, ControlOK, Silently, control, capturer, speakers, outside
<1>2. CASE JoinCapture(t)
  <2>1. pc' \in [Threads -> Places] /\ back' \in [Threads -> Places]
    BY <1>2, <1>0 DEF JoinCapture, Goto, Call, Return, Places
  <2> QED
    BY <1>2, <2>1 DEF JoinCapture, ControlOK, Silently, control, capturer, speakers, outside
<1>3. CASE RestorePlayback(t)
  <2>1. pc' \in [Threads -> Places] /\ back' \in [Threads -> Places]
    BY <1>3, <1>0 DEF RestorePlayback, Goto, Call, Return
  <2> QED
    BY <1>3, <2>1 DEF RestorePlayback, ControlOK, Silently, control, capturer, speakers,
       outside, Restored, Speakers, Refused, Works
<1> QED
  BY <1>1, <1>2, <1>3

\* A capturer is started.
LEMMA StartKeeps ==
  ASSUME ControlOK,
         \/ PulseOpen
         \/ ReadSink
         \/ SilenceSink
         \/ WaitInit
         \/ WaitInitTooLong
         \/ GiveUp
  PROVE  ControlOK' /\ Silently
<1>0. /\ pc \in [Threads -> Places] /\ back \in [Threads -> Places]
      /\ "session" \in Threads /\ "stopper" \in Threads
  BY DEF ControlOK, Threads
<1>1. CASE PulseOpen
  <2>1. pc' \in [Threads -> Places] /\ back' \in [Threads -> Places]
    BY <1>1, <1>0 DEF PulseOpen, Goto, Call, Return, Places
  <2> QED
    BY <1>1, <2>1 DEF PulseOpen, ControlOK, Silently, control, capturer, speakers, outside
<1>2. CASE ReadSink
  <2>1. pc' \in [Threads -> Places] /\ back' \in [Threads -> Places]
    BY <1>2, <1>0 DEF ReadSink, Goto, Call, Return, Places
  <2> QED
    BY <1>2, <2>1 DEF ReadSink, ControlOK, Silently, control, capturer, speakers, outside
<1>3. CASE SilenceSink
  <2>1. Goto("session", "spawn") /\ "spawn" \in Places
    BY <1>3 DEF SilenceSink, Places
  <2>2. pc' \in [Threads -> Places] /\ back' \in [Threads -> Places]
    BY <1>0, <2>1 DEF Goto
  <2>3. sinkState \in Speakers /\ before \in Speakers /\ saved \in Speakers \cup {None}
    BY DEF ControlOK
  <2>4. sinkState' \in Speakers
    <3>1. \/ sinkState' = [volume |-> FALSE, mute |-> FALSE]
          \/ sinkState' = [sinkState EXCEPT !.mute = FALSE]
          \/ sinkState' = [sinkState EXCEPT !.volume = FALSE]
      BY <1>3 DEF SilenceSink
    <3>2. sinkState = [volume |-> sinkState.volume, mute |-> sinkState.mute]
          /\ sinkState.volume \in BOOLEAN /\ sinkState.mute \in BOOLEAN
      BY <2>3 DEF Speakers
    <3>3. \/ sinkState' = [volume |-> FALSE, mute |-> FALSE]
          \/ sinkState' = [volume |-> sinkState.volume, mute |-> FALSE]
          \/ sinkState' = [volume |-> FALSE, mute |-> sinkState.mute]
      BY <3>1, <3>2
    <3>4. ASSUME NEW v \in BOOLEAN, NEW m \in BOOLEAN PROVE [volume |-> v, mute |-> m] \in Speakers
      BY DEF Speakers
    <3>5. FALSE \in BOOLEAN
      OBVIOUS
    <3>6. /\ [volume |-> FALSE, mute |-> FALSE] \in Speakers
          /\ [volume |-> sinkState.volume, mute |-> FALSE] \in Speakers
          /\ [volume |-> FALSE, mute |-> sinkState.mute] \in Speakers
      BY <3>2, <3>4, <3>5, Zenon
    <3> QED
      BY <3>3, <3>6, Zenon
  <2>5. saved' \in Speakers \cup {None}
    BY <1>3, <2>3 DEF SilenceSink
  <2>6. UNCHANGED <<timelineVars, control, capturer, before, present, users>>
    BY <1>3 DEF SilenceSink
  <2> QED
    BY <2>2, <2>4, <2>5, <2>6 DEF ControlOK, Silently, control, capturer
<1>4. CASE WaitInit
  <2>1. pc' \in [Threads -> Places] /\ back' \in [Threads -> Places]
    BY <1>4, <1>0 DEF WaitInit, Calling, Goto, Call, Return, Places
  <2> QED
    BY <1>4, <2>1 DEF WaitInit, ControlOK, Silently, control, capturer, speakers, outside
<1>5. CASE WaitInitTooLong
  <2>1. pc' \in [Threads -> Places] /\ back' \in [Threads -> Places]
    BY <1>5, <1>0 DEF WaitInitTooLong, Goto, Call, Return, Places
  <2> QED
    BY <1>5, <2>1 DEF WaitInitTooLong, ControlOK, Silently, control, capturer, speakers, outside
<1>6. CASE GiveUp
  <2>1. pc' \in [Threads -> Places] /\ back' \in [Threads -> Places]
    BY <1>6, <1>0 DEF GiveUp, Goto, Call, Return, Places
  <2> QED
    BY <1>6, <2>1 DEF GiveUp, ControlOK, Silently, control, capturer, speakers, outside
<1> QED
  BY <1>1, <1>2, <1>3, <1>4, <1>5, <1>6

\* The capture thread begins and ends.
LEMMA ThreadKeeps ==
  ASSUME ControlOK,
         \/ InitOnThread
         \/ LosesEndpoint
         \/ BreaksOff
         \/ LeavesLoop
  PROVE  ControlOK' /\ Silently
<1>0. /\ pc \in [Threads -> Places] /\ back \in [Threads -> Places]
      /\ "session" \in Threads /\ "stopper" \in Threads
  BY DEF ControlOK, Threads
<1>1. CASE InitOnThread
  <2>1. pc' \in [Threads -> Places] /\ back' \in [Threads -> Places]
    BY <1>1, <1>0 DEF InitOnThread, Goto, Call, Return, Places
  <2> QED
    BY <1>1, <2>1 DEF InitOnThread, ControlOK, Silently, control, capturer, speakers, outside, Ends
<1>2. CASE LosesEndpoint
  <2>1. pc' \in [Threads -> Places] /\ back' \in [Threads -> Places]
    BY <1>2, <1>0 DEF LosesEndpoint, Goto, Call, Return, Places
  <2> QED
    BY <1>2, <2>1 DEF LosesEndpoint, ControlOK, Silently, control, capturer, speakers, outside, Ends
<1>3. CASE BreaksOff
  <2>1. pc' \in [Threads -> Places] /\ back' \in [Threads -> Places]
    BY <1>3, <1>0 DEF BreaksOff, Goto, Call, Return, Places
  <2> QED
    BY <1>3, <2>1 DEF BreaksOff, ControlOK, Silently, control, capturer, speakers, outside
<1>4. CASE LeavesLoop
  <2>1. pc' \in [Threads -> Places] /\ back' \in [Threads -> Places]
    BY <1>4, <1>0 DEF LeavesLoop, Goto, Call, Return, Places
  <2> QED
    BY <1>4, <2>1 DEF LeavesLoop, ControlOK, Silently, control, capturer, speakers, outside
<1> QED
  BY <1>1, <1>2, <1>3, <1>4

\* The media are dropped, and the adaptation loop goes on.
LEMMA SessionKeeps ==
  ASSUME ControlOK, NEW t \in Threads,
         \/ DropMedia(t)
         \/ Dropped(t)
         \/ Started
         \/ RestartCapture
         \/ Restarted
         \/ Reconnect
         \/ AdaptationEnds
         \/ JoinSession
         \/ Unplug
         \/ Replug
  PROVE  ControlOK' /\ Silently
<1>0. /\ pc \in [Threads -> Places] /\ back \in [Threads -> Places]
      /\ "session" \in Threads /\ "stopper" \in Threads
  BY DEF ControlOK, Threads
<1>1. CASE DropMedia(t)
  <2>1. pc' \in [Threads -> Places] /\ back' \in [Threads -> Places]
    BY <1>1, <1>0 DEF DropMedia, Goto, Call, Return, Places
  <2> QED
    BY <1>1, <2>1 DEF DropMedia, ControlOK, Silently, control, capturer, speakers, outside
<1>2. CASE Dropped(t)
  <2>1. pc' \in [Threads -> Places] /\ back' \in [Threads -> Places]
    BY <1>2, <1>0 DEF Dropped, Goto, Call, Return, Places
  <2> QED
    BY <1>2, <2>1 DEF Dropped, ControlOK, Silently, control, capturer, speakers, outside
<1>3. CASE Started
  <2>1. pc' \in [Threads -> Places] /\ back' \in [Threads -> Places]
    BY <1>3, <1>0 DEF Started, Goto, Call, Return, Places
  <2> QED
    BY <1>3, <2>1 DEF Started, ControlOK, Silently, control, capturer, speakers, outside
<1>4. CASE RestartCapture
  <2>1. pc' \in [Threads -> Places] /\ back' \in [Threads -> Places]
    BY <1>4, <1>0 DEF RestartCapture, Goto, Call, Return, Places
  <2> QED
    BY <1>4, <1>0, <2>1 DEF RestartCapture, ControlOK, Silently, control, capturer, speakers,
       outside
<1>5. CASE Restarted
  <2>1. pc' \in [Threads -> Places] /\ back' \in [Threads -> Places]
    BY <1>5, <1>0 DEF Restarted, Goto, Call, Return, Places
  <2> QED
    BY <1>5, <2>1 DEF Restarted, ControlOK, Silently, control, capturer, speakers, outside
<1>6. CASE Reconnect
  <2>1. pc' \in [Threads -> Places] /\ back' \in [Threads -> Places]
    BY <1>6, <1>0 DEF Reconnect, Goto, Call, Return, Places
  <2> QED
    BY <1>6, <2>1 DEF Reconnect, ControlOK, Silently, control, capturer, speakers, outside
<1>7. CASE AdaptationEnds
  <2>1. pc' \in [Threads -> Places] /\ back' \in [Threads -> Places]
    BY <1>7, <1>0 DEF AdaptationEnds, Goto, Call, Return, Places
  <2> QED
    BY <1>7, <2>1 DEF AdaptationEnds, ControlOK, Silently, control, capturer, speakers, outside
<1>8. CASE JoinSession
  <2>1. pc' \in [Threads -> Places] /\ back' \in [Threads -> Places]
    BY <1>8, <1>0 DEF JoinSession, Goto, Call, Return, Places
  <2> QED
    BY <1>8, <2>1 DEF JoinSession, ControlOK, Silently, control, capturer, speakers, outside
<1>9. CASE Unplug
  <2>1. pc' \in [Threads -> Places] /\ back' \in [Threads -> Places]
    BY <1>9, <1>0 DEF Unplug, Goto, Call, Return, Places
  <2> QED
    BY <1>9, <2>1 DEF Unplug, ControlOK, Silently, control, capturer, speakers, outside
<1>10. CASE Replug
  <2>1. pc' \in [Threads -> Places] /\ back' \in [Threads -> Places]
    BY <1>10, <1>0 DEF Replug, Goto, Call, Return, Places
  <2> QED
    BY <1>10, <2>1 DEF Replug, ControlOK, Silently, control, capturer, speakers, outside
<1> QED
  BY <1>1, <1>2, <1>3, <1>4, <1>5, <1>6, <1>7, <1>8, <1>9, <1>10

-----------------------------------------------------------------------------
(* Steps of both.                                                          *)

\* The thread begins with an empty queue.
LEMMA SpawnKeeps ==
  ASSUME TimelineTypeOK, Stamped, PinIsSent, ControlOK, SpawnCapture
  PROVE  TimelineTypeOK' /\ Stamped' /\ PinIsSent' /\ ControlOK'
<1>0. /\ pc \in [Threads -> Places] /\ back \in [Threads -> Places] /\ now \in Nat
  BY TimelineAssumption DEF ControlOK, TimelineTypeOK
<1>1. pc' \in [Threads -> Places] /\ back' \in [Threads -> Places]
  BY <1>0 DEF SpawnCapture, Calling, Goto, Places
<1>2. /\ pending' = 0 /\ wake' = now
      /\ UNCHANGED <<rendered, startTs, now, backend, sink, muted, streaming, control, speakers, outside>>
      /\ running' = TRUE /\ thread' \in {"loop", "init"} /\ initDone' = "no"
  BY DEF SpawnCapture, Spawned
<1>3. TimelineTypeOK' /\ Stamped' /\ PinIsSent'
  BY <1>0, <1>2 DEF TimelineTypeOK, Stamped, PinIsSent, sink
<1> QED
  BY <1>1, <1>2, <1>3 DEF ControlOK, control, speakers, outside

\* StartStreamingMedia and StopMediaPipeline turn the stream on and off.
LEMMA StreamKeeps ==
  ASSUME TimelineTypeOK, Stamped, PinIsSent, ControlOK,
         \/ BuildMedia
         \/ StopMediaPipeline("session", "reconnect", "drop")
         \/ StopMediaPipeline("stopper", "stopMedia", "drop")
         \/ UserStops
  PROVE  TimelineTypeOK' /\ Stamped' /\ PinIsSent' /\ ControlOK'
<1>0. /\ pc \in [Threads -> Places] /\ back \in [Threads -> Places]
      /\ "session" \in Threads /\ "stopper" \in Threads
  BY DEF ControlOK, Threads
<1> DEFINE Sounds == TimelineTypeOK /\ Stamped /\ PinIsSent
<1>1. ASSUME UNCHANGED <<now, source, sink>>, muted' \in BOOLEAN, streaming' \in BOOLEAN PROVE Sounds'
  BY <1>1 DEF TimelineTypeOK, Stamped, PinIsSent, source, sink
<1>2. muted \in BOOLEAN /\ streaming \in BOOLEAN
  BY DEF TimelineTypeOK
<1> HIDE DEF Sounds
<1>3. CASE BuildMedia
  <2>1. pc' \in [Threads -> Places] /\ back' \in [Threads -> Places]
    BY <1>0, <1>3 DEF BuildMedia, Goto, Call, Places
  <2>2. Sounds'
    BY <1>1, <1>2, <1>3 DEF BuildMedia
  <2>3. ControlOK'
    BY <1>0, <1>3, <2>1 DEF BuildMedia, ControlOK, capturer, speakers, outside
  <2> QED
    BY <2>2, <2>3 DEF Sounds
<1>4. ASSUME NEW t \in Threads, NEW l, StopMediaPipeline(t, l, "drop") PROVE Sounds' /\ ControlOK'
  <2>1. pc' \in [Threads -> Places] /\ back' \in [Threads -> Places]
    BY <1>0, <1>4 DEF StopMediaPipeline, Goto, Call, Places
  <2>2. Sounds'
    BY <1>1, <1>2, <1>4 DEF StopMediaPipeline
  <2> QED
    BY <1>4, <2>1, <2>2 DEF StopMediaPipeline, ControlOK, capturer, speakers, outside
<1>5. CASE UserStops
  <2>1. pc' \in [Threads -> Places] /\ back' \in [Threads -> Places]
    BY <1>0, <1>5 DEF UserStops, Goto, Places
  <2>2. Sounds'
    BY <1>1, <1>2, <1>5 DEF UserStops
  <2>3. ControlOK'
    BY <1>5, <2>1 DEF UserStops, ControlOK, capturer, speakers, outside
  <2> QED
    BY <2>2, <2>3 DEF Sounds
<1> QED
  BY <1>0, <1>3, <1>4, <1>5 DEF Sounds

\* Start forgets the stamps of an earlier session.
LEMMA StreamingKeeps ==
  ASSUME TimelineTypeOK, Stamped, PinIsSent, ControlOK, Streaming
  PROVE  TimelineTypeOK' /\ Stamped' /\ PinIsSent' /\ ControlOK' /\ sent' = sent
<1>0. pc \in [Threads -> Places] /\ back \in [Threads -> Places] /\ now \in Nat
  BY TimelineAssumption DEF ControlOK, TimelineTypeOK
<1>1. pc' \in [Threads -> Places] /\ back' \in [Threads -> Places]
  BY <1>0 DEF Streaming, Goto, Places
<1>2. TimelineTypeOK' /\ Stamped' /\ PinIsSent' /\ sent' = sent
  BY <1>0 DEF Streaming, ForgetLastEmit, TimelineTypeOK, Stamped, PinIsSent, source
<1> QED
  BY <1>1, <1>2 DEF Streaming, ControlOK, capturer, speakers, outside

\* Nothing but the sound moves.
LEMMA ControlStays ==
  ASSUME ControlOK, UNCHANGED <<control, capturer, pc, back, speakers, present, users>>
  PROVE  ControlOK'
BY DEF ControlOK, control, capturer, speakers

\* Every step keeps the invariant, and none but SendFrame sends.
LEMMA SoundStep ==
  ASSUME SoundInv, [Next]_vars
  PROVE  SoundInv' /\ (sent' # sent /\ lastEmit # 0 => sent' >= sent + Frame)
<1> DEFINE Sounds == TimelineTypeOK /\ Stamped /\ PinIsSent
           Advances == sent' # sent /\ lastEmit # 0 => sent' >= sent + Frame
<1>0. /\ Sounds /\ ControlOK
      /\ SoundInv' <=> Sounds' /\ ControlOK'
  BY DEF SoundInv, TypeOK, ControlOK
<1>1. SUFFICES Sounds' /\ ControlOK' /\ Advances
  BY <1>0
<1>2. ASSUME ControlOK', Silently PROVE Sounds' /\ ControlOK' /\ Advances
  BY <1>0, <1>2, SilentKeeps DEF Silently, timelineVars, sink
<1>3. ASSUME NEW t \in Threads,
             \/ StopCapture(t) \/ JoinCapture(t) \/ RestorePlayback(t) \/ DropMedia(t) \/ Dropped(t)
      PROVE  Sounds' /\ ControlOK' /\ Advances
  BY <1>0, <1>2, <1>3, StopKeeps, SessionKeeps
<1>4. CASE \/ StopMediaPipeline("session", "reconnect", "drop")
           \/ StopMediaPipeline("stopper", "stopMedia", "drop")
           \/ BuildMedia \/ UserStops
  <2>1. sent' = sent
    BY <1>4 DEF StopMediaPipeline, BuildMedia, UserStops, sink
  <2> QED
    BY <1>0, <1>4, <2>1, StreamKeeps
<1>5. CASE PulseOpen \/ ReadSink \/ SilenceSink \/ WaitInit \/ WaitInitTooLong \/ GiveUp
  BY <1>0, <1>2, <1>5, StartKeeps
<1>6. CASE SpawnCapture
  <2>1. sent' = sent
    BY <1>6 DEF SpawnCapture, sink
  <2> QED
    BY <1>0, <1>6, <2>1, SpawnKeeps
<1>7. CASE InitOnThread \/ LosesEndpoint \/ BreaksOff \/ LeavesLoop
  BY <1>0, <1>2, <1>7, ThreadKeeps
<1>8. CASE CaptureSteps
  <2>1. /\ WasapiPacket \/ PulseRead \/ WasapiIdle \/ PulseKeepalive \/ FlushPending
        /\ UNCHANGED <<control, capturer, pc, back, speakers, outside>>
    BY <1>8 DEF CaptureSteps
  <2>2. sent' = sent
    BY <2>1 DEF WasapiPacket, PulseRead, WasapiIdle, PulseKeepalive, FlushPending, sink
  <2> QED
    BY <1>0, <2>1, <2>2, CaptureKeeps, ControlStays DEF outside
<1>9. ASSUME NEW e \in Sources, SendFrame(e) PROVE Sounds' /\ ControlOK' /\ Advances
  <2>1. PICK sends \in {encoder, FALSE} : ProcessAudioFrameInternal(e, sends)
    BY <1>9 DEF SendFrame
  <2> QED
    BY <1>0, <1>9, <2>1, ProcessKeeps, ControlStays DEF SendFrame
<1>10. CASE Started \/ RestartCapture \/ Restarted \/ Reconnect \/ AdaptationEnds \/ JoinSession
            \/ Unplug \/ Replug
  <2>1. "session" \in Threads
    BY DEF Threads
  <2> QED
    BY <1>0, <1>2, <1>10, <2>1, SessionKeeps
<1>11. CASE Streaming
  BY <1>0, <1>11, StreamingKeeps
<1>12. CASE AddSilence
  <2>1. sent' = sent
    BY <1>12 DEF AddSilence, InjectSilenceAudioFrame
  <2> QED
    BY <1>0, <1>12, <2>1, SilenceKeeps, ControlStays DEF AddSilence, outside
<1>13. CASE Clock
  <2>1. (Tick \/ SetAudioMuted) /\ UNCHANGED <<control, capturer, pc, back, speakers, outside>>
    BY <1>13 DEF Clock
  <2>2. sent' = sent
    BY <2>1 DEF Tick, SetAudioMuted, sink
  <2> QED
    BY <1>0, <2>1, <2>2, ClockKeeps, ControlStays DEF outside
<1>14. CASE Over \/ UNCHANGED vars
  <2>1. UNCHANGED vars
    BY <1>14 DEF Over
  <2>2. Silently /\ ControlOK'
    BY <1>0, <2>1, ControlStays DEF vars, Silently, outside
  <2> QED
    BY <1>2, <2>2
<1>15. CASE Step
  <2> HIDE DEF Sounds, Advances
  <2> QED
    BY <1>3, <1>4, <1>5, <1>6, <1>7, <1>8, <1>9, <1>10, <1>11, <1>12, <1>13, <1>15 DEF Step
<1> QED
  BY <1>14, <1>15 DEF Next

\* The invariant holds at first.
LEMMA SoundInit ==
  ASSUME Init
  PROVE  SoundInv
<1>1. PICK b \in Backends, used \in Budgets :
        /\ TimelineInit(b, used.now)
        /\ pc = [session |-> "build", stopper |-> used.user]
  BY DEF Init
<1>2. b \in {"wasapi", "pulse"} /\ used.now \in 0..MaxNow /\ MaxNow \in Nat /\ used.user \in {"idle", "away"}
  BY SourcesAssumption, TimelineAssumption
<1>3. TimelineTypeOK /\ Stamped /\ PinIsSent
  <2>1. used.now \in Nat /\ used.now \in Int
    BY <1>2
  <2>2. offer \in [Sources -> Int \cup {None}]
    BY <1>1 DEF TimelineInit
  <2>3. /\ backend \in {"wasapi", "pulse"} /\ now \in 0..MaxNow
        /\ rendered \in Int /\ pending = 0 /\ startTs = None /\ wake \in Nat
        /\ muted \in BOOLEAN /\ streaming \in BOOLEAN
        /\ lastEmit = 0 /\ lastSend \in Nat /\ sent = None
    BY <1>1, <1>2, <2>1 DEF TimelineInit
  <2>4. TimelineTypeOK
    BY <2>2, <2>3 DEF TimelineTypeOK
  <2> QED
    BY <2>3, <2>4 DEF Stamped, PinIsSent
<1>4. pc \in [Threads -> Places] /\ back \in [Threads -> Places]
  BY <1>1, <1>2 DEF Init, Threads, Places
<1>5. users \in Speakers /\ sinkState \in Speakers /\ before \in Speakers
  BY DEF Init, Speakers
<1> QED
  BY <1>3, <1>4, <1>5 DEF Init, SoundInv, TypeOK

\* The capturers, the session's threads, the speakers and the stamps stay
\* well-formed in every cast.
THEOREM SoundTypeCorrect == Spec => []TypeOK
<1>1. Init => SoundInv
  BY SoundInit
<1>2. SoundInv /\ [Next]_vars => SoundInv'
  BY SoundStep
<1>3. SoundInv => TypeOK
  BY DEF SoundInv
<1> QED
  BY <1>1, <1>2, <1>3, PTL DEF Spec

\* Every frame that goes out is stamped a frame or more past the one before it,
\* from the moment Start has forgotten an earlier session's stamps: captured
\* sound, silence for an idle endpoint, silence for a muted one and silence for a
\* gap, however the threads that bring them take turns and however often the
\* capturer starts again.
THEOREM SoundStampsAdvance == Spec => StampsAdvance
<1>1. Init => SoundInv
  BY SoundInit
<1>2. SoundInv /\ [Next]_vars => SoundInv'
  BY SoundStep
<1>3. SoundInv /\ [Next]_vars => [sent' # sent /\ lastEmit # 0 => sent' >= sent + Frame]_vars
  BY SoundStep
<1> QED
  BY <1>1, <1>2, <1>3, PTL DEF Spec, StampsAdvance

-----------------------------------------------------------------------------
(* The queue and the clock.                                                *)

\* A step that is none of the capture loop's own leaves the queue as it is, or
\* empties it for a new capture thread.
LEMMA QueueStays ==
  ASSUME SoundInv, [Next]_vars, ~CaptureSteps
  PROVE  /\ backend' = backend /\ rendered' = rendered /\ startTs' = startTs
         /\ now' \in Nat /\ now' >= now
         /\ pending' = pending \/ pending' = 0
<1>0. now \in Nat
  BY TimelineAssumption DEF SoundInv, TypeOK, TimelineTypeOK
<1>1. CASE SpawnCapture
  BY <1>0, <1>1 DEF SpawnCapture
<1>2. CASE Clock
  BY <1>0, <1>2 DEF Clock, Tick, SetAudioMuted, source
<1>3. ASSUME NEW t \in Threads,
             \/ StopCapture(t) \/ JoinCapture(t) \/ RestorePlayback(t) \/ DropMedia(t) \/ Dropped(t)
      PROVE  Silently
  BY <1>3 DEF StopCapture, JoinCapture, RestorePlayback, DropMedia, Dropped, Silently
<1>4. CASE \/ StopMediaPipeline("session", "reconnect", "drop")
           \/ StopMediaPipeline("stopper", "stopMedia", "drop")
           \/ BuildMedia \/ UserStops
  BY <1>0, <1>4 DEF StopMediaPipeline, BuildMedia, UserStops, source
<1>5. CASE PulseOpen \/ ReadSink \/ SilenceSink \/ WaitInit \/ WaitInitTooLong \/ GiveUp
  BY <1>0, <1>5 DEF PulseOpen, ReadSink, SilenceSink, WaitInit, WaitInitTooLong, GiveUp,
     timelineVars, source
<1>6. CASE InitOnThread \/ LosesEndpoint \/ BreaksOff \/ LeavesLoop
  BY <1>0, <1>6 DEF InitOnThread, LosesEndpoint, BreaksOff, LeavesLoop, timelineVars, source
<1>7. ASSUME NEW e \in Sources, SendFrame(e) PROVE UNCHANGED <<now, source>>
  BY <1>7 DEF SendFrame, ProcessAudioFrameInternal
<1>8. CASE Started \/ RestartCapture \/ Restarted \/ Reconnect \/ AdaptationEnds \/ JoinSession
           \/ Unplug \/ Replug
  BY <1>0, <1>8 DEF Started, RestartCapture, Restarted, Reconnect, AdaptationEnds, JoinSession,
     Unplug, Replug, timelineVars, source
<1>9. CASE Streaming \/ AddSilence
  BY <1>0, <1>9 DEF Streaming, ForgetLastEmit, AddSilence, InjectSilenceAudioFrame, source
<1>10. CASE Over \/ UNCHANGED vars
  BY <1>0, <1>10 DEF Over, vars, timelineVars, source
<1>11. CASE Step
  <2>1. CASE \E t \in Threads :
               StopCapture(t) \/ JoinCapture(t) \/ RestorePlayback(t) \/ DropMedia(t) \/ Dropped(t)
    BY <1>0, <1>3, <2>1 DEF Silently, timelineVars, source
  <2>2. CASE \E e \in Sources : SendFrame(e)
    BY <1>0, <1>7, <2>2 DEF source
  <2> QED
    BY <1>1, <1>2, <1>4, <1>5, <1>6, <1>8, <1>9, <1>11, <2>1, <2>2 DEF Step
<1> QED
  BY <1>10, <1>11 DEF Next

\* What the loop makes of a packet, of an idle endpoint and of its queue ends on
\* time.
LEMMA CaptureStaysOnTime ==
  ASSUME TimelineTypeOK, Stamped, CaptureOnTime,
         WasapiPacket \/ PulseRead \/ WasapiIdle \/ PulseKeepalive \/ FlushPending
  PROVE  CaptureOnTime'
<1>0. /\ now \in Nat /\ IdleCap \in Nat /\ MaxLate \in Nat /\ Packets \subseteq Nat
      /\ rendered \in Int /\ pending \in Nat /\ startTs \in Int \cup {None}
  BY TimelineAssumption DEF TimelineTypeOK
<1>1. CASE WasapiPacket
  <2>1. PICK n \in Packets, age \in Ages, disc, bad \in BOOLEAN :
          /\ now + age >= rendered \/ disc
          /\ ConvertAndEmit(n, IF bad THEN now ELSE now + age, disc)
          /\ rendered' = now + age + n
    BY <1>1 DEF WasapiPacket
  <2>2. backend = "wasapi" /\ now' = now
    BY <1>1 DEF WasapiPacket
  <2>3. n \in Nat /\ age \in Int /\ MaxLate \in Nat /\ age >= -MaxLate
    BY <1>0, TimelineAssumption
  <2>4. rendered' = now + age + n /\ pending' = pending + n
    BY <2>1 DEF ConvertAndEmit
  <2>5. PICK ts \in Int : /\ ts = IF bad THEN now ELSE now + age
                         /\ ts <= Later(now, now + age + MaxLate)
    BY <1>0, <2>3 DEF Later
  <2>6. CASE pending = 0 \/ disc
    <3>1. startTs' = IF pending = 0 THEN ts ELSE ts - pending
      BY <2>1, <2>5, <2>6 DEF ConvertAndEmit
    <3>2. startTs' + pending' = ts + n
      BY <1>0, <2>3, <2>4, <2>5, <3>1
    <3> QED
      BY <1>0, <2>2, <2>3, <2>4, <2>5, <3>2 DEF CaptureOnTime, Later, Frame
  <2>7. CASE pending # 0 /\ ~disc
    <3>1. startTs' = startTs /\ now + age >= rendered
      BY <2>1, <2>7 DEF ConvertAndEmit
    <3> QED
      BY <1>0, <2>2, <2>3, <2>4, <3>1 DEF CaptureOnTime, Later, Frame
  <2> QED
    BY <2>6, <2>7
<1>2. CASE PulseRead \/ PulseKeepalive
  BY <1>2 DEF PulseRead, PulseKeepalive, CaptureOnTime
<1>3. CASE WasapiIdle
  <2> DEFINE start == IF startTs = None THEN now ELSE startTs
             due == DueSilence(start)
             frames == IF due > IdleCap THEN IdleCap ELSE due
  <2>1. start \in Int /\ (startTs # None => start = startTs) /\ (startTs = None => start = now)
    BY <1>0
  <2>2. /\ backend = "wasapi" /\ now' = now /\ rendered' = rendered /\ pending < Frame
        /\ startTs' = IF due > IdleCap THEN now - IdleCap * Frame ELSE start
        /\ pending' = pending + frames * Frame
    BY <1>3 DEF WasapiIdle, Waiting
  <2> HIDE DEF start
  <2>3. /\ due \in Nat
        /\ now > start => due * Frame <= now - start
        /\ now <= start => due = 0
    BY <1>0, <2>1 DEF DueSilence, Frame
  <2> HIDE DEF due
  <2>4. CASE due > IdleCap
    <3>1. startTs' = now - IdleCap * 2 /\ pending' = pending + IdleCap * 2
      BY <2>2, <2>4 DEF Frame
    <3> QED
      BY <1>0, <2>2, <3>1 DEF CaptureOnTime, Later, Frame
  <2>5. CASE ~(due > IdleCap) /\ now > start
    <3>1. startTs' = start /\ pending' = pending + due * 2 /\ due * 2 <= now - start
      BY <2>2, <2>3, <2>5 DEF Frame
    <3> QED
      BY <1>0, <2>1, <2>2, <2>3, <3>1 DEF CaptureOnTime, Later, Frame
  <2>6. CASE ~(due > IdleCap) /\ now <= start
    <3>1. startTs' = start /\ pending' = pending
      BY <1>0, <2>2, <2>3, <2>6 DEF Frame
    <3>2. CASE startTs = None
      BY <1>0, <2>1, <2>2, <3>1, <3>2 DEF CaptureOnTime, Later, Frame
    <3>3. CASE startTs # None
      BY <1>0, <2>1, <2>2, <3>1, <3>3 DEF CaptureOnTime, Later
    <3> QED
      BY <3>2, <3>3
  <2> QED
    BY <1>0, <2>1, <2>4, <2>5, <2>6
<1>4. CASE FlushPending
  <2>1. /\ backend' = backend /\ now' = now /\ rendered' = rendered
        /\ pending' = pending - Frame /\ pending >= Frame
    BY <1>4 DEF FlushPending
  <2>2. CASE backend = "wasapi"
    <3>1. startTs' = startTs + Frame /\ startTs \in Int
      BY <1>0, <1>4, <2>1, <2>2 DEF FlushPending, Stamped, Frame
    <3>2. startTs # None
      BY <3>1, TimelineAssumption
    <3> QED
      BY <1>0, <2>1, <2>2, <3>1, <3>2 DEF CaptureOnTime, Later, Frame
  <2>3. CASE backend # "wasapi"
    BY <2>1, <2>3 DEF CaptureOnTime
  <2> QED
    BY <2>2, <2>3
<1> QED
  BY <1>1, <1>2, <1>3, <1>4

\* The WASAPI loop's own frames keep to the clock: what it has queued and handed
\* on ends less than a frame past the clock or, by MaxLate, the endpoint's sound,
\* for packets of any length, read any time before they play or up to MaxLate
\* after, and any cap of the silence.
THEOREM CaptureKeepsTime == Spec => []CaptureOnTime
<1>1. Init => SoundInv /\ CaptureOnTime
  BY SoundInit DEF Init, TimelineInit, CaptureOnTime
<1>2. SoundInv /\ CaptureOnTime /\ [Next]_vars => (SoundInv /\ CaptureOnTime)'
  <2> SUFFICES ASSUME SoundInv, CaptureOnTime, [Next]_vars PROVE CaptureOnTime'
    BY SoundStep
  <2>1. CASE CaptureSteps
    <3>1. WasapiPacket \/ PulseRead \/ WasapiIdle \/ PulseKeepalive \/ FlushPending
      BY <2>1 DEF CaptureSteps
    <3> QED
      BY <3>1, CaptureStaysOnTime DEF SoundInv, TypeOK
  <2>2. CASE ~CaptureSteps
    <3>1. /\ backend' = backend /\ rendered' = rendered /\ startTs' = startTs
          /\ now' \in Nat /\ now' >= now
          /\ pending' = pending \/ pending' = 0
      BY <2>2, QueueStays
    <3>2. /\ now \in Nat /\ rendered \in Int /\ pending \in Nat /\ startTs \in Int \cup {None}
          /\ MaxLate \in Nat
      BY TimelineAssumption DEF SoundInv, TypeOK, TimelineTypeOK
    <3> QED
      BY <3>1, <3>2 DEF CaptureOnTime, Later, Frame
  <2> QED
    BY <2>1, <2>2
<1> QED
  BY <1>1, <1>2, PTL DEF Spec

-----------------------------------------------------------------------------
(* The speakers.                                                           *)

\* The places of the capturer's Stop, and where a thread is in the session's code
\* meanwhile.
InStop == {"stopCapture", "join", "restore"}
Within(t) == IF pc[t] \in InStop THEN back[t] ELSE pc[t]

Starting == {"open", "readSink", "silence", "spawn", "waitInit", "giveUp"}
Dropping == {"drop", "dropped"}

\* Who starts or drops a capturer holds one of the two mutexes, and who drops the
\* media holds both.
Locked ==
  /\ Within("session") \in Starting \cup {"startFailed"} => mutex = "session" \/ pipeline = "session"
  /\ Within("session") = "restarted" => mutex = "session"
  /\ Within("session") = "started" => pipeline = "session"
  /\ \A t \in Threads :
       /\ Within(t) \in Dropping => pipeline = t
       /\ Within(t) = "dropped" => mutex = t

\* The capturer's Stop is called before a start, after one that failed, and when
\* the media are dropped.
Returns == \A t \in Threads : pc[t] \in InStop => back[t] \in {"open", "startFailed"} \cup Dropping

\* A capturer that is started is the session's.
Owned == Within("session") \in Starting \cup {"started"} => capture

\* The user's thread only takes down, and then nothing is built again.
TakesDown ==
  /\ Within("stopper") \in {"idle", "away", "stopMedia", "joinSession", "stopped"} \cup Dropping
  /\ Within("stopper") \notin {"idle", "away"} => stop
  /\ Within("stopper") \in {"joinSession", "stopped"} => ~capture

\* Only a capturer that is there keeps the speakers silent.
Kept ==
  /\ ~capture => saved = None
  /\ pc["session"] \in {"open", "readSink", "silence", "startFailed"} => saved = None
  /\ \A t \in Threads : pc[t] = "dropped" => saved = None

\* What is saved is what the user had set.
Faithful ==
  /\ saved = None => sinkState = users
  /\ saved # None => saved = users
  /\ pc["session"] = "silence" => before = users

SpeakersInv ==
  refusals \in Nat /\ Locked /\ Returns /\ Owned /\ TakesDown /\ (refusals = 0 => Kept /\ Faithful)

-----------------------------------------------------------------------------
(* Places.                                                                   *)

\* Going on to a place of the session's.
LEMMA GoneTo ==
  ASSUME TypeOK, NEW t \in Threads, NEW l, l \notin InStop, Goto(t, l)
  PROVE  /\ Within(t)' = l /\ pc'[t] = l
         /\ \A u \in Threads \ {t} : Within(u)' = Within(u) /\ pc'[u] = pc[u]
         /\ Returns => Returns'
BY DEF TypeOK, Goto, Within, Returns

\* Calling the capturer's Stop.
LEMMA Called ==
  ASSUME TypeOK, NEW t \in Threads, NEW r \in {"open", "startFailed"} \cup Dropping,
         Call(t, "stopCapture", r) \/ Call(t, "join", r)
  PROVE  /\ Within(t)' = r /\ pc'[t] \in InStop
         /\ \A u \in Threads \ {t} : Within(u)' = Within(u) /\ pc'[u] = pc[u]
         /\ Returns => Returns'
BY DEF TypeOK, Call, Within, InStop, Returns

\* Going on in the capturer's Stop.
LEMMA StopGoesOn ==
  ASSUME TypeOK, NEW t \in Threads, pc[t] \in InStop, NEW l \in InStop, Goto(t, l)
  PROVE  /\ pc'[t] \in InStop
         /\ \A u \in Threads : Within(u)' = Within(u)
         /\ \A u \in Threads \ {t} : pc'[u] = pc[u]
BY DEF TypeOK, Goto, Within, InStop

\* Coming back from it.
LEMMA CameBack ==
  ASSUME TypeOK, NEW t \in Threads, pc[t] = "restore", Return(t)
  PROVE  /\ \A u \in Threads : Within(u)' = Within(u)
         /\ \A u \in Threads \ {t} : pc'[u] = pc[u]
BY DEF TypeOK, Return, Within, InStop

-----------------------------------------------------------------------------
(* Steps.                                                                    *)

\* What the invariant speaks of.
plan == <<mutex, pipeline, stop, capture, pc, back>>

\* A call to the sound server, the encoder or the socket is refused or not.
Counted == refusals' \in {refusals, refusals + 1}

\* Whatever leaves the places, the mutexes and the speakers alone.
LEMMA Elsewhere ==
  ASSUME SpeakersInv, UNCHANGED <<plan, speakers, users>>, Counted
  PROVE  SpeakersInv'
BY DEF SpeakersInv, Locked, Returns, Owned, TakesDown, Kept, Faithful, Within, plan, speakers,
   Counted

\* A thread that goes on in the capturer's Stop changes nothing of what is said.
LEMMA StopCaptureKeeps ==
  ASSUME TypeOK, SpeakersInv, NEW t \in Threads, StopCapture(t) \/ JoinCapture(t)
  PROVE  SpeakersInv'
<1>1. PICK l \in InStop : Goto(t, l)
  BY DEF StopCapture, JoinCapture, InStop
<1>2. pc[t] \in InStop /\ UNCHANGED <<control, speakers, outside>>
  BY DEF StopCapture, JoinCapture, InStop
<1>3. /\ pc'[t] \in InStop
      /\ \A u \in Threads : Within(u)' = Within(u)
      /\ \A u \in Threads \ {t} : pc'[u] = pc[u]
  BY <1>1, <1>2, StopGoesOn
<1>4. "session" \in Threads /\ "stopper" \in Threads
  BY DEF Threads
<1>5. Locked' /\ Owned' /\ TakesDown'
  BY <1>2, <1>3, <1>4 DEF SpeakersInv, Locked, Owned, TakesDown, control
<1>6. Kept => Kept'
  BY <1>2, <1>3, <1>4 DEF Kept, control, speakers, InStop
<1>7. Faithful => Faithful'
  BY <1>2, <1>3, <1>4 DEF Faithful, speakers, outside, InStop
<1>8. Returns'
  BY <1>1, <1>2, <1>3 DEF SpeakersInv, Returns, Goto
<1> QED
  BY <1>2, <1>5, <1>6, <1>7, <1>8 DEF SpeakersInv, outside

\* The speakers are given back.
LEMMA RestoreKeeps ==
  ASSUME TypeOK, SpeakersInv, NEW t \in Threads, RestorePlayback(t)
  PROVE  SpeakersInv'
<1>1. /\ pc[t] = "restore" /\ Return(t) /\ saved' = None
      /\ UNCHANGED <<control, before, users>>
      /\ \/ refusals' = refusals /\ sinkState' = Restored(TRUE)
         \/ refusals' = refusals + 1
  BY DEF RestorePlayback, Works, Refused
<1>2. /\ \A u \in Threads : Within(u)' = Within(u)
      /\ \A u \in Threads \ {t} : pc'[u] = pc[u]
  BY <1>1, CameBack
<1>3. "session" \in Threads /\ "stopper" \in Threads
  BY DEF Threads
<1>4. Locked' /\ Owned' /\ TakesDown'
  BY <1>1, <1>2, <1>3 DEF SpeakersInv, Locked, Owned, TakesDown, control
<1>5. Kept'
  BY <1>1 DEF Kept
<1>6. refusals \in Nat
  BY DEF SpeakersInv
<1>8. pc'[t] \in {"open", "startFailed"} \cup Dropping
  BY <1>1 DEF SpeakersInv, Returns, Return, TypeOK, InStop
<1>9. Returns'
  <2>1. pc'[t] \notin InStop /\ back' = back
    BY <1>1, <1>8 DEF InStop, Dropping, Return
  <2> QED
    BY <1>2, <2>1 DEF SpeakersInv, Returns
<1>10. refusals' \in Nat
  <2>1. refusals' = refusals \/ refusals' = refusals + 1
    BY <1>1, Zenon
  <2> QED
    BY <1>6, <2>1
<1>7. ASSUME refusals' = 0 PROVE Faithful'
  <2>0. refusals' # refusals + 1
    BY <1>6, <1>7
  <2>1. refusals = 0 /\ sinkState' = Restored(TRUE)
    BY <1>1, <1>7, <2>0, Zenon
  <2>2. Faithful /\ sinkState \in Speakers /\ users \in Speakers
    BY <2>1 DEF SpeakersInv, TypeOK
  <2>3. sinkState' = users
    <3>1. CASE saved = None
      BY <2>1, <2>2, <3>1 DEF Restored, Faithful
    <3>2. CASE saved # None
      <4>1. sinkState' = [volume |-> users.volume, mute |-> users.mute]
        BY <2>1, <2>2, <3>2 DEF Restored, Faithful
      <4> QED
        BY <2>2, <4>1 DEF Speakers
    <3> QED
      BY <3>1, <3>2
  <2>5. pc'["session"] = "silence" => before = users
    <3>1. CASE t = "session"
      BY <1>8, <1>3, <3>1 DEF Dropping
    <3>2. CASE t # "session"
      BY <1>2, <1>3, <2>2, <3>2 DEF Faithful
    <3> QED
      BY <3>1, <3>2
  <2> QED
    BY <1>1, <2>3, <2>5 DEF Faithful
<1> QED
  BY <1>4, <1>5, <1>7, <1>9, <1>10 DEF SpeakersInv

\* The session goes on starting a capturer, with the mutex it has.
LEMMA StartGoesOn ==
  ASSUME SpeakersInv, pc["session"] \in Starting, UNCHANGED <<mutex, pipeline, stop, capture>>,
         NEW l \in Starting \cup {"startFailed", "started", "restarted"},
         Within("session")' = l, Within("stopper")' = Within("stopper"),
         l = "restarted" => mutex = "session", l = "started" => mutex # "session"
  PROVE  Locked' /\ Owned' /\ TakesDown'
<1>1. Within("session") = pc["session"]
  BY DEF Within, InStop, Starting
<1>2. mutex = "session" \/ pipeline = "session"
  BY <1>1 DEF SpeakersInv, Locked
<1>3. Locked'
  BY <1>2 DEF SpeakersInv, Locked, Starting, Dropping, Threads
<1>4. Owned'
  BY <1>1 DEF SpeakersInv, Owned
<1>5. TakesDown'
  BY DEF SpeakersInv, TakesDown
<1> QED
  BY <1>3, <1>4, <1>5

\* A capturer is started.
LEMMA StartSpeakers ==
  ASSUME TypeOK, SpeakersInv,
         PulseOpen \/ ReadSink \/ SilenceSink \/ SpawnCapture \/ WaitInit \/ WaitInitTooLong \/ GiveUp
  PROVE  SpeakersInv'
<1>0. /\ "session" \in Threads /\ "stopper" \in Threads /\ "session" # "stopper"
      /\ \A u \in Threads \ {"session"} : u = "stopper"
  BY DEF Threads
<1>1. /\ pc["session"] \in Starting
      /\ UNCHANGED <<mutex, pipeline, stop, capture, users>> /\ Counted
  BY DEF PulseOpen, ReadSink, SilenceSink, SpawnCapture, WaitInit, WaitInitTooLong, GiveUp,
         Starting, control, outside, Works, Refused, Counted
<1>2. refusals \in Nat /\ refusals' \in Nat /\ (refusals' = 0 => refusals = 0)
  BY <1>1 DEF SpeakersInv, Counted
<1>3. Returns
  BY DEF SpeakersInv
<1>4. ASSUME PulseOpen \/ WaitInitTooLong \/ SpawnCapture \/ (WaitInit /\ initDone = "ok")
             \/ ReadSink
      PROVE  SpeakersInv'
  <2>1. PICK l \in Starting \cup {"startFailed", "started", "restarted"} :
          /\ Goto("session", l)
          /\ l = "restarted" => mutex = "session"
          /\ l = "started" => mutex # "session"
          /\ l = "silence" => pc["session"] = "readSink" /\ (refusals' = refusals => before' = sinkState)
          /\ l \in {"readSink", "startFailed"} => pc["session"] = "open"
          /\ l # "open"
    BY <1>4 DEF PulseOpen, WaitInitTooLong, SpawnCapture, WaitInit, ReadSink, Calling, Starting,
       Works, Refused
  <2>2. UNCHANGED <<sinkState, saved>> /\ (refusals' = refusals /\ ~ReadSink => before' = before)
    BY <1>4 DEF PulseOpen, WaitInitTooLong, SpawnCapture, WaitInit, ReadSink, speakers
  <2>3. l \notin InStop
    BY <2>1 DEF Starting, InStop
  <2>4. /\ Within("session")' = l /\ pc'["session"] = l
        /\ Within("stopper")' = Within("stopper") /\ pc'["stopper"] = pc["stopper"]
        /\ Returns'
    BY <1>0, <1>3, <2>1, <2>3, GoneTo
  <2>5. Locked' /\ Owned' /\ TakesDown'
    BY <1>1, <2>1, <2>4, StartGoesOn
  <2>6. ASSUME Kept PROVE Kept'
    BY <1>1, <2>1, <2>2, <2>4, <2>6 DEF Kept, Threads, Starting
  <2>7. ASSUME Kept, Faithful, refusals' = 0 PROVE Faithful'
    <3>1. l = "silence" => before' = users
      BY <1>1, <1>2, <2>1, <2>7 DEF Kept, Faithful
    <3> QED
      BY <1>1, <2>2, <2>4, <2>7, <3>1 DEF Faithful
  <2> QED
    BY <1>2, <2>4, <2>5, <2>6, <2>7 DEF SpeakersInv
<1>5. CASE GiveUp \/ (WaitInit /\ initDone # "ok")
  <2>1. Call("session", "join", "startFailed") /\ UNCHANGED <<speakers, refusals>>
    BY <1>5 DEF GiveUp, WaitInit, outside
  <2>2. /\ Within("session")' = "startFailed" /\ pc'["session"] \in InStop
        /\ Within("stopper")' = Within("stopper") /\ pc'["stopper"] = pc["stopper"]
        /\ Returns'
    BY <1>0, <1>3, <2>1, Called
  <2>3. Locked' /\ Owned' /\ TakesDown'
    BY <1>1, <2>2, StartGoesOn
  <2>4. Kept => Kept'
    BY <1>1, <2>1, <2>2 DEF Kept, Threads, InStop, speakers
  <2>5. Faithful => Faithful'
    BY <1>1, <2>1, <2>2 DEF Faithful, InStop, speakers
  <2> QED
    BY <1>2, <2>1, <2>2, <2>3, <2>4, <2>5 DEF SpeakersInv
<1>6. CASE SilenceSink
  <2>1. pc["session"] = "silence" /\ Goto("session", "spawn") /\ "spawn" \notin InStop
    BY <1>6 DEF SilenceSink, InStop
  <2>2. /\ Within("session")' = "spawn" /\ pc'["session"] = "spawn"
        /\ Within("stopper")' = Within("stopper") /\ pc'["stopper"] = pc["stopper"]
        /\ Returns'
    BY <1>0, <1>3, <2>1, GoneTo
  <2>3. Locked' /\ Owned' /\ TakesDown'
    BY <1>1, <2>2, StartGoesOn DEF Starting
  <2>4. capture /\ pc["stopper"] # "dropped"
    <3>1. Within("session") = "silence" /\ (mutex = "session" \/ pipeline = "session") /\ capture
      BY <2>1 DEF Within, InStop, SpeakersInv, Locked, Owned, Starting
    <3>2. pc["stopper"] = "dropped" => mutex = "stopper" /\ pipeline = "stopper"
      BY <1>0 DEF Within, InStop, SpeakersInv, Locked, Dropping
    <3> QED
      BY <3>1, <3>2
  <2>5. Kept'
    BY <1>1, <2>2, <2>4 DEF Kept, Threads
  <2>6. ASSUME Faithful, refusals' = 0 PROVE Faithful'
    <3>1. sinkState' = [volume |-> FALSE, mute |-> FALSE] /\ saved' = before
      BY <1>2, <1>6, <2>6 DEF SilenceSink, Refused
    <3>2. saved' = users /\ users # None
      BY <2>1, <2>6, <3>1, SourcesAssumption DEF Faithful, TypeOK, Speakers
    <3> QED
      BY <1>1, <2>2, <3>2 DEF Faithful
  <2> QED
    BY <1>2, <2>2, <2>3, <2>5, <2>6 DEF SpeakersInv
<1>7. \/ PulseOpen \/ WaitInitTooLong \/ SpawnCapture \/ (WaitInit /\ initDone = "ok") \/ ReadSink
      \/ GiveUp \/ (WaitInit /\ initDone # "ok")
      \/ SilenceSink
  OBVIOUS
<1> QED
  BY <1>4, <1>5, <1>6, <1>7

\* StartStreamingMedia, the adaptation loop and its restarts.
LEMMA SessionSpeakers ==
  ASSUME TypeOK, SpeakersInv,
         \/ BuildMedia \/ Started \/ Streaming \/ RestartCapture \/ Restarted
         \/ Reconnect \/ AdaptationEnds
  PROVE  SpeakersInv'
<1>0. /\ "session" \in Threads /\ "stopper" \in Threads /\ "session" # "stopper"
      /\ \A u \in Threads \ {"session"} : u = "stopper"
  BY DEF Threads
<1>1. UNCHANGED <<speakers, users, refusals, stop>>
  BY DEF BuildMedia, Started, Streaming, RestartCapture, Restarted, Reconnect, AdaptationEnds,
     outside, control
<1>2. Returns /\ Locked /\ Owned /\ TakesDown /\ refusals \in Nat /\ (refusals = 0 => Kept /\ Faithful)
  BY DEF SpeakersInv
<1>3. ASSUME NEW l, l \notin InStop \cup {"open", "readSink", "silence", "startFailed"} \cup Dropping,
             Goto("session", l), l \notin Starting \cup {"started", "restarted"},
             pipeline' = "stopper" <=> pipeline = "stopper",
             mutex' = "stopper" <=> mutex = "stopper",
             capture' = capture \/ (pc["session"] = "started" /\ capture') \/ (pc["session"] = "startFailed" /\ ~capture')
      PROVE  SpeakersInv'
  <2>1. /\ Within("session")' = l /\ pc'["session"] = l
        /\ Within("stopper")' = Within("stopper") /\ pc'["stopper"] = pc["stopper"]
        /\ Returns'
    BY <1>0, <1>2, <1>3, GoneTo
  <2>2. Locked'
    BY <1>2, <1>3, <2>1 DEF Locked, Threads, Dropping
  <2>3. Owned'
    BY <1>3, <2>1 DEF Owned
  <2>4. TakesDown'
    BY <1>1, <1>2, <1>3, <2>1 DEF TakesDown, Owned, Within, InStop
  <2>5. Kept => Kept'
    BY <1>1, <1>3, <2>1 DEF Kept, Threads, speakers, Dropping
  <2>6. Faithful => Faithful'
    BY <1>1, <1>3, <2>1 DEF Faithful, speakers
  <2> QED
    BY <1>1, <1>2, <2>1, <2>2, <2>3, <2>4, <2>5, <2>6 DEF SpeakersInv
<1>4. ASSUME Call("session", "stopCapture", "open"), pipeline' = "stopper" <=> pipeline = "stopper",
             mutex' = "stopper" <=> mutex = "stopper", mutex' = "session" \/ pipeline' = "session",
             capture', capture \/ ~stop
      PROVE  SpeakersInv'
  <2>1. /\ Within("session")' = "open" /\ pc'["session"] \in InStop
        /\ Within("stopper")' = Within("stopper") /\ pc'["stopper"] = pc["stopper"]
        /\ Returns'
    BY <1>0, <1>2, <1>4, Called
  <2>2. Locked' /\ Owned'
    BY <1>2, <1>4, <2>1 DEF Locked, Owned, Threads, Dropping
  <2>3. TakesDown'
    BY <1>1, <1>2, <1>4, <2>1 DEF TakesDown
  <2>4. Kept => Kept'
    BY <1>1, <1>4, <2>1 DEF Kept, Threads, speakers, InStop
  <2>5. Faithful => Faithful'
    BY <1>1, <2>1 DEF Faithful, speakers, InStop
  <2> QED
    BY <1>1, <1>2, <2>1, <2>2, <2>3, <2>4, <2>5 DEF SpeakersInv
<1>5. None # "session" /\ None # "stopper"
  BY SourcesAssumption
<1>6. CASE BuildMedia
  <2>1. CASE stop
    <3>1. Goto("session", "gone") /\ UNCHANGED <<pipeline, mutex, capture>>
      BY <1>6, <2>1 DEF BuildMedia
    <3> QED
      BY <1>3, <3>1 DEF InStop, Starting, Dropping
  <2>2. CASE ~stop
    <3>1. /\ Call("session", "stopCapture", "open") /\ pipeline = None /\ pipeline' = "session"
          /\ mutex' = mutex /\ capture'
      BY <1>6, <2>2 DEF BuildMedia
    <3> QED
      BY <1>4, <1>5, <2>2, <3>1
  <2> QED
    BY <2>1, <2>2
<1>7. CASE Started
  <2>1. /\ pc["session"] = "started" \/ (pc["session"] = "startFailed" /\ mutex # "session")
        /\ capture' = (pc["session"] = "started") /\ pipeline' = None /\ mutex' = mutex
        /\ Goto("session", "adapt") \/ Goto("session", "streaming")
    BY <1>7 DEF Started
  <2>2. Within("session") = pc["session"]
    BY <2>1 DEF Within, InStop
  <2>3. pipeline = "session"
    BY <1>2, <2>1, <2>2 DEF Locked
  <2>4. /\ pipeline' = "stopper" <=> pipeline = "stopper"
        /\ mutex' = "stopper" <=> mutex = "stopper"
        /\ (pc["session"] = "started" /\ capture') \/ (pc["session"] = "startFailed" /\ ~capture')
    BY <1>5, <2>1, <2>3
  <2> QED
    BY <1>3, <2>1, <2>4 DEF InStop, Starting, Dropping
<1>8. CASE Streaming
  <2>1. Goto("session", "adapt") /\ UNCHANGED <<pipeline, mutex, capture>>
    BY <1>8 DEF Streaming
  <2> QED
    BY <1>3, <2>1 DEF InStop, Starting, Dropping
<1>9. CASE RestartCapture
  <2>1. /\ Call("session", "stopCapture", "open") /\ mutex = None /\ mutex' = "session"
        /\ pipeline' = pipeline /\ capture /\ capture' = capture
    BY <1>9 DEF RestartCapture
  <2> QED
    BY <1>4, <1>5, <2>1
<1>10. CASE Restarted
  <2>1. Goto("session", "adapt") /\ mutex = "session" /\ mutex' = None /\ UNCHANGED <<pipeline, capture>>
    BY <1>10 DEF Restarted
  <2> QED
    BY <1>3, <1>5, <2>1 DEF InStop, Starting, Dropping
<1>11. CASE Reconnect \/ AdaptationEnds
  <2>1. Goto("session", "reconnect") \/ Goto("session", "gone")
    BY <1>11 DEF Reconnect, AdaptationEnds
  <2>2. UNCHANGED <<pipeline, mutex, capture>>
    BY <1>11 DEF Reconnect, AdaptationEnds, control
  <2> QED
    BY <1>3, <2>1, <2>2 DEF InStop, Starting, Dropping
<1> QED
  BY <1>6, <1>7, <1>8, <1>9, <1>10, <1>11

\* StopMediaPipeline stops the capturer and drops the media.
LEMMA DropSpeakers ==
  ASSUME TypeOK, SpeakersInv,
         \/ StopMediaPipeline("session", "reconnect", "drop")
         \/ StopMediaPipeline("stopper", "stopMedia", "drop")
         \/ \E t \in Threads : DropMedia(t) \/ Dropped(t)
  PROVE  SpeakersInv'
<1>0. Threads = {"session", "stopper"} /\ "session" # "stopper" /\ None \notin Threads
  BY SourcesAssumption DEF Threads
<1>1. UNCHANGED <<speakers, users, refusals, stop>>
  BY DEF StopMediaPipeline, DropMedia, Dropped, outside
<1>2. Returns /\ Locked /\ Owned /\ TakesDown /\ refusals \in Nat /\ (refusals = 0 => Kept /\ Faithful)
  BY DEF SpeakersInv
<1>3. ASSUME NEW t \in Threads, NEW l \in Dropping,
             Goto(t, l) \/ Call(t, "stopCapture", l),
             Goto(t, l) /\ l = "dropped" => ~capture,
             pipeline' = t, pipeline \in {t, None}, l = "dropped" => mutex' = t,
             mutex' = mutex \/ (mutex = None /\ mutex' = t),
             t = "stopper" => Within(t) \in {"stopMedia"} \cup Dropping,
             capture' = capture
      PROVE  SpeakersInv'
  <2>1. /\ Within(t)' = l /\ pc'[t] \in {l} \cup InStop /\ (pc'[t] = l => Goto(t, l))
        /\ \A u \in Threads \ {t} : Within(u)' = Within(u) /\ pc'[u] = pc[u]
        /\ Returns'
    <3>1. l \notin InStop
      BY DEF InStop, Dropping
    <3>2. CASE Goto(t, l)
      BY <1>2, <3>1, <3>2, GoneTo
    <3>3. CASE Call(t, "stopCapture", l)
      BY <1>2, <1>3, <3>1, <3>3, Called
    <3> QED
      BY <1>3, <3>2, <3>3
  <2>2. Locked'
    BY <1>0, <1>2, <1>3, <2>1 DEF Locked, Starting, Dropping
  <2>3. Owned'
    BY <1>0, <1>2, <1>3, <2>1 DEF Owned, Starting, Dropping
  <2>4. TakesDown'
    BY <1>0, <1>1, <1>2, <1>3, <2>1 DEF TakesDown, Dropping
  <2>5. Kept => Kept'
    BY <1>0, <1>1, <1>3, <2>1 DEF Kept, speakers, Dropping, InStop
  <2>6. Faithful => Faithful'
    BY <1>0, <1>1, <1>3, <2>1 DEF Faithful, speakers, Dropping, InStop
  <2> QED
    BY <1>1, <1>2, <2>1, <2>2, <2>3, <2>4, <2>5, <2>6 DEF SpeakersInv
<1>4. ASSUME NEW t \in Threads, NEW l, StopMediaPipeline(t, l, "drop"), t = "stopper" => l = "stopMedia",
             l \notin InStop
      PROVE  SpeakersInv'
  <2>1. /\ Goto(t, "drop") \/ Call(t, "stopCapture", "drop")
        /\ pipeline = None /\ pipeline' = t /\ UNCHANGED <<mutex, capture>> /\ pc[t] = l
    BY <1>4 DEF StopMediaPipeline
  <2>2. Within(t) = l
    BY <1>4, <2>1 DEF Within
  <2> QED
    BY <1>3, <1>4, <2>1, <2>2 DEF Dropping
<1>5. ASSUME NEW t \in Threads, DropMedia(t) PROVE SpeakersInv'
  <2>1. /\ IF capture THEN Call(t, "stopCapture", "dropped") ELSE Goto(t, "dropped")
        /\ pc[t] = "drop" /\ mutex = None /\ mutex' = t /\ UNCHANGED <<pipeline, capture>>
    BY <1>5 DEF DropMedia
  <2>2. Within(t) = "drop" /\ pipeline = t
    BY <1>2, <2>1 DEF Within, InStop, Locked, Dropping
  <2>3. Goto(t, "dropped") => ~capture
    <3>1. Goto(t, "dropped") => pc'[t] = "dropped"
      BY DEF Goto, TypeOK
    <3>2. Call(t, "stopCapture", "dropped") => pc'[t] = "stopCapture"
      BY DEF Call, TypeOK
    <3> QED
      BY <2>1, <3>1, <3>2
  <2> QED
    BY <1>3, <2>1, <2>2, <2>3 DEF Dropping
<1>6. ASSUME NEW t \in Threads, Dropped(t) PROVE SpeakersInv'
  <2> DEFINE l == IF t = "session" THEN "build" ELSE "joinSession"
  <2>1. pc[t] = "dropped" /\ mutex' = None /\ pipeline' = None /\ ~capture' /\ Goto(t, l)
    BY <1>6 DEF Dropped
  <2>2. Within(t) = "dropped" /\ mutex = t /\ pipeline = t
    BY <1>2, <2>1 DEF Within, InStop, Locked, Dropping
  <2>3. l \in {"build", "joinSession"} /\ l \notin InStop
    BY DEF InStop
  <2>4. /\ Within(t)' = l /\ pc'[t] = l
        /\ \A u \in Threads \ {t} : Within(u)' = Within(u) /\ pc'[u] = pc[u]
        /\ Returns'
    BY <1>2, <2>1, <2>3, GoneTo
  <2>5. Within("session") \notin Starting \cup {"startFailed", "restarted", "started"}
        /\ \A u \in Threads \ {t} : Within(u) \notin Dropping
    BY <1>0, <1>2, <2>2 DEF Locked, Starting, Dropping
  <2>6. Locked' /\ Owned'
    BY <1>0, <2>3, <2>4, <2>5 DEF Locked, Owned, Starting, Dropping
  <2>7. TakesDown'
    BY <1>0, <1>1, <1>2, <2>1, <2>2, <2>4 DEF TakesDown, Dropping
  <2>8. Kept => Kept'
    BY <1>0, <1>1, <2>1, <2>3, <2>4 DEF Kept, speakers
  <2>9. Faithful => Faithful'
    BY <1>0, <1>1, <2>3, <2>4 DEF Faithful, speakers
  <2> QED
    BY <1>1, <1>2, <2>4, <2>6, <2>7, <2>8, <2>9 DEF SpeakersInv
<1> QED
  BY <1>0, <1>4, <1>5, <1>6 DEF InStop

\* The user's Stop begins and ends.
LEMMA UserSpeakers ==
  ASSUME TypeOK, SpeakersInv, UserStops \/ JoinSession
  PROVE  SpeakersInv'
<1>0. /\ "session" \in Threads /\ "stopper" \in Threads /\ "session" # "stopper"
      /\ \A u \in Threads \ {"stopper"} : u = "session"
  BY DEF Threads
<1>1. UNCHANGED <<speakers, users, refusals, mutex, pipeline, capture>> /\ (stop => stop')
  BY DEF UserStops, JoinSession, outside, control
<1>2. Returns /\ Locked /\ Owned /\ TakesDown /\ refusals \in Nat /\ (refusals = 0 => Kept /\ Faithful)
  BY DEF SpeakersInv
<1>3. PICK l \in {"stopMedia", "stopped"} :
        /\ Goto("stopper", l) /\ stop' = (stop \/ l = "stopMedia")
        /\ l = "stopped" => pc["stopper"] = "joinSession"
  BY DEF UserStops, JoinSession, control, TypeOK
<1>4. l \notin InStop
  BY DEF InStop
<1>5. /\ Within("stopper")' = l /\ pc'["stopper"] = l
      /\ Within("session")' = Within("session") /\ pc'["session"] = pc["session"]
      /\ Returns'
  BY <1>0, <1>2, <1>3, <1>4, GoneTo
<1>6. Locked' /\ Owned'
  BY <1>1, <1>2, <1>5 DEF Locked, Owned, Threads, Dropping
<1>7. TakesDown'
  BY <1>1, <1>2, <1>3, <1>5 DEF TakesDown, Within, InStop, Dropping
<1>8. Kept => Kept'
  BY <1>1, <1>5 DEF Kept, Threads, speakers
<1>9. Faithful => Faithful'
  BY <1>1, <1>5 DEF Faithful, speakers
<1> QED
  BY <1>1, <1>2, <1>5, <1>6, <1>7, <1>8, <1>9 DEF SpeakersInv

-----------------------------------------------------------------------------
(* The theorem.                                                              *)

\* At first nothing is captured and the speakers are the user's.
LEMMA SpeakersInit ==
  ASSUME Init
  PROVE  SpeakersInv
<1>1. PICK used \in Budgets :
        pc = [session |-> "build", stopper |-> used.user] /\ refusals = used.refusals
  BY DEF Init
<1>2. used.user \in {"idle", "away"} /\ refusals \in Nat
  BY <1>1, SourcesAssumption
<1>3. pc["session"] = "build" /\ pc["stopper"] \in {"idle", "away"}
  BY <1>1, <1>2
<1>4. Within("session") = "build" /\ Within("stopper") \in {"idle", "away"}
      /\ \A t \in Threads : pc[t] \notin InStop \cup {"dropped"} /\ Within(t) \notin Dropping
  BY <1>3 DEF Within, InStop, Threads, Dropping
<1>5. ~capture /\ saved = None /\ sinkState = users
  BY DEF Init
<1>6. Locked /\ Returns /\ Owned
  BY <1>4 DEF Locked, Returns, Owned, Starting, Dropping
<1>7. TakesDown
  BY <1>4 DEF TakesDown
<1>8. Kept /\ Faithful
  BY <1>3, <1>5 DEF Kept, Faithful
<1> QED
  BY <1>2, <1>6, <1>7, <1>8 DEF SpeakersInv

\* Every step keeps the invariant.
LEMMA SpeakersStep ==
  ASSUME TypeOK, SpeakersInv, [Next]_vars
  PROVE  SpeakersInv'
<1>1. ASSUME NEW t \in Threads,
             \/ StopCapture(t) \/ JoinCapture(t) \/ RestorePlayback(t) \/ DropMedia(t) \/ Dropped(t)
      PROVE  SpeakersInv'
  BY <1>1, StopCaptureKeeps, RestoreKeeps, DropSpeakers
<1>2. CASE \/ StopMediaPipeline("session", "reconnect", "drop")
           \/ StopMediaPipeline("stopper", "stopMedia", "drop")
  BY <1>2, DropSpeakers
<1>3. CASE PulseOpen \/ ReadSink \/ SilenceSink \/ SpawnCapture \/ WaitInit \/ WaitInitTooLong \/ GiveUp
  BY <1>3, StartSpeakers
<1>4. CASE \/ BuildMedia \/ Started \/ Streaming \/ RestartCapture \/ Restarted
           \/ Reconnect \/ AdaptationEnds
  BY <1>4, SessionSpeakers
<1>5. CASE UserStops \/ JoinSession
  BY <1>5, UserSpeakers
<1>6. CASE \/ InitOnThread \/ LosesEndpoint \/ BreaksOff \/ LeavesLoop \/ CaptureSteps
           \/ (\E e \in Sources : SendFrame(e)) \/ AddSilence \/ Unplug \/ Replug \/ Clock
  <2>1. UNCHANGED <<plan, speakers, users>> /\ Counted
    BY <1>6 DEF InitOnThread, LosesEndpoint, BreaksOff, LeavesLoop, CaptureSteps, SendFrame,
       AddSilence,
                Unplug, Replug, Clock, Works, Refused, Counted, plan, control, outside
  <2> QED
    BY <2>1, Elsewhere
<1>7. CASE Over \/ UNCHANGED vars
  <2>1. UNCHANGED <<plan, speakers, users>> /\ Counted
    BY <1>7 DEF Over, vars, Counted, plan, control, outside
  <2> QED
    BY <2>1, Elsewhere
<1>8. CASE Step
  BY <1>1, <1>2, <1>3, <1>4, <1>5, <1>6, <1>8 DEF Step
<1> QED
  BY <1>7, <1>8 DEF Next

\* Once the session has stopped and the sound server refused nothing, the
\* computer's speakers play as the user had left them: whichever thread stops the
\* capturer last, and however often it was restarted, reconnected or replugged in
\* between, what was silenced was saved first and what was saved is given back.
THEOREM SpeakersRestored == Spec => []SinkRestored
<1>1. Init => TypeOK /\ SpeakersInv
  BY SoundInit, SpeakersInit DEF SoundInv
<1>2. Spec => []TypeOK
  BY SoundTypeCorrect
<1>3. TypeOK /\ SpeakersInv /\ [Next]_vars => SpeakersInv'
  BY SpeakersStep
<1>4. SpeakersInv => SinkRestored
  <2>1. SUFFICES ASSUME SpeakersInv, pc["stopper"] = "stopped", refusals = 0 PROVE sinkState = users
    BY DEF SinkRestored
  <2>2. Within("stopper") = "stopped"
    BY <2>1 DEF Within, InStop
  <2> QED
    BY <2>1, <2>2 DEF SpeakersInv, TakesDown, Kept, Faithful
<1> QED
  BY <1>1, <1>2, <1>3, <1>4, PTL DEF Spec
===============================================================================
