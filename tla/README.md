# Verification of the CastMirror core

TLA+ specifications of CastMirror, which mirrors a screen with its sound to a
Cast device: its C++ core (`core/`) and what its three programs (`app/`) do with
it. Each module says in its head what part
of the code it models; `PROJECT.json` maps every definition to source lines.
This file says how the parts fit together, what is checked and proved, under
which bounds and assumptions, and what is left.

To check a run: `tlc -config MCCastSession.cfg MCCastSession.tla`. To check the
proofs of a module: `tlapm CastSessionProofs.tla`.

## 1. The system

A user picks a device and a source. `CastEngine` creates a `CastSession`, which
connects to the device over TLS (`CastChannel`), launches the mirroring app,
exchanges OFFER and ANSWER, then builds a pipeline: display and audio capture,
encoders, packetizers, encryption and the UDP `CastTransport`. An adaptation
thread supervises the session, tunes the bitrate (`AdaptiveController`) and
reconnects after a loss. `StateMachine` is what the UI sees of all this.
`DeviceDiscovery` fills the list the user picks from. The command line and the
GTK window use the C++ engine, the WinUI window uses it through the C API.

| Component | State | Operations | Talks to |
|---|---|---|---|
| `CastSession` | stop/fail/streaming flags, recovery window, pipeline objects, two worker threads, negotiation flags | Start, Stop, destructor, AdaptationLoop, VideoEncodeLoop, RequestReconnect, FailSession, live setters, channel callbacks | owns everything below; called by engine, workers, channel threads |
| `StateMachine` | current state, listeners | TransitionTo | session, engine, UI callbacks |
| `SessionRecovery` | recovering flag, start time, attempts | StartRecovery, HasTimedOut, Reset | session |
| `CastChannel` | socket, TLS, connected/stop/notified flags, receive and heartbeat threads | Connect, Disconnect, Send, ReceiveLoop | calls the session from its threads |
| `CastEngine` | current session, the state machine all sessions move, discovery | StartCasting, StopCasting, Shutdown | C API, CLI, GUI |
| Display capture, Windows (WGC, DXGI) | duplication, newest frame, overlay cache, pacer | Start, Stop, capture loop | `FramePacer`; calls the session with frames |
| Display capture, Linux (X11, portal, synthetic) | `running_`, thread, chosen monitor or window, X event queue, damage count, restore token | Create, Start, Stop, capture loop, PollDamage, PollWindowLifecycle, portal requests, PipeWire callbacks | calls the session with frames |
| `FramePacer` | next deadline, last stamp, staged and last frame | SetTargetFps, Submit, Tick | capture loop |
| Audio capture (WASAPI, PulseAudio) | `running_`, thread, pending samples and their stamp, the silenced sink | Start, Stop, capture loop | calls the session with frames of 10 ms; restarted by the adaptation thread |
| Encoders | codec handles | library calls | session |
| `RtpPacketizer`, `FrameCrypto` | sequence number, keys | PacketizeFrame, Encrypt | session |
| `CastTransport` | retransmission cache, retransmission times, last frame sent, token bucket, socket | Start, Stop, SendPackets, ReceiveLoop, RetransmitPacket | network; feedback callbacks into the session |
| `RtcpParser` | none | ParseCompoundPacket | transport |
| `AdaptiveController` | rung, bitrate, ceiling, counters, feedback window, playout delay | OnFeedback, CheckAdaptation, SetBitrateCapKbps, ResetRungForBitrate, SetPlayoutDelayMs, ResetFeedbackWindow | adaptation thread, receive thread, UI thread |
| `CapabilityModel`, `MirroringNegotiator` | none | choose settings, build OFFER, parse ANSWER | session |
| `DeviceDiscovery` | device list, ids heard by mDNS, the loop, the subnet probes | Start, Stop, TriggerScan, AddDeviceByIp, RemoveDevice, DiscoveryLoop, ExpireStaleDevices | announces copies of the list to engine and C API |
| C API | client callbacks, calls in flight, copy of the device list, configuration cache | register, get_device_info, start/stop, shutdown | WinUI |
| `ConfigStore` | settings on disk | load, save | everyone |
| `Logger`, HUD, pixel and GPU conversion, network helpers | output state only | – | everyone |
| Command line, GTK, WinUI | shown list, selection, shown state, live toggles, alerts, tray | clicks, posted calls, quitting | C API, engine, discovery |
| Fake receiver, scripts | a TV for tests | – | channel, transport |

### What is hard in it

- **Teardown from five threads.** Stop may be called by the user, by a failure
  on the encode thread, by a CLOSE on the channel's receive thread, by Start's
  own failure path and by the destructor, each while the supervisor reconnects.
- **Reconnection.** A loss tears half of the session down and builds it again
  on another thread than Start did.
- **Time.** The pacer stamps frames from two clocks and must keep stamps
  increasing through stalls, rate changes and repeated frames.
- **A capture device that disappears** in the middle of a frame.
- **Feedback that is late, lost and truncated**, read against a cache that is
  shrinking meanwhile.
- **A TV with a mind of its own.** Its user closes the app, another sender takes
  it over, it falls silent, it answers late.
- **Lists and states announced after the lock was released**, from several
  threads, to windows that apply them on a thread of their own.
- **Capturers that end by themselves**, when a window closes or an endpoint
  vanishes, while somebody stops or restarts them.
- **A control loop** with nine counters whose interplay no test walks through.

`PROJECT.json` lists these at their lines under `hazards`.

### What makes each component correct

- Session: media never runs after a stop; no thread object is overwritten; a
  stopped session's state comes to rest; a stop ends; a streaming session is
  supervised.
- Capture and pacer: stamps increase and lead the clock by no more than their
  own floor makes them; the rate is bounded; the newest frame is delivered;
  nothing is acquired from a lost duplication; the overlay belongs to the frame.
- Transport: what the receiver lacks stays repairable within the cache bound;
  retransmissions are suppressed, and yet losses are repaired.
- Adaptive control: never above the cap, never heavier under congestion, no
  rise before the hysteresis, recovery in the end.
- Control connection: what is streamed is what the TV answered to this attempt's
  OFFER; a TV that is gone is noticed.
- Engine and programs: one cast streams at a time; the loser of a race is
  stopped; a running cast is shown as one; toggles belong to the cast shown; no
  callback after shutdown.
- Discovery and pickers: one entry per device; a silent TV leaves; nothing runs
  after Stop; windows show the engine's list; the selection can be cast to.
- Capturers under the session: the newest picture reaches the encoder; a lost
  source ends the cast; nothing captures after a stop; the sound's stamps advance
  by a frame at a time and silence does not push them ahead; the speakers are
  given back.

## 2. The modules

| Module | Models | Composes |
|---|---|---|
| `StateMachine` | `state_machine.cc`: the transition table as a function of the state | |
| `CastSession` | `cast_session.cc`, `cast_channel.cc`, `session_recovery.cc`, `thread_util.h`, the engine as owner | extends `StateMachine` |
| `Handshake` | what session and TV say to each other: `NegotiateControlPlane`, the message handlers, `mirroring_negotiator.cc`, the channel's heartbeats, `device_auth.cc` as a verdict, a TV played after `tools/fake-receiver` | |
| `FramePacer` | `frame_pacer.h` | |
| `PacerCadence` | the pacer under any caller, with a window that counts emits | extends `FramePacer` |
| `DisplayCapture` | `display_capture_wgc.cc`: both capture loops | extends `FramePacer`, refines its specification |
| `VideoFeed` | the picture's way through the session: the slot of one frame, the encode thread, building and dropping the pipeline | |
| `X11Capture`, `PortalCapture` | `display_capture.cc`, `display_capture_wayland.cc` | each extends `VideoFeed` |
| `DisplaySources` | the factory's choice, the synthetic capturer, the substitution in tests | extends both |
| `AudioTimeline` | the sound's frames and stamps, in a capture loop and in the session | |
| `AudioSources` | `audio_capture_wasapi.cc`, `audio_capture.cc`, and the threads that start, restart and stop them | extends `AudioTimeline` |
| `CastTransport` | `cast_transport.cc` and frame ids of `rtcp_parser.cc`, with the network and the receiver as external actions | |
| `AdaptiveController` | `adaptive_controller.cc`, and the two places of the session that apply it | |
| `CastEngine` | `cast_engine.cc` over sessions reduced to what the engine sees of them | extends `StateMachine` |
| `CastApps` | the three programs' casts: `gui_app.cc`, `live_tab.cc`, `tray.cc`, `MainViewModel.cs`, `c_api.cc`, `cli/main.cc` | extends `CastEngine` |
| `Discovery` | `device_discovery.cc` with the TVs and the network as external actions | |
| `DevicePicker` | the three programs' device lists: `cast_tab.cc`, `gui_app.cc`, `MainViewModel.cs`, `c_api.cc`, `device_selection.h` | extends `Discovery` |
| `MC*` | the instances TLC checks | |
| `*Proofs` | the theorems | |

**Session.** Every thread has a program counter and a stack of labels, so that
Stop, StopMediaPipeline, FailSession, RequestReconnect and Disconnect are
procedures any thread may be inside of. A step ends where another thread can
get in: at a lock, a join, an atomic read that decides, a wait. Waits with a
timeout may always time out; what the network, the device and the codecs answer
is a choice. `pipelineMutex` and `connectMutex` are the code's mutexes.
`tornDown` is history. The heartbeat thread is the same as the receive thread
without messages, and the checked instance leaves it out.

**Handshake.** `CastSession` has an anonymous TV and all of the threads;
`Handshake` has fewer threads and a TV with a memory. An attempt's number stands
for its keys and the OFFER that carries them. `inbox` holds what the connection
has delivered and the receive thread has not read; `tv` holds the running app,
which apps this sender launched, and the link, which may be up, closed or silent.

**Pacer and Windows capture.** A frame is the number of the capture its pixels
come from and a timestamp. Tick is either early or due; Stamp is the code's
choice between source time, floor and clock, and `hurried` is history: the
floors given, since the last capture that led the timeline, to emits that came
sooner than a floor after the one before. In
`DisplayCapture` the loop's places are the points between two reads of the clock; DXGI's answers are
choices, and the overlay cache holds a frame and the pointer it was drawn with.

**Capturers on Linux.** `screen` numbers the pictures; a frame is the picture it
shows, whether it reports a loss, and whose memory it is in. The X server's
event queue is explicit: a change of a watched monitor arms one damage event, a
window sends its size, its unmapping and its end, and both pollers drain the
same queue. The three threads that may stop a session (`starter`, `stopper`,
`encoder`) walk through Stop and StopMediaPipeline as in `CastSession`. A frame
that is offered to the encoder may be refused, or encoded and not sent. A portal
stream delivers on PipeWire's own thread until it is destroyed.

**Sound.** Time is in halves of a frame of 10 ms. `offer` is the stamp a thread
brings to `ProcessAudioFrameInternal`, so the point between a capture and the
lock on `audio_mutex_` is a state. A WASAPI packet has any age, late or early,
may carry the clock of its reading in place of a stamp, and several are drained
in one wake. The speakers are a volume and a mute.

**Transport.** One media stream. The sending thread caches, then sends packet
by packet; the receive thread parses feedback against `lastSent`, erases, then
works through NACKs one at a time, as the two locks let them interleave.
`wire`, `got` and `reports` are the network and the receiver. A packet on the
wire may be delivered at any later time or never, which is both loss and
reordering.

**Adaptive.** A step is one evaluation of a window of feedback, or a call by
another thread. Windows are records of what thresholds tell apart. `Publish`
and the slider include what `CastSession` does with the result, so `encoder` is
the bitrate the encoder really runs at.

**Engine and programs.** A session is a reference-counted object with the steps
of Start and Stop, and one thread of its own. `said` is a transition made and not
yet announced: the gap between `TransitionTo`'s unlock and its callbacks. The
programs differ in which thread does what: `posts` is the UI thread's queue, and
what GTK's main thread hears of itself it applies at once.

**Discovery and pickers.** Every change of the list leaves a copy to announce
(`copy`), taken under the lock and delivered without it. Of time only this is
kept, whether an entry is older than the sweep's ten minutes. A TV asked over HTTP
may report its own id, another one or none. For the C API an announcement takes
two steps, as it unlocks between them: its copy is replaced (`calling` holds who
has done that and with how many entries), then the client is called with that
number. The WinUI list is read by `reading`, one index at a time, from a copy
that may be replaced meanwhile.

Definitions under a comment that begins with "Faulty" are used by no
specification. They are plausible bugs, and putting one in the place of
the definition it mimics makes the named property fail; `PROJECT.json` pairs
them under `mutants`.

## 3. The runs

| Run | Checks | Shows |
|---|---|---|
| `session_safety` | `SessionInv NoZombieMedia NoThreadOverwritten Supervised Settled NoLateRevival` | one cast with all its threads and every failure |
| `session_liveness` | `StopReturns` | a Stop carried out by the owner ends in destruction |
| `handshake` | `AnswersThisOffer LossNoticed` | connection, authentication, launch, offer, answer, heartbeats, losses and retries against a TV, another sender and a failing network |
| `pacer_cadence` | `RateBounded StrictStamps` | the pacer under any capture and a clock that stalls |
| `display_capture` | `OverlayMatches LeadsByFloors PacerSpec DeliversNewest` | the Windows capture loops around it |
| `display_sources` | `NewestOffered LossFails CaptureQuiet` | the X11, portal and synthetic capturers under start, reconnect and stop, with encodes and sends that fail |
| `audio_sources` | `StampsAdvance CaptureOnTime SinkRestored` | both sound captures with packets that come late, endpoints that vanish and servers that refuse |
| `transport` | `UnackedKept Suppressed LossRepaired` | loss, reordering, late feedback, stop |
| `adaptive` | `WithinCap CongestionNeverRaises Hysteresis Recovers` | every order of judged windows and user input |
| `applications` | `OneStream LiveIsShown TogglesAgree CallbacksQuiet TrayQuiet` | the three programs, the tray and two sessions over the engine |
| `discovery` | `UniqueEntries StoppedQuiet SilentLeaves StopReturns` | the mDNS loop, the subnet probe and forced scans, with the command line |
| `device_picker` | `FrontEndAgrees SelectionCastable` | the GTK and WinUI lists |

Each module with state has a type invariant, `TypeOK`. Where a run does not list
it, it can be added to the configuration by its name. Proved are those of
`CastSession`, `Handshake`, `FramePacer`, `DisplayCapture`, `AudioSources`,
`CastTransport`, `AdaptiveController` and `CastApps` with its `CastEngine`.

### Bounds, and why they are enough

- *Session*: one cast on one object, one channel thread, one owner. No counter
  is bounded: reconnects repeat without limit and the state space is finite.
  A second cast on the same machine starts from the state `Settled` describes.
  `EarlyStop` lets Stop fall before Start; only `MCCancelStuck.cfg` sets it, as
  it breaks `CancelSettles` and with it any later cast. A portal cast, which
  learns its size by capturing before Start's first transition, can be stopped
  there without it, and then rests in Connecting: `Settled` excepts that case
  and `CancelSettles` does not. `session_liveness` leaves
  out a CLOSE, a lost source and an expired window (`Failures = {}`) since with
  a CLOSE the deadlock of section 4 is reachable; connection losses and
  reconnects remain. `CHECK_DEADLOCK FALSE`: a destroyed session has no step.
- *Handshake*: two attempts, so that everything of the first can meet the
  second; two faults, so that one falls into the recovery from the other; one
  takeover by another sender; a PONG is missing after two heartbeats instead of
  three. The TV takes every stream and answers on the connection it was asked on
  (`LateAnswers`, `Accepts`: section 4).
- *Pacer*: two rates whose intervals differ by more than the four intervals of
  the resync, a clock that moves by a step or by a stall longer than it, frames
  that are current or old, and a horizon past which the caller does not tick;
  one stall after several emits fits into it. The capture instance adds
  a retry budget of two, a pointer and its absence, and every kind of source. Its
  floor is 2 and the clock moves by 1, 4 or 13: a pass below the floor, as in a
  catch-up, one above it, and a stall beyond the resync. Its horizon of 9 holds
  two hurried emits in a row and a recovery from them.
- *Linux capturers*: two outputs, windows of two sizes at one place, two events
  waiting, two changes of the screen and one reconnect: a change before, during
  and after the skipping of undamaged passes. Sources are a monitor with and
  without XDamage and a window without; only the monitor without is ever frozen;
  a window with XDamage, moves, several outputs and other buffers break
  properties of section 4. `EarlyStops = FALSE` keeps the user from stopping while
  Start asks the portal for the picture's size, and nothing else: a Stop during a
  reconnect's request is covered. Every backend runs with and without
  `CASTMIRROR_ALLOW_SYNTHETIC_CAPTURE`; on X11 the test mode is left to the monitor
  without XDamage. What a capturer does not look at keeps one
  value (`MCInit`). `CHECK_DEADLOCK FALSE`: a stopped session has no step.
- *Sound*: the clock runs for 30 ms, so that late wake-ups, silence and sound
  overlap (`IdleCap` is 1 for 5, a stall 20 ms for 200), or events happen: one
  reconnect, one unplugged endpoint, one refusal. `Budgets` splits the two, as
  stamps do not depend on events nor the control on stamps. A packet is half a
  frame or a frame, and on time, a frame early or two frames late (`MixedAges`,
  `MaxLate = 4`): late enough to fall behind silence made for the time it played.
  `SlowInit` lets the set-up outlast Start's wait. `MCAudioLead.cfg` gives the drift of section 4 the
  time it needs and counts times from now (`FromNow`).
- *Transport*: three frames, one of two packets, after four that are done with,
  so ids wrap: 256 ids are scaled to 6, the 32 believable ahead to 1, a cache of
  30 frames to 2. `UnackedKept` is claimed while the receiver is
  fewer than `IdRange - AheadLimit` frames behind, the lag beyond which an old
  id is the same byte as a believable new one; at 60 frames a second that is
  3.7 seconds. `MCNewestErased.cfg` uses an id range of 4 to reach that lag. One
  report is on its way at a time, overtaken by any number of frames.
- *Adaptive*: one window for each way of being judged. The thresholds of
  8, 10, 10 and 15 evaluations and of 3, 4 and 15 seconds are scaled down to
  2 or 3 in their order; the ladder, the caps and the thresholds on loss and NACKs are the
  code's own. Eight settings: for four of them some rung of the ladder fits the
  picture, its rate and its bitrate; the other four are what a small window, a
  24 fps display or a low limit of the command line gives, for which Initialize
  falls back to 1080p60, with adaptation and without.
- *Programs*: two session objects, destroyed ones being used again, two
  starting threads beside the UI's and the tray's: any number of casts, two at a
  time. While more than one call waits for the WinUI window's thread, or any for
  the other two, neither does the user click nor is a TV lost (`MaxPosts`); the
  GTK program overlaps no two starts (`MaxStarts = 1`). Beyond that, see section
  4. `CHECK_DEADLOCK FALSE`: a program that has quit has no step.
- *Discovery*: one TV at one address with a subnet probe, a detached scan and the
  user's additions, batches of one. *Pickers*: one TV and a second address that is
  free, an update that waits, and a device saved by an earlier run; two threads
  announce, so that one may overtake the other. For WinUI the TV stays on
  (`MCInit`, `StaysOn`): one that is off is one that does not answer, which a TV
  that is on may do as well. TVs keep
  their addresses; what happens when one takes another's is in section 4. In
  `discovery` the TV reports its own id, another one or none (`ManyIds`); in
  `device_picker` its own. `SilentLeaves` speaks of an entry whose id mDNS
  recorded: `ExpireStaleDevices` keeps any other, so a TV that a probe renamed to
  its address, that a scan found under an id of its own, or whose record was
  erased by the user, can stay listed when it is gone.

### Fairness

- `CastSession!FairSpec`: weak fairness of each thread's own step. Threads are
  scheduled by the OS, every wait has a timeout, a lock is taken by someone
  when it is free. Nothing is assumed of the environment: no message has to
  come, no Stop has to be called.
- `Handshake!FairSpec`: weak fairness of the session's thread, the recovery and
  the channel's two threads. Nothing is assumed of the TV, its user or the link,
  so `LossNoticed` rests on timeouts alone.
- `DevicePicker!FairSpec`: weak fairness of the discovery's threads, of the end
  of a Stop and of announcements. TVs switch on and off as they like.
- `CastTransport!FairSpec`: the two threads run, time passes, the receiver goes
  on reporting, and a packet retransmitted again and again arrives once (strong
  fairness of its arrival). That is the assumption any retransmission protocol
  needs; nothing is assumed of the first transmission.
- `AdaptiveController!AdaptiveFairSpec`: the adaptation thread evaluates once a second.
  `Recovers` supposes that windows are clean from some point on.

## 4. What the code does not keep

Each of these is a property a module states, from words of the source, and that
TLC finds violated; `findings` in `PROJECT.json` quotes the words. "Constants"
says what to change in the configuration of the module's run, besides naming the
property in it; a file name is a configuration kept for it.

| Property | Constants | What happens |
|---|---|---|
| `TeardownEnds` | `MCStopDeadlock.cfg` | the app is closed on the TV while another thread disconnects: Disconnect holds the channel's lock and joins the receive thread, whose Stop waits for that lock |
| `CancelSettles` | `MCCancelStuck.cfg`; a portal cast without it | a cancel that completes between Start's reset of the stop flag and its first transition: Start makes the state Connecting and nothing moves it on |
| `FailureKept` | – | a failure between RequestReconnect's look at the stop flag and its reset of `fail_requested_`: the session ends Idle, its reason is gone |
| `DeliveredStampsAdvance` | `MCOverlayStamps.cfg` | a repeated frame taken from the overlay cache carries the stamp of its first delivery |
| `NewestInFlightKept` | `MCNewestErased.cfg` | a checkpoint exactly one id range old is read as the newest frame, and the cache is emptied |
| `FloorIsReached` | `MCFloorReached.cfg` | at the lowest rung with the bitrate ramped back up, congestion is only logged |
| `HoldsTarget` | `MCHoldsTarget.cfg` | an upshift lowers a bitrate that was at its target |
| `CapObeyed` | – | the slider's 1000 kbps gives the floor's 1200; a bitrate the encoder refuses leaves the old one; without adaptation and a fitting rung the first emergency takes 5000 kbps |
| `AnswersThisOffer` | `LateAnswers = TRUE`, `MaxAttempts = 3`, `OtherSenders = 0` | every OFFER has sequence number 1001: an answer to an earlier one is taken for the new one's, with other keys |
| `LaunchIsOurs`, `StopsOwnApp` | – | a status about another sender's app confirms our launch, and our STOP ends it |
| `CloseEnds` | – | the same status replaces the app our own app's CLOSE is compared with, and the cast is launched again |
| `StreamsAccepted` | `Accepts <- TakesSome` | an answer without the video stream is taken |
| `NoTerminate` | – | the X11 thread clears `running_` itself, so nobody joins it before it is replaced |
| `ProbeGone`, `CaptureQuiet` | `EarlyStops = TRUE` | the portal's size probe outlives Start |
| `TokenMatches` | `Kinds = {"monitor", "window"}` | the stored kind is overwritten before it is compared |
| `OwnCopy` | `Buffers` with the NV12 ones | a lent DMA-BUF is queued and given back to the compositor |
| `SizeFollows` | `Setups <- AllSetups` | the damage poller throws away the window's events |
| `CursorPlaced` | `Geometries <- OneSize` | a move without a resize is not noticed |
| `SameMonitor` | `Outputs <- ThreeOutputs`, `Setups` and `Freezes <- MiddleShared` | display ids are places in the list of lit outputs: a restart after an unplugged monitor captures another one |
| `NewestOffered`, `LossFails` | `Freezes <- MostSetups` | frames, and the one that reports a lost source, are dropped while frozen |
| `NewestShown` | – | a picture that could not be encoded or sent is not tried again: the TV keeps the one before until the screen changes |
| `NoTestPattern` | `TestModes = {FALSE}` | the factory itself returns the synthetic capturer |
| `StampsAdvanceAnyway` | – | Start forgets the last stamp after the first frames went out |
| `SinkRestoredAnyway` | – | a sink that could not be unmuted stays at volume 0 |
| `RunningIsTrue` | – | PulseAudio's loop breaks off with `running_` set, so it is never restarted |
| `OneJoins`, `NoHeldJoin` | – | a user's Stop and a restart join one thread; a restart joins, under `audio_mutex_`, a thread that waits for it |
| `NoSilenceOnTop` | – | a packet that is read late is queued behind the silence made for the time it played |
| `LeadBounded` | `MCAudioLead.cfg` | a packet that starts inside silence already sent takes the queue's stamp back but not the pinned one: what is sent runs further ahead each time |
| `PulseLeadBounded` | – | silence is added on top of sound that is only late |
| `WindowAgrees` | – | announcements overtake each other, and a window keeps the older state |
| `OneStream`, `LiveIsShown`, `TogglesAgree` | `MaxStarts = 2`, or one call waiting in the GTK program | two starts race for the engine's session |
| `OneRowPerTV` | – | a listed TV's address typed in gives a second row |
| `CopyIsCurrent` | – | the C API keeps an older list than the engine |
| `RowsComplete` | – | the client is called after the unlock: the last call's length may be an older copy's, and the window lacks a listed TV |
| `HighlightSelected` | – | another row is highlighted than the one a cast goes to |

Smaller things met on the way: the command line ends a cast that is merely
Reconnecting (`cli/main.cc:409`); WinUI cannot cancel a start under way; a probe
of a live device whose Eureka request fails renames its entry to its address,
which no sweep removes; a TV that takes another's address leaves two entries; a
portal capturer stopped before its loop runs is joined for ever;
`JoinOrDetach` joins without a limit.

## 5. The proofs

For every value of the constants that satisfies the named assumptions:

| Module | Theorems |
|---|---|
| `CastSessionProofs` | `TypeInvariant`, `SessionInvariant`, `NoZombieMediaAlways`, `NoThreadOverwrittenAlways`, `SupervisedAlways`, `SettledAlways`, `NoLateRevivalAlways` |
| `HandshakeProofs` | `HandshakeTypeCorrect`, `HandshakeAnswersThisOffer` |
| `DisplayCaptureProofs` | `PacerTypeInvariant`, `StampsIncrease`, `CadenceRateBounded`, `LeadIsFloors`; `CaptureTypeCorrect`, `NoNullAcquireAlways`, `CaptureUsesPacer`, `CaptureStampsIncrease`, `CaptureLeadIsFloors`, `OverlayMatchesAlways`, `CaptureDeliversNewest` |
| `DisplaySourcesProofs` | `SourcesTypeCorrect`, `OnePipeline`, `CaptureQuietAlways`, `X11Quiet`, `LossFailsAlways`, `NewestOfferedAlways` |
| `AudioSourcesProofs` | `SoundTypeCorrect`, `SoundStampsAdvance`, `CaptureKeepsTime`, `SpeakersRestored` |
| `SendingProofs` | on `CastTransport`: `TransportTypeCorrect`, `TransportUnackedKept`, `TransportSuppresses`; on `AdaptiveController`: `AdaptiveInvariant`, `AdaptiveTypeInvariant`, `WithinCapAlways`, `CongestionNeverRaisesEver`, `HysteresisHolds` |
| `DevicePickerProofs` | `DiscoveryThreads`, `StoppedQuietAlways`, `UniqueEntriesAlways`; `WindowsInStep`, `PickerTypeCorrect`, `FrontEndAgreesAlways`, `SelectionCastableAlways` |
| `CastAppsProofs` | `AppsTypeCorrect`, `NothingDangles`, `TrayQuietAlways`, `CallbacksQuietAlways`, `OneStreamAlone`, `LiveIsShownAlone`, `TogglesAgreeAlone` |

*Session.* `NoZombieMedia` is not inductive: media must be kept from coming up
between the check of the stop flag and the end of the build. `SessionInv` adds
what closes the gap. Whoever builds or frees holds `pipeline_mutex_`
(`HeldByWorker`); a teardown has stopped the loops before it joins and frees
(`FreedInOrder`); and nobody is building once a stopped session was torn down
(`NoBuildOnceTornDown`), because the mutex was taken, and the flag read, before.
Steps that touch none of this are collected in `Quiet` and shown to keep the
invariant once. It holds for any set of channel threads, so also with the
heartbeat.

*Threads of the session.* `NoThreadOverwritten` needs to know what a thread will
return to. `StackShape`: inside a procedure, and only there, a thread has
something to return to. `Roles` and `StarterFirst`: only the starter and the
supervisor build, and until the starter has built there is nobody else.
`VideoGone` and `LinkGone`: a recovery that marked the media as stopped has joined
the encode thread and the channel's threads, or its stack says that it will before
it retries. It holds for every owner, also one that stops before Start.

*The supervisor and the end.* `Supervised`, `Settled` and `NoLateRevival` suppose
that the owner stops no session Start has not begun (`~EarlyStop`), as the run
does; otherwise Start takes back a stop under way (`CancelSettles`, section 4).
For `Supervised`, `Watched` says that until a stop is asked for only the supervisor takes
the media down, and that a session that streams, or is about to say so, has
media or an open recovery window. `StopAsked` says at which places a stop must
have been asked for, `FirstTime` that a first negotiation reconnects nothing.
The other two follow a stop through its stages. `OneStop`: one thread at a time
is in Stop. `JoinedInv`: past its join there is no attempt, past its teardown no
media, past the channel's end nobody who asks for a reconnect. `StateInv`: from
its first transition on the state is closed, Stopping, or Connecting with a
Start on its way to failure; when it is closed no Start is building, and while
one still negotiates no channel thread asks for a reconnect. A stop that is
done has left Stopping. What `Settled` excepts is a source whose size was unknown
at Start: its capture precedes the first transition, so a stop can be over
before the state is Connecting.

*Pacer.* `StampsIncrease` follows from the type invariant and the shape of
`Stamp`, each branch of which is above the last stamp. `CadenceRateBounded`
needs `Paid`: while a window is open, the deadline has advanced by as much as
the emits cost, up to the four intervals of the resync. `LeadIsFloors` has no
premise on the passes: an emit that comes a floor or more after the last adds
nothing to the lead, one that comes sooner adds at most the floor, and a capture
ahead of the timeline ends it. `Behind` adds that no capture is from the future.

*Capture.* `LoopInv` says what each place of the loop may rely on, above all
that a clock reading taken earlier is not later than now. `CaptureUsesPacer` shows
that each step is a pacer step or a stutter, and `CaptureStampsIncrease` is
the pacer's theorem carried over; so is `CaptureLeadIsFloors`. Passes shorter than
the floor, as after a timeout or during a catch-up, do push the timeline ahead,
and by no more than that. `ShowsNewest` carries the last two: the newest capture is
the staged frame or, once a tick has taken it, the pacer's last one, and a
composite that is kept shows the pacer's last frame unless a new one is about to
be emitted.

*Linux capturers.* The three properties rest on who may touch a capturer.
`Locked`: whoever drops the pipeline or builds it holds `pipeline_mutex_`, so
nobody starts a capturer while another thread stops it. The portal's size probe
starts one without the lock; `Early` says that until then nothing else is there
that could stop. Then `Told`, `AwaitsEnd` and `Chased` follow a stop: a capturer
that was told has ended or is waited for, and while one runs in a session that
was asked to stop a thread is on its way to tell it. That gives `CaptureQuiet`,
on X11 whenever the user stops (`X11Quiet`), elsewhere with the run's premise
`~EarlyStops`, which excludes a Stop during the size probe alone. For `LossFails`, `LossReported` follows the report from the X11
thread through the slot to the encode thread; nothing overtakes it, since that
thread delivers nothing after it, and `Rests` says that a capturer that is built
again starts from rest. For `NewestOffered`, `Hears` says that a monitor that is
watched has its damage region empty or an event waiting, so without an event the
screen has not changed since the grab (`GrabIsNewest`), and `OfferedIsNewest` keeps
that from the callback until passes are skipped: the newest of slot, frame at
work and frame offered to the encoder is the screen. What the encoder or the
network refuses is lost (`NewestShown`, section 4). Both suppose that what they speak of is
never frozen, as in the run: a window, and a monitor with XDamage. Otherwise a
frame is dropped without a trace (section 4).

*Adaptive.* `AdaptiveInv` holds for every picture, rate and limit, whether a rung
fits them or Initialize falls back to 1080p60, and relates what moves separately.
`RungFitsPicture`: a rung above the default one fits the picture. `BitrateInRange`:
the bitrate is no less than what the next rung down becomes under the caps, and no
more than the cap, or the floor's where that is higher. `CeilingFits`: a ceiling is
only ever put on a picture no wider than 1920 pixels, whose rungs lie at or below
8000 kbps. `EncoderInStep`: the encoder runs at the bitrate. Then a
downshift never raises anything. `NextRungFits` says the same where adaptation is
off and no cap is applied. Two exceptions are in the properties, as the code has
them: a bitrate the encoder refused (`stale`), and a session without adaptation
that no rung fits and that runs below the rung under the default one
(`Misplaced`), whose first emergency raises it (`CapObeyed`). The lemmas on the ladder come
first, and the ladder is not expanded after them. `Hysteresis` needs
`CountsNoMore`: the counter the ramp waits for never exceeds the clean
evaluations there really were, whatever else resets one or the other.

*Control connection.* `AnswersThisOffer` speaks of a stream; what makes it true
happens earlier, in three places that must fit together. `Mailboxes`: every
message on its way, in either direction, belongs to the attempt under way, so an
ANSWER that is taken carries this attempt's number. `Between`: while the thread
is about to begin an attempt both mailboxes are empty and there is no link,
because `Release` joined the channel's threads first; without it the new number
would make old messages out of those on their way. `Current`: from LAUNCH on, an
answered flag is about this attempt, because `FlagsCleared` comes before
anything can be answered. Both theorems have the premise `~LateAnswers`; without
it `Mailboxes` fails, and so does the property (section 4).

*Transport.* `UnackedKept` needs to know what the feedback the sender acts on can
be. `Told`: every report on its way carries the low bits of a checkpoint the
receiver has passed, however late the report is, because checkpoints only grow.
`Expanded` shows that `ExpandFrameId` makes of such bits the checkpoint or the id
one whole range later, wherever the reference stands; `HeardRight` carries that to
the acknowledgement, across the frames made meanwhile. Within the stated lag the
later id is further ahead than `SafeCacheEraseLimit` believes (`LimitIsTold`), so
what is dropped was acknowledged; and the eviction of `SendPackets` drops only
what newer frames crowd out (`NewestKeeps`). `Suppressed` needs `Timed`: while a
packet is cached, the time the code keeps for it is the true one. A time is only
forgotten together with the packet.

*Programs.* The engine's part is `Control`: where a thread is goes with its call
stack and with the sessions its calls hold, a short list of shapes for the
application's threads and one for a session's own. `Exists`: what is held or
registered has not been destroyed. `Fresh`: a session about to begin has no thread
yet and one thread that begins it. With these, `TrayDone` and `CallbacksDone` are
inductive for all three programs. `OneStream` rests on what each program does to
let one call work at a time. `Alone`: the WinUI window's next click waits for what
the last call posts, of which there is one, and the command line has one thread.
`OneCast`: what exists is then registered or held by that call, and StartCasting
retires the one before it makes another. The GTK program has no such guard, and
with two starts at once two sessions do stream (section 4); the premise excludes
it, and the run, where its starts do not overlap, includes it.

*What the WinUI window shows.* `LiveIsShown` and `TogglesAgree` speak of a moment
when everything is applied; `StepInv` is what holds on the way there, on top of
`Alone` and `OneCast`. The session's thread and a call can both have made a
transition that they have not posted yet, and those may be posted in either order.
`Silent` says who that can be: a call that is under way, or a session's thread,
which owes the end of a cast only once it has ended behind a stop. `Placing`: a start
has its session registered, a stop that retires has the engine empty. `Stopped`
and `Waits`: a teardown follows a stop, and a registered session no call stops has
a thread or is about to get one. Then, while a session can still stream (`Up`,
`HasThread`), no closing state waits for the window and an active one is shown or
waits (`Shows`); only the session's own end may still be to come. `Agrees` adds,
while it goes on, that not even that is on its way, and that the switch stands as
the session does, throughout and not only when all is applied. Both need a new
cast to find nothing left of the one before. `LastWord`: once a click is
possible, or will be when the call's return is applied, a closing state that is
shown last is the last word, and no thread has one more. `Clear` carries that to
where the new session begins: `CanCast` was true, so the window showed a closing
state, so nobody had anything to say.

*Device lists.* `StoppedQuiet` is `Joined` once Stop has returned: the loop is
off and so is the probe of Start. The probe of a forced scan is detached: it may
still announce, and the property does not cover it. What they could still announce is bounded by
where they are. `LoopCopy`: the loop takes a copy of the list only while it
records what it received. `TaskCopy`: a probe's tasks work, or have something to
announce, only while the probe waits for them. `Stands` says that Stop has
cleared `running_` before it joins, without which the loop could be started
again behind it. `UniqueEntries` needs `Placed`: everything in the list, and
every packet on its way to it, has an id and an address that belong together.
Then two ids at one address are one TV, and the comparison of both in
`AddOrUpdateDevice` finds the entry there is. The premise `KeepsAddress`, that
every TV has its address to itself and none reports another's id, is the run's;
an id that is empty or nobody's is covered. Without it a TV that moves to
the address of a typed entry overwrites that entry and its own old one stays,
and TLC finds the two. The lists lose entries through `Only`, the entries at the
indices kept; the lemma `OnlyIs` says which entry stands where, by the number of
indices kept below it.

*Windows over them.* For GTK, `GtkShows`: a change of the list that the window does not
show is on its way to it, as a copy that some thread carries or as a call that
waits, so with neither it shows the list. The WinUI window reads the C API's
copy index by index, while it may change. `Settled`: no thread is between
replacing the copy and calling the client, and no call waits. `ReadsCached`: then
what was read so far is the copy as it is, since each change of the copy is
followed by a call. So what the last call reads, and `ApplyDevices` merges into
the rows, is of the copy, as far as that call was asked to read (`WinShows`), and
the typed addresses it keeps are none of those. That it was asked for all of the
copy is not so when two threads call in the other order (`RowsComplete`,
section 4).
`SelectionCastable` follows from `Selectable`: a selection is a row's or an
address, and `StartCasting` takes an id it does not find for an address.
The window's type, with `PickerTypeCorrect`, is part of the same invariant.

*Sound.* `SoundStampsAdvance` needs `PinIsSent`, that the pin is the stamp of the
last frame sent until it is forgotten, and `Stamped`, that a queued WASAPI frame
has a stamp. `CaptureOnTime` is inductive with `Stamped`: silence is measured from
the queue's end to the clock, so it ends before the clock, and a packet ends where
the endpoint's sound does, or as much later as it was read late. So late sound is
put behind silence (`NoSilenceOnTop`, section 4), but by one packet's lateness
and not by the sum of them. It says nothing of the pinned stamps, which is where
`LeadBounded` fails. `SpeakersRestored` is about two threads that stop and start the same
capturer. `Within` says where in the session's code a thread is, also while it is
inside the capturer's Stop, and four facts about that place carry the proof. `Locked`:
who starts or drops a capturer holds one of the two mutexes, who drops the media
holds both. `Owned`: a capturer being started is the session's. `TakesDown`: once the
user's thread has dropped the media nothing is built again. `Kept`: only a capturer
that is there keeps something saved. `Faithful`, that what is saved is what the user
had set, then ends in the claim. It holds while the sound server refuses nothing;
with a refusal it does not (section 4).

The assumptions are those the constants are declared with. Each is evaluated by
TLC in the runs of its module.

Only model-checked: all liveness (`StopReturns` of the session and of the
discovery, `LossRepaired`, `Recovers`, `LossNoticed`, `SilentLeaves`), which needs
fairness and ENABLED, out of the prover's reach; the type of the X11 capturer's
`crop`, which is folded over a list of events and would need induction; and of the
GTK program `OneStream`, `LiveIsShown` and `TogglesAgree`: it shows what its main
thread does before what was posted earlier, so the argument above does not carry
over, and the run, where its starts do not overlap, checks them.

## 6. Not modelled, and the plan

Left out for good: parsing and layout of bytes, framing, TLS and certificates,
codecs and GPU code, pixels, resampling, logging, widgets and settings pages.
They are sequential conversions or calls into libraries; their outcomes are
choices here.

Left out so far: the token bucket and the sender reports of `CastTransport`
(bursts can exceed the comment's bound across two refills); the setters of frame
rate and size, held under `params_mutex_` across a reconnect request; the
resolution and frame rate that follow the adaptive controller's rung; the
windows' lists over TVs that report an id of another or none (the run `discovery`
has them, without a window); the
configuration caches of `ConfigStore` and the C API; the capability model and the
contents of the OFFER; per-application sound capture; the length of the backoff.

Planned next: the token bucket, with a theorem on the burst, and the live setters
under `params_mutex_`.
