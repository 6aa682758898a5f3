---------------------------- MODULE CastSession ----------------------------
(* One CastSession object (core/src/cast_session.cc) from Start() to its     *)
(* destructor, with every thread that runs code of it:                       *)
(*   starter   - the caller of Start(), blocked in connect and negotiate     *)
(*   owner     - whoever calls Stop() from outside and then drops the last   *)
(*               reference (CastEngine::StopCasting, StartCasting's retire)  *)
(*   adapt     - AdaptationLoop: supervision and reconnect                   *)
(*   video     - VideoEncodeLoop                                             *)
(*   receive, heartbeat - the CastChannel threads that call back into it     *)
(* The threads share atomics, two mutexes and three std::thread objects; a   *)
(* step is what runs between two points where another thread can get in.     *)
(* Procedures several threads run (Stop, StopMediaPipeline, FailSession,     *)
(* RequestReconnect, CastChannel::Disconnect) are entered with Call and left *)
(* with Return, one stack of labels per thread.  Times are abstract: a wait  *)
(* with a timeout may always time out, a backoff sleep is one step.          *)

EXTENDS Integers, Sequences, StateMachine

CONSTANTS ChannelThreads,  \* the threads a connection runs
          Failures,        \* which events outside the session may end it
          EarlyStop        \* the owner may call Stop() before Start() has begun

ASSUME ChannelThreadsAssumption ==
  ChannelThreads \subseteq {"receive", "heartbeat"}
ASSUME FailuresAssumption ==
  Failures \subseteq {"appClosed", "sourceLost", "windowExpired"}
ASSUME EarlyStopAssumption == EarlyStop \in BOOLEAN

VARIABLES
  state,          \* StateMachine::current_state_
  stopRequested, failRequested,
  recovering, windowExpired, \* SessionRecovery: is_recovering_, HasTimedOut()
  mediaStopped,   \* media_stopped_for_reconnect_
  isStreaming,    \* is_streaming_
  built,          \* transport, encoders, packetizers exist
  capture,        \* display_capture_->IsCapturing()
  sizeKnown,      \* display_capture_->SizeKnownBeforeStart()
  pipelineMutex,  \* the thread that holds pipeline_mutex_, or NoThread
  tornDown,       \* history: a teardown completed after Stop() was requested
  channel,        \* cast_channel_ is not null
  connected, channelStop, notified, \* CastChannel: is_connected_, should_stop_,
                                    \* disconnect_notified_
  connectMutex,   \* the thread that holds CastChannel::connect_mutex_
  wasConnected,   \* the threads whose Disconnect() found the channel up
  launchSent, launchReceived, answered, \* launch_sent_, launch_received_,
                                        \* answer_received_
  appKnown,       \* app_session_id_ and app_transport_id_ are set
  renegotiating,  \* the local `reconnecting` of NegotiateControlPlane
  pc, stack,      \* per thread: where it is, and where it will return to
  joinable,       \* which of adapt_thread_, video_encode_thread_ are joinable
  destroyed       \* the destructor has finished

flags   == <<stopRequested, failRequested>>
window  == <<recovering, windowExpired, mediaStopped>>
media   == <<isStreaming, built, capture, pipelineMutex, tornDown>>
link    == <<channel, connected, channelStop, notified, connectMutex, wasConnected>>
talk    == <<launchSent, launchReceived, answered, appKnown, renegotiating>>
objects == <<sizeKnown, joinable, destroyed>>
control == <<pc, stack>>
vars == <<state, flags, window, media, link, talk, objects, control>>

(* A step that moves its thread and nothing else, or its thread and the      *)
(* state machine.                                                            *)
OnlyState   == UNCHANGED <<flags, window, media, link, talk, objects>>
OnlyControl == UNCHANGED state /\ OnlyState

Threads == {"starter", "owner", "adapt", "video"} \cup ChannelThreads
NoThread == "nobody"

Labels ==
  {"none", "dead", "start", "toConnecting", "openCapture", "awaitFirstFrame",
   "startFailed", "toStreaming", "returned", "newChannel", "connect", "connecting",
   "authenticate", "launch", "awaitLaunch", "offer", "awaitAnswer", "lockPipeline",
   "build", "startCapture", "checkCapture", "stopMedia", "joinVideo", "freeMedia",
   "stop", "toStopping", "joinAdapt", "resetRecovery", "toFinal",
   "fail", "markFailed", "reconnect", "openWindow", "clearFlags",
   "toReconnecting", "disconnect", "lockChannel", "joinChannel", "notify", "loop",
   "dropMedia", "retry", "backoff", "recovered", "rearm", "resume",
   "tick", "receive", "beat", "lost", "encode",
   "own", "release", "destroyAdapt",
   "freed", "gone"}

(* The labels a thread may find on its stack.                                *)
Continuations ==
  {"dead", "startFailed", "returned", "stopMedia", "joinAdapt", "resetRecovery",
   "disconnect", "loop", "retry", "receive", "encode", "own", "release", "destroyAdapt",
   "freed"}

-----------------------------------------------------------------------------
(* Control flow.                                                             *)

Goto(t, l) == /\ pc' = [pc EXCEPT ![t] = l]
              /\ UNCHANGED stack

(* Run l, and when it returns the procedures and labels of after in order.   *)
Call(t, l, after) == /\ pc' = [pc EXCEPT ![t] = l]
                     /\ stack' = [stack EXCEPT ![t] = after \o @]

Return(t) == /\ stack[t] # <<>>
             /\ pc' = [pc EXCEPT ![t] = Head(stack[t])]
             /\ stack' = [stack EXCEPT ![t] = Tail(@)]

(* Where the body of each std::thread begins.                                *)
FirstLabel == [adapt |-> "loop", video |-> "encode",
               receive |-> "receive", heartbeat |-> "beat"]

(* The thread moves on and the threads of S begin.                           *)
Spawn(t, l, S) ==
  /\ pc' = [u \in Threads |-> IF u = t THEN l
                             ELSE IF u \in S THEN FirstLabel[u] ELSE pc[u]]
  /\ UNCHANGED stack

Terminated(t) == pc[t] \in {"none", "dead"}

(* JoinOrDetach: a worker that joins itself is detached, any other caller    *)
(* waits for it, however long that takes.                                    *)
CanJoin(t, worker) == worker \in joinable => (t = worker \/ Terminated(worker))

-----------------------------------------------------------------------------
Init ==
  /\ state = "Idle"
  /\ stopRequested = FALSE /\ failRequested = FALSE
  /\ recovering = FALSE /\ windowExpired = FALSE /\ mediaStopped = FALSE
  /\ isStreaming = FALSE /\ built = FALSE /\ capture = FALSE
  /\ sizeKnown \in BOOLEAN
  /\ pipelineMutex = NoThread /\ tornDown = FALSE
  /\ channel = FALSE /\ connected = FALSE /\ channelStop = FALSE
  /\ notified = FALSE /\ connectMutex = NoThread /\ wasConnected = {}
  /\ launchSent = FALSE /\ launchReceived = FALSE /\ answered = FALSE
  /\ appKnown = FALSE /\ renegotiating = FALSE
  /\ pc = [t \in Threads |-> CASE t = "starter" -> "start"
                               [] t = "owner"   -> "own"
                               [] OTHER         -> "none"]
  /\ stack = [t \in Threads |-> <<>>]
  /\ joinable = {} /\ destroyed = FALSE

-----------------------------------------------------------------------------
(* CastSession::Start, run by the starter.                                   *)

(* Under params_mutex_: refuse an active state machine, reset every flag.    *)
StartBegin ==
  /\ pc["starter"] = "start"
  /\ ~IsActive(state)
  /\ stopRequested' = FALSE /\ failRequested' = FALSE /\ isStreaming' = FALSE
  /\ tornDown' = FALSE
  /\ launchSent' = FALSE /\ launchReceived' = FALSE /\ answered' = FALSE
  /\ Goto("starter", "toConnecting")
  /\ UNCHANGED <<state, window, built, capture, pipelineMutex, link,
                 appKnown, renegotiating, objects>>

ToConnecting ==
  /\ pc["starter"] = "toConnecting"
  /\ state' = TransitionTo(state, "Connecting")
  /\ Goto("starter", "openCapture")
  /\ OnlyState

(* X11 and DXGI know the size; the Wayland portal must capture first.        *)
OpenCapture ==
  /\ pc["starter"] = "openCapture"
  /\ pipelineMutex = NoThread
  /\ \/ /\ sizeKnown
        /\ Goto("starter", "newChannel")
        /\ UNCHANGED capture
     \/ /\ ~sizeKnown
        /\ capture' = TRUE
        /\ Goto("starter", "awaitFirstFrame")
     \/ /\ ~sizeKnown  \* permission denied
        /\ Goto("starter", "startFailed")
        /\ UNCHANGED capture
  /\ UNCHANGED <<state, flags, window, isStreaming, built, pipelineMutex,
                 tornDown, link, talk, objects>>

AwaitFirstFrame ==
  /\ pc["starter"] = "awaitFirstFrame"
  /\ \/ stopRequested /\ Call("starter", "stop", <<"returned">>)
     \/ ~stopRequested /\ Goto("starter", "newChannel")
     \/ ~stopRequested /\ Goto("starter", "startFailed")
  /\ OnlyControl

StartFailed ==
  /\ pc["starter"] = "startFailed"
  /\ state' = TransitionTo(state, "Failed")
  /\ Call("starter", "stop", <<"returned">>)
  /\ OnlyState

StartSucceeded ==
  /\ pc["starter"] = "toStreaming"
  /\ state' = TransitionTo(state, "Streaming")
  /\ Goto("starter", "returned")
  /\ OnlyState

StartSteps == StartBegin \/ ToConnecting \/ OpenCapture \/ AwaitFirstFrame
              \/ StartFailed \/ StartSucceeded

-----------------------------------------------------------------------------
(* NegotiateControlPlane, run by the starter and by each reconnect attempt.  *)

(* Where its two callers go when it, or StartStreamingMedia after it, fails  *)
(* or succeeds.                                                              *)
Failing(t) == IF t = "starter" THEN <<"startFailed">>
                               ELSE <<"stopMedia", "disconnect", "loop">>
Fail(t) == IF t = "starter" THEN Goto(t, "startFailed")
                            ELSE Call(t, "stopMedia", <<"disconnect", "loop">>)
Succeeding(t) == IF t = "starter" THEN "toStreaming" ELSE "recovered"

(* make_unique replaces the previous channel, whose destructor joins its     *)
(* threads.                                                                  *)
NewChannel(t) ==
  /\ pc[t] = "newChannel"
  /\ \A c \in ChannelThreads : Terminated(c)
  /\ channel' = TRUE /\ notified' = FALSE
  /\ connected' = FALSE /\ channelStop' = FALSE
  /\ renegotiating' = (state = "Reconnecting")
  /\ state' = TransitionTo(state, IF state = "Reconnecting" THEN "Reconnecting"
                                                           ELSE "Connecting")
  /\ Goto(t, "connect")
  /\ UNCHANGED <<flags, window, media, connectMutex, wasConnected,
                 launchSent, launchReceived, answered, appKnown, objects>>

(* Connect() takes the lifecycle lock and clears should_stop_ ...            *)
Connect(t) ==
  /\ pc[t] = "connect"
  /\ connectMutex = NoThread
  /\ connectMutex' = t /\ channelStop' = FALSE
  /\ Goto(t, "connecting")
  /\ UNCHANGED <<state, flags, window, media, channel, connected, notified,
                 wasConnected, talk, objects>>

(* ... and starts the channel's threads once the handshake is done.  A       *)
(* Disconnect() that is waiting for the lock makes it fail, unless the       *)
(* handshake finished just before.                                           *)
Connected(t) ==
  /\ pc[t] = "connecting"
  /\ connectMutex' = NoThread
  /\ \/ /\ connected' = TRUE /\ notified' = FALSE
        /\ Spawn(t, "authenticate", ChannelThreads)
     \/ /\ Fail(t)
        /\ UNCHANGED <<connected, notified>>
  /\ UNCHANGED <<state, flags, window, media, channel, channelStop,
                 wasConnected, talk, objects>>

(* The phase the session reports while it negotiates.                        *)
Phase(p) == IF renegotiating THEN "Reconnecting" ELSE p

Authenticate(t) ==
  /\ pc[t] = "authenticate"
  /\ state' = TransitionTo(state, Phase("Connecting"))
  /\ \/ connected /\ Goto(t, "launch")
     \/ Fail(t)
  /\ OnlyState

Launch(t) ==
  /\ pc[t] = "launch"
  /\ state' = TransitionTo(state, Phase("Connecting"))
  /\ launchReceived' = FALSE /\ answered' = FALSE /\ launchSent' = TRUE
  /\ Goto(t, "awaitLaunch")
  /\ UNCHANGED <<flags, window, media, link, appKnown, renegotiating, objects>>

(* The wait ends with the launch confirmed, a stop, a failure or a timeout.  *)
AwaitLaunch(t) ==
  /\ pc[t] = "awaitLaunch"
  /\ \/ launchReceived /\ ~stopRequested /\ ~failRequested /\ Goto(t, "offer")
     \/ Fail(t)
  /\ OnlyControl

SendOffer(t) ==
  /\ pc[t] = "offer"
  /\ state' = TransitionTo(state, Phase("Negotiating"))
  /\ Goto(t, "awaitAnswer")
  /\ OnlyState

AwaitAnswer(t) ==
  /\ pc[t] = "awaitAnswer"
  /\ \/ answered /\ ~stopRequested /\ ~failRequested /\ Goto(t, "lockPipeline")
     \/ Fail(t)
  /\ OnlyControl

NegotiateSteps(t) ==
  NewChannel(t) \/ Connect(t) \/ Connected(t) \/ Authenticate(t) \/ Launch(t)
  \/ AwaitLaunch(t) \/ SendOffer(t) \/ AwaitAnswer(t)

-----------------------------------------------------------------------------
(* StartStreamingMedia, run under pipeline_mutex_.                           *)

(* Faulty: a build that does not ask whether it was cancelled while it       *)
(* waited.                                                                   *)
LockPipelineUnchecked(t) ==
  /\ pc[t] = "lockPipeline"
  /\ pipelineMutex = NoThread
  /\ pipelineMutex' = t
  /\ Goto(t, "build")
  /\ UNCHANGED <<state, flags, window, isStreaming, built, capture,
                 tornDown, link, talk, objects>>

LockPipeline(t) ==
  /\ pc[t] = "lockPipeline"
  /\ pipelineMutex = NoThread
  /\ \/ /\ ~stopRequested
        /\ pipelineMutex' = t
        /\ Goto(t, "build")
     \/ /\ stopRequested
        /\ UNCHANGED pipelineMutex
        /\ Fail(t)
  /\ UNCHANGED <<state, flags, window, isStreaming, built, capture,
                 tornDown, link, talk, objects>>

(* The failure path calls StopMediaPipeline with the recursive mutex held    *)
(* and releases it as it returns: one teardown, one release.                 *)
AbandonPipeline(t) ==
  /\ isStreaming' = FALSE /\ capture' = FALSE
  /\ Call(t, "joinVideo", Failing(t))

(* Transport, encoders and the encode thread.                                *)
Build(t) ==
  /\ pc[t] = "build"
  /\ built' = TRUE
  /\ \/ /\ isStreaming' = TRUE
        /\ joinable' = joinable \cup {"video"}
        /\ Spawn(t, "startCapture", {"video"})
        /\ UNCHANGED capture
     \/ /\ AbandonPipeline(t)
        /\ UNCHANGED joinable
  /\ UNCHANGED <<state, flags, window, pipelineMutex, tornDown, sizeKnown,
                 link, talk, destroyed>>

StartCapture(t) ==
  /\ pc[t] = "startCapture"
  /\ \/ /\ capture' = TRUE
        /\ Goto(t, "checkCapture")
        /\ UNCHANGED isStreaming
     \/ AbandonPipeline(t)
  /\ UNCHANGED <<state, flags, window, built, pipelineMutex, tornDown, link,
                 talk, objects>>

(* A reconnect runs inside the adaptation thread and finds it joinable.      *)
CheckCapture(t) ==
  /\ pc[t] = "checkCapture"
  /\ joinable' = joinable \cup {"adapt"}
  /\ Spawn(t, Succeeding(t), {"adapt"} \ joinable)
  /\ pipelineMutex' = NoThread
  /\ UNCHANGED <<state, flags, window, isStreaming, built, capture,
                 tornDown, sizeKnown, link, talk, destroyed>>

PipelineSteps(t) == LockPipeline(t) \/ Build(t) \/ StartCapture(t)
                    \/ CheckCapture(t)

-----------------------------------------------------------------------------
(* StopMediaPipeline, run by any thread but the channel's own exit.          *)

StopMedia(t) ==
  /\ pc[t] = "stopMedia"
  /\ pipelineMutex = NoThread
  /\ pipelineMutex' = t
  /\ isStreaming' = FALSE /\ capture' = FALSE
  /\ Goto(t, "joinVideo")
  /\ UNCHANGED <<state, flags, window, built, tornDown, link, talk, objects>>

JoinVideo(t) ==
  /\ pc[t] = "joinVideo"
  /\ CanJoin(t, "video")
  /\ joinable' = joinable \ {"video"}
  /\ Goto(t, "freeMedia")
  /\ UNCHANGED <<state, flags, window, media, sizeKnown, link, talk, destroyed>>

FreeMedia(t) ==
  /\ pc[t] = "freeMedia"
  /\ built' = FALSE
  /\ pipelineMutex' = NoThread
  /\ tornDown' = (tornDown \/ stopRequested)
  /\ Return(t)
  /\ UNCHANGED <<state, flags, window, isStreaming, capture, link, talk,
                 objects>>

TeardownSteps(t) == StopMedia(t) \/ JoinVideo(t) \/ FreeMedia(t)

-----------------------------------------------------------------------------
(* Stop().                                                                   *)

(* Only the caller that sets stop_requested_ runs it; the rest return.       *)
StopOnce(t) ==
  /\ pc[t] = "stop"
  /\ stopRequested' = TRUE
  /\ \/ ~stopRequested /\ Goto(t, "toStopping")
     \/ stopRequested /\ Return(t)
  /\ UNCHANGED <<state, failRequested, window, media, link, talk, objects>>

ToStopping(t) ==
  /\ pc[t] = "toStopping"
  /\ state' = IF state = "Idle" THEN state ELSE TransitionTo(state, "Stopping")
  /\ Call(t, "stopMedia", <<"joinAdapt">>)
  /\ OnlyState

(* Faulty: a teardown that waits for the worker and keeps the handle of the  *)
(* caller.                                                                   *)
JoinCaller(t) ==
  /\ pc[t] = "joinAdapt"
  /\ CanJoin(t, "adapt")
  /\ joinable' = (joinable \ {"adapt"}) \cup {t}
  /\ Call(t, "disconnect", <<"resetRecovery">>)
  /\ UNCHANGED <<state, flags, window, media, sizeKnown, link, talk, destroyed>>

(* Faulty: a teardown that does not wait for the supervisor.                 *)
DetachAdapt(t) ==
  /\ pc[t] = "joinAdapt"
  /\ joinable' = joinable \ {"adapt"}
  /\ Call(t, "disconnect", <<"resetRecovery">>)
  /\ UNCHANGED <<state, flags, window, media, sizeKnown, link, talk, destroyed>>

JoinAdapt(t) ==
  /\ pc[t] = "joinAdapt"
  /\ CanJoin(t, "adapt")
  /\ joinable' = joinable \ {"adapt"}
  /\ Call(t, "disconnect", <<"resetRecovery">>)
  /\ UNCHANGED <<state, flags, window, media, sizeKnown, link, talk, destroyed>>

ResetRecovery(t) ==
  /\ pc[t] = "resetRecovery"
  /\ recovering' = FALSE /\ windowExpired' = FALSE
  /\ Goto(t, "toFinal")
  /\ UNCHANGED <<state, flags, mediaStopped, media, link, talk, objects>>

(* Failed if the session failed, else Idle (through Stopping from Failed).   *)
(* The capture check that follows only reports.                              *)
ToFinal(t) ==
  /\ pc[t] = "toFinal"
  /\ state' = TransitionTo(state, IF failRequested THEN "Failed" ELSE "Idle")
  /\ Return(t)
  /\ OnlyState

StopSteps(t) == StopOnce(t) \/ ToStopping(t) \/ JoinAdapt(t) 
                \/ ResetRecovery(t) \/ ToFinal(t)

-----------------------------------------------------------------------------
(* FailSession() and RequestReconnect().                                     *)

FailSession(t) ==
  /\ pc[t] = "fail"
  /\ \/ stopRequested /\ Return(t)
     \/ ~stopRequested /\ Goto(t, "markFailed")
  /\ OnlyControl

(* The reason and the error callback, then Stop() as the last call.          *)
MarkFailed(t) ==
  /\ pc[t] = "markFailed"
  /\ failRequested' = TRUE
  /\ Goto(t, "stop")
  /\ UNCHANGED <<state, stopRequested, window, media, link, talk, objects>>

RequestReconnect(t) ==
  /\ pc[t] = "reconnect"
  /\ \/ stopRequested /\ Return(t)
     \/ ~stopRequested /\ Goto(t, "openWindow")
  /\ OnlyControl

(* StartRecovery: one thread opens the window, the rest ask if it ran out.   *)
OpenWindow(t) ==
  /\ pc[t] = "openWindow"
  /\ \/ /\ ~recovering
        /\ recovering' = TRUE /\ windowExpired' = FALSE
        /\ Goto(t, "clearFlags")
     \/ /\ recovering
        /\ IF windowExpired THEN Goto(t, "fail") ELSE Return(t)
        /\ UNCHANGED <<recovering, windowExpired>>
  /\ UNCHANGED <<state, flags, mediaStopped, media, link, talk, objects>>

ClearFlags(t) ==
  /\ pc[t] = "clearFlags"
  /\ mediaStopped' = FALSE /\ failRequested' = FALSE
  /\ Goto(t, "toReconnecting")
  /\ UNCHANGED <<state, stopRequested, recovering, windowExpired, media,
                 link, talk, objects>>

ToReconnecting(t) ==
  /\ pc[t] = "toReconnecting"
  /\ \/ /\ IsValidTransition(state, "Reconnecting")
        /\ state' = "Reconnecting"
        /\ Return(t)
     \/ /\ ~IsValidTransition(state, "Reconnecting")
        /\ Goto(t, "fail")
        /\ UNCHANGED state
  /\ OnlyState

ReconnectSteps(t) == FailSession(t) \/ MarkFailed(t) \/ RequestReconnect(t)
                     \/ OpenWindow(t) \/ ClearFlags(t) \/ ToReconnecting(t)

(* Time passes: the recovery window runs out.                                *)
WindowExpires ==
  /\ "windowExpired" \in Failures
  /\ recovering /\ ~windowExpired
  /\ windowExpired' = TRUE
  /\ UNCHANGED <<state, flags, recovering, mediaStopped, media, link, talk,
                 objects, control>>

-----------------------------------------------------------------------------
(* CastChannel::Disconnect().                                                *)

Disconnect(t) ==
  /\ pc[t] = "disconnect" /\ channel
  /\ wasConnected' = IF connected THEN wasConnected \cup {t} ELSE wasConnected
  /\ connected' = FALSE /\ channelStop' = TRUE
  /\ Goto(t, "lockChannel")
  /\ UNCHANGED <<state, flags, window, media, channel, notified,
                 connectMutex, talk, objects>>

(* Every caller asks first whether there is a channel.                       *)
NoChannel(t) ==
  /\ pc[t] = "disconnect" /\ ~channel
  /\ Return(t)
  /\ OnlyControl

(* try_lock in a loop that keeps cancelling the Connect() that holds it.     *)
LockChannel(t) ==
  /\ pc[t] = "lockChannel"
  /\ connectMutex = NoThread
  /\ connectMutex' = t /\ channelStop' = TRUE
  /\ Goto(t, "joinChannel")
  /\ UNCHANGED <<state, flags, window, media, channel, connected, notified,
                 wasConnected, talk, objects>>

(* ReleaseConnection joins the channel threads, never its own caller.        *)
JoinChannel(t) ==
  /\ pc[t] = "joinChannel"
  /\ \A c \in ChannelThreads \ {t} : Terminated(c)
  /\ connectMutex' = NoThread
  /\ Goto(t, "notify")
  /\ UNCHANGED <<state, flags, window, media, channel, connected,
                 channelStop, notified, wasConnected, talk, objects>>

(* NotifyDisconnected, at most once per connection: OnChannelStatus(false)   *)
(* asks for a reconnect.                                                     *)
Notify(t) ==
  /\ pc[t] = "notify"
  /\ wasConnected' = wasConnected \ {t}
  /\ LET notifies == t \in wasConnected /\ ~notified
     IN  /\ notified' = (notified \/ notifies)
         /\ IF notifies /\ ~stopRequested THEN Goto(t, "reconnect") ELSE Return(t)
  /\ UNCHANGED <<state, flags, window, media, channel, connected,
                 channelStop, connectMutex, talk, objects>>

DisconnectSteps(t) == Disconnect(t) \/ NoChannel(t) \/ LockChannel(t)
                      \/ JoinChannel(t) \/ Notify(t)

-----------------------------------------------------------------------------
(* AdaptationLoop().                                                         *)

Loop ==
  /\ pc["adapt"] = "loop"
  /\ \/ /\ stopRequested \/ (~isStreaming /\ ~recovering)
        /\ Goto("adapt", "dead")
     \/ /\ ~stopRequested /\ (isStreaming \/ recovering)
        /\ IF recovering \/ state = "Reconnecting"
           THEN Goto("adapt", "dropMedia") ELSE Goto("adapt", "tick")
  /\ OnlyControl

(* Faulty: a recovery that closes the channel and leaves the encode thread   *)
(* running.                                                                  *)
DropChannelOnly ==
  /\ pc["adapt"] = "dropMedia"
  /\ mediaStopped' = TRUE
  /\ IF mediaStopped THEN Goto("adapt", "retry")
                     ELSE Call("adapt", "disconnect", <<"retry">>)
  /\ UNCHANGED <<state, flags, recovering, windowExpired, media, link, talk, objects>>

(* Once per recovery: tear the pipeline down, then close the channel.        *)
DropMedia ==
  /\ pc["adapt"] = "dropMedia"
  /\ mediaStopped' = TRUE
  /\ IF mediaStopped THEN Goto("adapt", "retry")
                     ELSE Call("adapt", "stopMedia", <<"disconnect", "retry">>)
  /\ UNCHANGED <<state, flags, recovering, windowExpired, media, link, talk,
                 objects>>

(* Give up when the window ran out; else count one more attempt, look the    *)
(* device up again and report the retry.                                     *)
Retry ==
  /\ pc["adapt"] = "retry"
  /\ \/ /\ windowExpired
        /\ Call("adapt", "fail", <<"dead">>)
        /\ UNCHANGED state
     \/ /\ ~windowExpired
        /\ state' = TransitionTo(state, "Reconnecting")
        /\ Goto("adapt", "backoff")
  /\ OnlyState

(* The sleep is cut short by a stop; otherwise negotiate again.              *)
Backoff ==
  /\ pc["adapt"] = "backoff"
  /\ \/ /\ stopRequested
        /\ Goto("adapt", "dead")
        /\ UNCHANGED failRequested
     \/ /\ ~stopRequested
        /\ failRequested' = FALSE
        /\ Goto("adapt", "newChannel")
  /\ UNCHANGED <<state, stopRequested, window, media, link, talk, objects>>

Recovered ==
  /\ pc["adapt"] = "recovered"
  /\ recovering' = FALSE /\ windowExpired' = FALSE
  /\ Goto("adapt", "rearm")
  /\ UNCHANGED <<state, flags, mediaStopped, media, link, talk, objects>>

Rearm ==
  /\ pc["adapt"] = "rearm"
  /\ mediaStopped' = FALSE
  /\ Goto("adapt", "resume")
  /\ UNCHANGED <<state, flags, recovering, windowExpired, media, link, talk,
                 objects>>

Resume ==
  /\ pc["adapt"] = "resume"
  /\ state' = TransitionTo(state, "Streaming")
  /\ Goto("adapt", "loop")
  /\ OnlyState

(* Faulty: a supervisor that leaves when somebody else opened the window.    *)
TickBreaks ==
  /\ pc["adapt"] = "tick"
  /\ \/ (stopRequested \/ recovering) /\ Goto("adapt", "dead")
     \/ ~stopRequested /\ ~recovering /\ Goto("adapt", "loop")
     \/ ~stopRequested /\ ~recovering /\ Call("adapt", "reconnect", <<"loop">>)
  /\ OnlyControl

(* One supervision tick: a pending failure, a lost or silent channel, a      *)
(* stalled picture or an encoder that cannot be reconfigured asks for a      *)
(* reconnect; the audio keepalive and a successful adaptation change nothing *)
(* here.                                                                     *)
Tick ==
  /\ pc["adapt"] = "tick"
  /\ \/ stopRequested /\ Goto("adapt", "dead")
     \/ ~stopRequested /\ Goto("adapt", "loop")
     \/ ~stopRequested /\ ~recovering /\ Call("adapt", "reconnect", <<"loop">>)
  /\ OnlyControl

AdaptSteps == Loop \/ DropMedia \/ Retry \/ Backoff
              \/ Recovered \/ Rearm \/ Resume \/ Tick

-----------------------------------------------------------------------------
(* The channel threads: ReceiveLoop and HeartbeatLoop of CastChannel.        *)

(* Faulty: a loop that looks at the connection only.                         *)
ChannelExitWhenDown(t) ==
  /\ pc[t] \in {"receive", "beat"}
  /\ ~connected
  /\ Goto(t, "dead")
  /\ OnlyControl

(* Both leave their loop once the channel is stopped or down.                *)
ChannelExit(t) ==
  /\ pc[t] \in {"receive", "beat"}
  /\ channelStop \/ ~connected
  /\ Goto(t, "dead")
  /\ OnlyControl

(* RECEIVER_STATUS naming the mirroring app, once LAUNCH has been sent.      *)
ReceiverStatus(t) ==
  /\ pc[t] = "receive" /\ connected
  /\ launchSent
  /\ appKnown' = TRUE /\ launchReceived' = TRUE
  /\ UNCHANGED <<state, flags, window, media, link, launchSent, answered,
                 renegotiating, objects, control>>

(* A usable ANSWER, to this OFFER or to an older one: every OFFER carries     *)
(* the same number.  (An unusable one only ends the wait as a timeout does.)  *)
(* It is not read before LAUNCH clears it nor after the wait for it.         *)
WebrtcAnswer(t) ==
  /\ pc[t] = "receive" /\ connected
  /\ appKnown
  /\ \E u \in Threads : pc[u] \in {"awaitLaunch", "offer", "awaitAnswer"}
  /\ answered' = TRUE
  /\ UNCHANGED <<state, flags, window, media, link, launchSent,
                 launchReceived, appKnown, renegotiating, objects, control>>

(* CLOSE: from the mirroring app it ends the session, from the platform it   *)
(* asks for a reconnect.                                                     *)
CloseMessage(t) ==
  /\ pc[t] = "receive" /\ connected
  /\ ~stopRequested
  /\ \/ "appClosed" \in Failures /\ appKnown /\ Call(t, "fail", <<"receive">>)
     \/ Call(t, "reconnect", <<"receive">>)
  /\ OnlyControl

(* The TLS socket closes under the reader, or no PONG came for 6 s.          *)
ConnectionLost(t) ==
  /\ pc[t] \in {"receive", "beat"} /\ connected
  /\ connected' = FALSE
  /\ Goto(t, "lost")
  /\ UNCHANGED <<state, flags, window, media, channel, channelStop,
                 notified, connectMutex, wasConnected, talk, objects>>

NotifyLost(t) ==
  /\ pc[t] = "lost"
  /\ notified' = TRUE
  /\ IF notified \/ stopRequested THEN Goto(t, "dead")
                                  ELSE Call(t, "reconnect", <<"dead">>)
  /\ UNCHANGED <<state, flags, window, media, channel, connected,
                 channelStop, connectMutex, wasConnected, talk, objects>>

ChannelEvents(t) == ReceiverStatus(t) \/ WebrtcAnswer(t) \/ CloseMessage(t)
                    \/ ConnectionLost(t)
ChannelSteps(t) == ChannelExit(t) \/ NotifyLost(t)

-----------------------------------------------------------------------------
(* VideoEncodeLoop().                                                        *)

EncodeExit ==
  /\ pc["video"] = "encode"
  /\ ~isStreaming \/ stopRequested
  /\ Goto("video", "dead")
  /\ OnlyControl

(* A frame that says its source is gone, past the loop's and                 *)
(* ProcessVideoFrame's checks.                                               *)
SourceLost ==
  /\ "sourceLost" \in Failures
  /\ pc["video"] = "encode"
  /\ isStreaming /\ ~stopRequested /\ built
  /\ Call("video", "fail", <<"encode">>)
  /\ OnlyControl

-----------------------------------------------------------------------------
(* The owner: Stop() at any time, then the last reference is dropped.        *)

OwnerStops ==
  /\ pc["owner"] = "own"
  /\ EarlyStop \/ pc["starter"] # "start"
  /\ Call("owner", "stop", <<"release">>)
  /\ OnlyControl

(* SetLiveVideoBitrateKbps: an encoder that cannot be reconfigured asks for  *)
(* a reconnect on the caller's thread (with params_mutex_ held: LiveParams). *)
(* While Start() runs the setter only records the cap.                       *)
SetBitrate ==
  /\ pc["owner"] = "own" /\ pc["starter"] = "returned" /\ built
  /\ Call("owner", "reconnect", <<"own">>)
  /\ OnlyControl

(* ~CastSession runs once Start() has given its own reference back.          *)
Release ==
  /\ pc["owner"] = "release"
  /\ pc["starter"] = "returned"
  /\ Call("owner", "stop", <<"stopMedia", "destroyAdapt">>)
  /\ OnlyControl

DestroyAdapt ==
  /\ pc["owner"] = "destroyAdapt"
  /\ CanJoin("owner", "adapt")
  /\ joinable' = joinable \ {"adapt"}
  /\ Call("owner", "disconnect", <<"freed">>)
  /\ UNCHANGED <<state, flags, window, media, sizeKnown, link, talk, destroyed>>

Destroyed ==
  /\ pc["owner"] = "freed"
  /\ destroyed' = TRUE
  /\ Goto("owner", "gone")
  /\ UNCHANGED <<state, flags, window, media, sizeKnown, link, talk, joinable>>

OwnerSteps == Release \/ DestroyAdapt \/ Destroyed

-----------------------------------------------------------------------------
(* Events from outside: the receiver, the shared source, the user, time.     *)
Environment == \/ \E t \in ChannelThreads : ChannelEvents(t)
               \/ SourceLost \/ OwnerStops \/ SetBitrate \/ WindowExpires

(* What thread t itself does next.                                           *)
Step(t) ==
  \/ t = "starter" /\ StartSteps
  \/ t = "adapt" /\ AdaptSteps
  \/ t = "video" /\ EncodeExit
  \/ t = "owner" /\ OwnerSteps
  \/ t \in ChannelThreads /\ ChannelSteps(t)
  \/ NegotiateSteps(t) \/ PipelineSteps(t) \/ TeardownSteps(t) \/ StopSteps(t)
  \/ ReconnectSteps(t) \/ DisconnectSteps(t)

Next == Environment \/ \E t \in Threads : Step(t)

Spec == Init /\ [][Next]_vars

(* Every thread is scheduled; nothing obliges the environment.               *)
FairSpec == Spec /\ \A t \in Threads : WF_vars(Step(t))

-----------------------------------------------------------------------------
(* Properties.                                                               *)

FlagsOK ==
  /\ stopRequested \in BOOLEAN /\ failRequested \in BOOLEAN
  /\ recovering \in BOOLEAN /\ windowExpired \in BOOLEAN
  /\ mediaStopped \in BOOLEAN
  /\ isStreaming \in BOOLEAN /\ built \in BOOLEAN /\ capture \in BOOLEAN
  /\ sizeKnown \in BOOLEAN /\ tornDown \in BOOLEAN
  /\ channel \in BOOLEAN /\ connected \in BOOLEAN /\ channelStop \in BOOLEAN
  /\ notified \in BOOLEAN
  /\ launchSent \in BOOLEAN /\ launchReceived \in BOOLEAN
  /\ answered \in BOOLEAN /\ appKnown \in BOOLEAN /\ renegotiating \in BOOLEAN
  /\ destroyed \in BOOLEAN

ObjectsOK ==
  /\ state \in SessionStates
  /\ pipelineMutex \in Threads \cup {NoThread}
  /\ connectMutex \in Threads \cup {NoThread}
  /\ wasConnected \subseteq Threads
  /\ joinable \subseteq {"adapt", "video"}

ControlOK ==
  /\ pc \in [Threads -> Labels]
  /\ stack \in [Threads -> Seq(Continuations)]

(* Every variable has its type: only the two workers' handles are ever       *)
(* joinable, and a stack holds nothing but places a procedure returns to.    *)
TypeOK == FlagsOK /\ ObjectsOK /\ ControlOK

StopLabels == {"toStopping", "joinAdapt", "resetRecovery", "toFinal"}

(* A thread is inside Stop(), past the exchange that let it in.              *)
Stopping(t) == \/ pc[t] \in StopLabels
               \/ \E i \in 1..Len(stack[t]) : stack[t][i] \in StopLabels

(* Once the pipeline came down for a Stop(), it stays down: nothing is sent, *)
(* nothing encoded, no encode thread is owned, and no capture runs (the      *)
(* Wayland probe of Start() excepted, which only the destructor ends).       *)
NoZombieMedia ==
  tornDown => /\ ~isStreaming /\ ~built
              /\ "video" \notin joinable
              /\ sizeKnown => ~capture

(* Why that holds.  Building and freeing hold pipeline_mutex_; a teardown     *)
(* has stopped the encode loop and the capture before it joins and frees; a  *)
(* pipeline can only be built by a thread that took the mutex before the     *)
(* last teardown of a stopped session did.                                   *)
Building == {"build", "startCapture", "checkCapture"}
Freeing  == {"joinVideo", "freeMedia"}

HeldByWorker == \A t \in Threads : pc[t] \in Building \cup Freeing => pipelineMutex = t

FreedInOrder ==
  \A t \in Threads :
    /\ pc[t] \in Freeing => ~isStreaming /\ (sizeKnown => ~capture)
    /\ pc[t] = "freeMedia" => "video" \notin joinable

NoBuildOnceTornDown ==
  tornDown => stopRequested /\ \A t \in Threads : pc[t] \notin Building

SessionInv == /\ TypeOK /\ HeldByWorker /\ FreedInOrder
              /\ NoBuildOnceTornDown /\ NoZombieMedia

(* After that teardown no thread brings the session back to life in the eyes *)
(* of the UI: a late reconnect, or the end of Start(), finds the state       *)
(* machine closed.                                                           *)
Live == {"Negotiating", "Streaming", "Reconnecting"}
Condemned == tornDown /\ \A t \in Threads : pc[t] # "toStopping"
NoLateRevival ==
  [][Condemned /\ Condemned' /\ state' \in Live => state \in Live]_vars

(* No std::thread is assigned over while joinable (std::terminate), and a    *)
(* channel is only replaced when its threads are gone.                       *)
NoThreadOverwritten ==
  /\ \A t \in Threads : pc[t] = "build" =>
       "video" \notin joinable /\ Terminated("video")
  /\ \A t \in Threads : pc[t] = "newChannel" =>
       \A c \in ChannelThreads : Terminated(c)

(* A session that reports Streaming, and is not being stopped, has its       *)
(* supervisor: someone will notice that the channel or the picture died.     *)
Supervised ==
  state = "Streaming" /\ ~stopRequested =>
    "adapt" \in joinable /\ ~Terminated("adapt")

(* When Start() has returned and Stop() has run, the state machine rests in  *)
(* Idle or Failed, whichever thread transitioned last, and the next cast may *)
(* start.  One rest more is open to a portal cast, which learns its size     *)
(* only by capturing: stopped before Start()'s first transition, it is left  *)
(* in Connecting by the Stop() of the probe, which finds its work done.      *)
Settled ==
  (pc["starter"] = "returned" /\ stopRequested /\ \A t \in Threads : ~Stopping(t))
    => \/ state \in {"Idle", "Failed"}
       \/ ~sizeKnown /\ state = "Connecting"

(* A Stop() that the owner itself carries out returns, and the session is    *)
(* destroyed: no lock and no join of the teardown waits for ever.            *)
StopReturns ==
  (pc["owner"] = "toStopping" /\ stack["owner"] = <<"release">>) ~> destroyed

(* The same for whichever thread runs the teardown.                          *)
TeardownEnds == \A t \in Threads : (pc[t] = "toStopping") ~> (pc[t] = "toFinal")

(* A cast that was cancelled while it started ends: when Start() has         *)
(* returned and Stop() is done, the state machine is not left in an active   *)
(* state, which would refuse every later cast.                               *)
CancelSettles ==
  (pc["starter"] = "returned" /\ pc["owner"] = "release"
     /\ \A t \in Threads : ~Stopping(t))
    => ~IsActive(state)

(* A failure that stops the session stays one until the last transition,     *)
(* which reports it: "Final transition: Stopping -> Idle (or Stopping ->     *)
(* Failed if error)".  A RequestReconnect that asked for a stop before there *)
(* was one clears it in between, and the cast ends in Idle without a reason. *)
FailureKept ==
  [][failRequested /\ stopRequested => failRequested' \/ pc["starter"] = "start"]_vars
=============================================================================
