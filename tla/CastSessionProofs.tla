-------------------------- MODULE CastSessionProofs --------------------------
(* Theorems about CastSession, for every set of channel threads and every    *)
(* kind of failure.  Where it says ~EarlyStop, the owner stops no session    *)
(* that Start() has not begun: Start() resets the flag of a stop that is     *)
(* under way, and what follows from that is a finding (CancelSettles).       *)
(*                                                                           *)
(* In order: types, the pipeline (SessionInv), the abstract lifecycle, the   *)
(* stacks and the threads (ThreadInv), supervision (SupervisedInv), and the  *)
(* end of a session (EndInv).                                                *)

EXTENDS CastSession, SequenceTheorems, TLAPS

USE DEF flags, window, media, link, talk, objects, control, OnlyState,
   OnlyControl

-----------------------------------------------------------------------------
(* What the control operators do to the labels.                              *)

LEMMA TransitionType ==
  ASSUME NEW s \in SessionStates, NEW to \in SessionStates
  PROVE  TransitionTo(s, to) \in SessionStates
BY DEF TransitionTo

LEMMA GotoType ==
  ASSUME ControlOK, NEW t \in Threads, NEW l \in Labels, Goto(t, l)
  PROVE  ControlOK'
BY DEF ControlOK, Goto

LEMMA CallType ==
  ASSUME ControlOK, NEW t \in Threads, NEW l \in Labels,
         NEW after \in Seq(Continuations), Call(t, l, after)
  PROVE  ControlOK'
<1>1. after \o stack[t] \in Seq(Continuations)
  BY ConcatProperties DEF ControlOK
<1>2. QED
  BY <1>1 DEF ControlOK, Call

LEMMA ReturnType ==
  ASSUME ControlOK, NEW t \in Threads, Return(t)
  PROVE  ControlOK'
<1>1. Head(stack[t]) \in Continuations /\ Tail(stack[t]) \in Seq(Continuations)
  BY HeadTailProperties DEF ControlOK, Return
<1>2. Continuations \subseteq Labels
  BY DEF Continuations, Labels
<1>3. QED
  BY <1>1, <1>2 DEF ControlOK, Return

LEMMA SpawnType ==
  ASSUME ControlOK, NEW t \in Threads, NEW l \in Labels,
         NEW S \in SUBSET {"adapt", "video", "receive", "heartbeat"},
         Spawn(t, l, S)
  PROVE  ControlOK'
<1>1. \A u \in S : FirstLabel[u] \in Labels
  BY DEF FirstLabel, Labels
<1>2. QED
  BY <1>1 DEF ControlOK, Spawn

LEMMA FailingType ==
  ASSUME NEW t
  PROVE  Failing(t) \in Seq(Continuations)
<1>1. <<"startFailed">> \in Seq(Continuations)
  BY DEF Continuations
<1>2. <<"stopMedia", "disconnect", "loop">> \in Seq(Continuations)
  BY DEF Continuations
<1>3. QED
  BY <1>1, <1>2 DEF Failing

LEMMA FailType ==
  ASSUME ControlOK, NEW t \in Threads, Fail(t)
  PROVE  ControlOK'
<1>1. CASE t = "starter"
  BY <1>1, GotoType DEF Fail, Labels
<1>2. CASE t # "starter"
  <2>1. <<"disconnect", "loop">> \in Seq(Continuations)
    BY DEF Continuations
  <2>2. QED
    BY <1>2, <2>1, CallType DEF Fail, Labels
<1>3. QED
  BY <1>1, <1>2

LEMMA AfterType ==
  /\ <<"returned">> \in Seq(Continuations)
  /\ <<"joinAdapt">> \in Seq(Continuations)
  /\ <<"resetRecovery">> \in Seq(Continuations)
  /\ <<"disconnect", "retry">> \in Seq(Continuations)
  /\ <<"dead">> \in Seq(Continuations)
  /\ <<"loop">> \in Seq(Continuations)
  /\ <<"receive">> \in Seq(Continuations)
  /\ <<"encode">> \in Seq(Continuations)
  /\ <<"own">> \in Seq(Continuations)
  /\ <<"release">> \in Seq(Continuations)
  /\ <<"stopMedia", "destroyAdapt">> \in Seq(Continuations)
  /\ <<"freed">> \in Seq(Continuations)
BY DEF Continuations

-----------------------------------------------------------------------------
(* Types.                                                                    *)

LEMMA StartType ==
  ASSUME TypeOK, StartSteps
  PROVE  TypeOK'
<1> USE DEF TypeOK
<1>1. CASE StartBegin
  <2>1. ControlOK'
    BY <1>1, GotoType DEF StartBegin, Labels, Threads
  <2>2. FlagsOK'
    <3>1. /\ stopRequested' \in BOOLEAN
          /\ failRequested' \in BOOLEAN
          /\ isStreaming' \in BOOLEAN
          /\ tornDown' \in BOOLEAN
          /\ launchSent' \in BOOLEAN
          /\ launchReceived' \in BOOLEAN
          /\ answered' \in BOOLEAN
      BY <1>1, Zenon DEF StartBegin, FlagsOK
    <3>2. QED
      BY <1>1, <3>1 DEF StartBegin, FlagsOK
  <2>3. ObjectsOK'
    BY <1>1 DEF StartBegin, ObjectsOK
  <2>4. QED
    BY <2>1, <2>2, <2>3
<1>2. CASE ToConnecting
  <2>1. ControlOK'
    BY <1>2, GotoType DEF ToConnecting, Labels, Threads
  <2>2. FlagsOK'
    BY <1>2 DEF ToConnecting, FlagsOK
  <2>3. ObjectsOK'
    BY <1>2, TransitionType DEF ToConnecting, ObjectsOK, SessionStates
  <2>4. QED
    BY <2>1, <2>2, <2>3
<1>3. CASE OpenCapture
  <2>1. ControlOK'
    BY <1>3, GotoType DEF OpenCapture, Labels, Threads
  <2>2. FlagsOK'
    <3>1. capture' \in BOOLEAN
      BY <1>3, Zenon DEF OpenCapture, FlagsOK
    <3>2. QED
      BY <1>3, <3>1 DEF OpenCapture, FlagsOK
  <2>3. ObjectsOK'
    BY <1>3 DEF OpenCapture, ObjectsOK
  <2>4. QED
    BY <2>1, <2>2, <2>3
<1>4. CASE AwaitFirstFrame
  <2>1. ControlOK'
    BY <1>4, GotoType, CallType, AfterType DEF AwaitFirstFrame, Labels, Threads
  <2>2. FlagsOK'
    BY <1>4 DEF AwaitFirstFrame, FlagsOK
  <2>3. ObjectsOK'
    BY <1>4 DEF AwaitFirstFrame, ObjectsOK
  <2>4. QED
    BY <2>1, <2>2, <2>3
<1>5. CASE StartFailed
  <2>1. ControlOK'
    BY <1>5, CallType, AfterType DEF StartFailed, Labels, Threads
  <2>2. FlagsOK'
    BY <1>5 DEF StartFailed, FlagsOK
  <2>3. ObjectsOK'
    BY <1>5, TransitionType DEF StartFailed, ObjectsOK, SessionStates
  <2>4. QED
    BY <2>1, <2>2, <2>3
<1>6. CASE StartSucceeded
  <2>1. ControlOK'
    BY <1>6, GotoType DEF StartSucceeded, Labels, Threads
  <2>2. FlagsOK'
    BY <1>6 DEF StartSucceeded, FlagsOK
  <2>3. ObjectsOK'
    BY <1>6, TransitionType DEF StartSucceeded, ObjectsOK, SessionStates
  <2>4. QED
    BY <2>1, <2>2, <2>3
<1>7. QED
  BY <1>1, <1>2, <1>3, <1>4, <1>5, <1>6 DEF StartSteps

LEMMA NegotiateType ==
  ASSUME TypeOK, NEW t \in Threads, NegotiateSteps(t)
  PROVE  TypeOK'
<1> USE DEF TypeOK
<1>1. CASE NewChannel(t)
  <2>1. ControlOK'
    BY <1>1, GotoType DEF NewChannel, Labels, Threads
  <2>2. FlagsOK'
    <3>1. /\ notified' \in BOOLEAN
          /\ connected' \in BOOLEAN
          /\ channelStop' \in BOOLEAN
      BY <1>1, Zenon DEF NewChannel, FlagsOK
    <3>2. QED
      BY <1>1, <3>1 DEF NewChannel, FlagsOK
  <2>3. ObjectsOK'
    BY <1>1, TransitionType DEF NewChannel, ObjectsOK, SessionStates
  <2>4. QED
    BY <2>1, <2>2, <2>3
<1>2. CASE Connect(t)
  <2>1. ControlOK'
    BY <1>2, GotoType DEF Connect, Labels, Threads
  <2>2. FlagsOK'
    <3>1. channelStop' \in BOOLEAN
      BY <1>2, Zenon DEF Connect, FlagsOK
    <3>2. QED
      BY <1>2, <3>1 DEF Connect, FlagsOK
  <2>3. ObjectsOK'
    BY <1>2 DEF Connect, ObjectsOK
  <2>4. QED
    BY <2>1, <2>2, <2>3
<1>3. CASE Connected(t)
  <2>1. ControlOK'
    BY <1>3, FailType, SpawnType, ChannelThreadsAssumption DEF Connected,
       Labels, Threads
  <2>2. FlagsOK'
    <3>1. notified' \in BOOLEAN /\ connected' \in BOOLEAN
      BY <1>3, Zenon DEF Connected, FlagsOK
    <3>2. QED
      BY <1>3, <3>1 DEF Connected, FlagsOK
  <2>3. ObjectsOK'
    BY <1>3 DEF Connected, ObjectsOK
  <2>4. QED
    BY <2>1, <2>2, <2>3
<1>4. CASE Authenticate(t)
  <2>1. ControlOK'
    BY <1>4, GotoType, FailType DEF Authenticate, Labels, Threads
  <2>2. FlagsOK'
    BY <1>4 DEF Authenticate, FlagsOK
  <2>3. ObjectsOK'
    BY <1>4, TransitionType DEF Authenticate, ObjectsOK, SessionStates, Phase
  <2>4. QED
    BY <2>1, <2>2, <2>3
<1>5. CASE Launch(t)
  <2>1. ControlOK'
    BY <1>5, GotoType DEF Launch, Labels, Threads
  <2>2. FlagsOK'
    <3>1. launchReceived' \in BOOLEAN /\ answered' \in BOOLEAN
      BY <1>5, Zenon DEF Launch, FlagsOK
    <3>2. QED
      BY <1>5, <3>1 DEF Launch, FlagsOK
  <2>3. ObjectsOK'
    BY <1>5, TransitionType DEF Launch, ObjectsOK, SessionStates, Phase
  <2>4. QED
    BY <2>1, <2>2, <2>3
<1>6. CASE AwaitLaunch(t)
  <2>1. ControlOK'
    BY <1>6, GotoType, FailType DEF AwaitLaunch, Labels, Threads
  <2>2. FlagsOK'
    BY <1>6 DEF AwaitLaunch, FlagsOK
  <2>3. ObjectsOK'
    BY <1>6 DEF AwaitLaunch, ObjectsOK
  <2>4. QED
    BY <2>1, <2>2, <2>3
<1>7. CASE SendOffer(t)
  <2>1. ControlOK'
    BY <1>7, GotoType DEF SendOffer, Labels, Threads
  <2>2. FlagsOK'
    BY <1>7 DEF SendOffer, FlagsOK
  <2>3. ObjectsOK'
    BY <1>7, TransitionType DEF SendOffer, ObjectsOK, SessionStates, Phase
  <2>4. QED
    BY <2>1, <2>2, <2>3
<1>8. CASE AwaitAnswer(t)
  <2>1. ControlOK'
    BY <1>8, GotoType, FailType DEF AwaitAnswer, Labels, Threads
  <2>2. FlagsOK'
    BY <1>8 DEF AwaitAnswer, FlagsOK
  <2>3. ObjectsOK'
    BY <1>8 DEF AwaitAnswer, ObjectsOK
  <2>4. QED
    BY <2>1, <2>2, <2>3
<1>9. QED
  BY <1>1, <1>2, <1>3, <1>4, <1>5, <1>6, <1>7, <1>8 DEF NegotiateSteps

LEMMA PipelineType ==
  ASSUME TypeOK, NEW t \in Threads, PipelineSteps(t)
  PROVE  TypeOK'
<1> USE DEF TypeOK
<1>1. CASE LockPipeline(t)
  <2>1. ControlOK'
    BY <1>1, GotoType, FailType DEF LockPipeline, Labels, Threads
  <2>2. FlagsOK'
    BY <1>1 DEF LockPipeline, FlagsOK
  <2>3. ObjectsOK'
    BY <1>1 DEF LockPipeline, ObjectsOK
  <2>4. QED
    BY <2>1, <2>2, <2>3
<1>2. CASE Build(t)
  <2>1. ControlOK'
    BY <1>2, CallType, FailingType, SpawnType DEF Build, AbandonPipeline,
       Labels, Threads
  <2>2. FlagsOK'
    <3>1. isStreaming' \in BOOLEAN /\ capture' \in BOOLEAN
      BY <1>2, Zenon DEF Build, AbandonPipeline, FlagsOK
    <3>2. QED
      BY <1>2, <3>1 DEF Build, AbandonPipeline, FlagsOK
  <2>3. ObjectsOK'
    BY <1>2 DEF Build, AbandonPipeline, ObjectsOK
  <2>4. QED
    BY <2>1, <2>2, <2>3
<1>3. CASE StartCapture(t)
  <2>1. ControlOK'
    BY <1>3, GotoType, CallType, FailingType DEF StartCapture,
       AbandonPipeline, Labels, Threads
  <2>2. FlagsOK'
    <3>1. isStreaming' \in BOOLEAN /\ capture' \in BOOLEAN
      BY <1>3, Zenon DEF StartCapture, AbandonPipeline, FlagsOK
    <3>2. QED
      BY <1>3, <3>1 DEF StartCapture, AbandonPipeline, FlagsOK
  <2>3. ObjectsOK'
    BY <1>3 DEF StartCapture, AbandonPipeline, ObjectsOK
  <2>4. QED
    BY <2>1, <2>2, <2>3
<1>4. CASE CheckCapture(t)
  <2>1. ControlOK'
    BY <1>4, SpawnType DEF CheckCapture, Succeeding, Labels, Threads
  <2>2. FlagsOK'
    BY <1>4 DEF CheckCapture, Succeeding, FlagsOK
  <2>3. ObjectsOK'
    BY <1>4 DEF CheckCapture, Succeeding, ObjectsOK
  <2>4. QED
    BY <2>1, <2>2, <2>3
<1>5. QED
  BY <1>1, <1>2, <1>3, <1>4 DEF PipelineSteps

LEMMA TeardownType ==
  ASSUME TypeOK, NEW t \in Threads, TeardownSteps(t)
  PROVE  TypeOK'
<1> USE DEF TypeOK
<1>1. CASE StopMedia(t)
  <2>1. ControlOK'
    BY <1>1, GotoType DEF StopMedia, Labels, Threads
  <2>2. FlagsOK'
    <3>1. isStreaming' \in BOOLEAN /\ capture' \in BOOLEAN
      BY <1>1, Zenon DEF StopMedia, FlagsOK
    <3>2. QED
      BY <1>1, <3>1 DEF StopMedia, FlagsOK
  <2>3. ObjectsOK'
    BY <1>1 DEF StopMedia, ObjectsOK
  <2>4. QED
    BY <2>1, <2>2, <2>3
<1>2. CASE JoinVideo(t)
  <2>1. ControlOK'
    BY <1>2, GotoType DEF JoinVideo, Labels, Threads
  <2>2. FlagsOK'
    BY <1>2 DEF JoinVideo, FlagsOK
  <2>3. ObjectsOK'
    BY <1>2 DEF JoinVideo, ObjectsOK
  <2>4. QED
    BY <2>1, <2>2, <2>3
<1>3. CASE FreeMedia(t)
  <2>1. ControlOK'
    BY <1>3, ReturnType DEF FreeMedia, Labels, Threads
  <2>2. FlagsOK'
    <3>1. built' \in BOOLEAN
      BY <1>3, Zenon DEF FreeMedia, FlagsOK
    <3>2. QED
      BY <1>3, <3>1 DEF FreeMedia, FlagsOK
  <2>3. ObjectsOK'
    BY <1>3 DEF FreeMedia, ObjectsOK
  <2>4. QED
    BY <2>1, <2>2, <2>3
<1>4. QED
  BY <1>1, <1>2, <1>3 DEF TeardownSteps

LEMMA StopType ==
  ASSUME TypeOK, NEW t \in Threads, StopSteps(t)
  PROVE  TypeOK'
<1> USE DEF TypeOK
<1>1. CASE StopOnce(t)
  <2>1. ControlOK'
    BY <1>1, GotoType, ReturnType DEF StopOnce, Labels, Threads
  <2>2. FlagsOK'
    BY <1>1 DEF StopOnce, FlagsOK
  <2>3. ObjectsOK'
    BY <1>1 DEF StopOnce, ObjectsOK
  <2>4. QED
    BY <2>1, <2>2, <2>3
<1>2. CASE ToStopping(t)
  <2>1. ControlOK'
    BY <1>2, CallType, AfterType DEF ToStopping, Labels, Threads
  <2>2. FlagsOK'
    BY <1>2 DEF ToStopping, FlagsOK
  <2>3. ObjectsOK'
    BY <1>2, TransitionType DEF ToStopping, ObjectsOK, SessionStates
  <2>4. QED
    BY <2>1, <2>2, <2>3
<1>3. CASE JoinAdapt(t)
  <2>1. ControlOK'
    BY <1>3, CallType, AfterType DEF JoinAdapt, Labels, Threads
  <2>2. FlagsOK'
    BY <1>3 DEF JoinAdapt, FlagsOK
  <2>3. ObjectsOK'
    BY <1>3 DEF JoinAdapt, ObjectsOK
  <2>4. QED
    BY <2>1, <2>2, <2>3
<1>4. CASE ResetRecovery(t)
  <2>1. ControlOK'
    BY <1>4, GotoType DEF ResetRecovery, Labels, Threads
  <2>2. FlagsOK'
    <3>1. recovering' \in BOOLEAN /\ windowExpired' \in BOOLEAN
      BY <1>4, Zenon DEF ResetRecovery, FlagsOK
    <3>2. QED
      BY <1>4, <3>1 DEF ResetRecovery, FlagsOK
  <2>3. ObjectsOK'
    BY <1>4 DEF ResetRecovery, ObjectsOK
  <2>4. QED
    BY <2>1, <2>2, <2>3
<1>5. CASE ToFinal(t)
  <2>1. ControlOK'
    BY <1>5, ReturnType DEF ToFinal, Labels, Threads
  <2>2. FlagsOK'
    BY <1>5 DEF ToFinal, FlagsOK
  <2>3. ObjectsOK'
    BY <1>5, TransitionType DEF ToFinal, ObjectsOK, SessionStates
  <2>4. QED
    BY <2>1, <2>2, <2>3
<1>6. QED
  BY <1>1, <1>2, <1>3, <1>4, <1>5 DEF StopSteps

LEMMA ReconnectType ==
  ASSUME TypeOK, NEW t \in Threads, ReconnectSteps(t)
  PROVE  TypeOK'
<1> USE DEF TypeOK
<1>1. CASE FailSession(t)
  <2>1. ControlOK'
    BY <1>1, GotoType, ReturnType DEF FailSession, Labels, Threads
  <2>2. FlagsOK'
    BY <1>1 DEF FailSession, FlagsOK
  <2>3. ObjectsOK'
    BY <1>1 DEF FailSession, ObjectsOK
  <2>4. QED
    BY <2>1, <2>2, <2>3
<1>2. CASE MarkFailed(t)
  <2>1. ControlOK'
    BY <1>2, GotoType DEF MarkFailed, Labels, Threads
  <2>2. FlagsOK'
    BY <1>2 DEF MarkFailed, FlagsOK
  <2>3. ObjectsOK'
    BY <1>2 DEF MarkFailed, ObjectsOK
  <2>4. QED
    BY <2>1, <2>2, <2>3
<1>3. CASE RequestReconnect(t)
  <2>1. ControlOK'
    BY <1>3, GotoType, ReturnType DEF RequestReconnect, Labels, Threads
  <2>2. FlagsOK'
    BY <1>3 DEF RequestReconnect, FlagsOK
  <2>3. ObjectsOK'
    BY <1>3 DEF RequestReconnect, ObjectsOK
  <2>4. QED
    BY <2>1, <2>2, <2>3
<1>4. CASE OpenWindow(t)
  <2>1. ControlOK'
    BY <1>4, GotoType, ReturnType DEF OpenWindow, Labels, Threads
  <2>2. FlagsOK'
    <3>1. windowExpired' \in BOOLEAN /\ recovering' \in BOOLEAN
      BY <1>4, Zenon DEF OpenWindow, FlagsOK
    <3>2. QED
      BY <1>4, <3>1 DEF OpenWindow, FlagsOK
  <2>3. ObjectsOK'
    BY <1>4 DEF OpenWindow, ObjectsOK
  <2>4. QED
    BY <2>1, <2>2, <2>3
<1>5. CASE ClearFlags(t)
  <2>1. ControlOK'
    BY <1>5, GotoType DEF ClearFlags, Labels, Threads
  <2>2. FlagsOK'
    <3>1. mediaStopped' \in BOOLEAN /\ failRequested' \in BOOLEAN
      BY <1>5, Zenon DEF ClearFlags, FlagsOK
    <3>2. QED
      BY <1>5, <3>1 DEF ClearFlags, FlagsOK
  <2>3. ObjectsOK'
    BY <1>5 DEF ClearFlags, ObjectsOK
  <2>4. QED
    BY <2>1, <2>2, <2>3
<1>6. CASE ToReconnecting(t)
  <2>1. ControlOK'
    BY <1>6, GotoType, ReturnType DEF ToReconnecting, Labels, Threads
  <2>2. FlagsOK'
    BY <1>6 DEF ToReconnecting, FlagsOK
  <2>3. ObjectsOK'
    BY <1>6 DEF ToReconnecting, ObjectsOK, SessionStates
  <2>4. QED
    BY <2>1, <2>2, <2>3
<1>7. QED
  BY <1>1, <1>2, <1>3, <1>4, <1>5, <1>6 DEF ReconnectSteps

LEMMA DisconnectType ==
  ASSUME TypeOK, NEW t \in Threads, DisconnectSteps(t)
  PROVE  TypeOK'
<1> USE DEF TypeOK
<1>1. CASE Disconnect(t)
  <2>1. ControlOK'
    BY <1>1, GotoType DEF Disconnect, Labels, Threads
  <2>2. FlagsOK'
    <3>1. connected' \in BOOLEAN
      BY <1>1, Zenon DEF Disconnect, FlagsOK
    <3>2. QED
      BY <1>1, <3>1 DEF Disconnect, FlagsOK
  <2>3. ObjectsOK'
    BY <1>1 DEF Disconnect, ObjectsOK
  <2>4. QED
    BY <2>1, <2>2, <2>3
<1>2. CASE NoChannel(t)
  <2>1. ControlOK'
    BY <1>2, ReturnType DEF NoChannel, Labels, Threads
  <2>2. FlagsOK'
    BY <1>2 DEF NoChannel, FlagsOK
  <2>3. ObjectsOK'
    BY <1>2 DEF NoChannel, ObjectsOK
  <2>4. QED
    BY <2>1, <2>2, <2>3
<1>3. CASE LockChannel(t)
  <2>1. ControlOK'
    BY <1>3, GotoType DEF LockChannel, Labels, Threads
  <2>2. FlagsOK'
    BY <1>3 DEF LockChannel, FlagsOK
  <2>3. ObjectsOK'
    BY <1>3 DEF LockChannel, ObjectsOK
  <2>4. QED
    BY <2>1, <2>2, <2>3
<1>4. CASE JoinChannel(t)
  <2>1. ControlOK'
    BY <1>4, GotoType DEF JoinChannel, Labels, Threads
  <2>2. FlagsOK'
    BY <1>4 DEF JoinChannel, FlagsOK
  <2>3. ObjectsOK'
    BY <1>4 DEF JoinChannel, ObjectsOK
  <2>4. QED
    BY <2>1, <2>2, <2>3
<1>5. CASE Notify(t)
  <2>1. ControlOK'
    BY <1>5, GotoType, ReturnType DEF Notify, Labels, Threads
  <2>2. FlagsOK'
    BY <1>5 DEF Notify, FlagsOK
  <2>3. ObjectsOK'
    BY <1>5 DEF Notify, ObjectsOK
  <2>4. QED
    BY <2>1, <2>2, <2>3
<1>6. QED
  BY <1>1, <1>2, <1>3, <1>4, <1>5 DEF DisconnectSteps

LEMMA AdaptType ==
  ASSUME TypeOK, AdaptSteps
  PROVE  TypeOK'
<1> USE DEF TypeOK
<1>1. CASE Loop
  <2>1. ControlOK'
    BY <1>1, GotoType DEF Loop, Labels, Threads
  <2>2. FlagsOK'
    BY <1>1 DEF Loop, FlagsOK
  <2>3. ObjectsOK'
    BY <1>1 DEF Loop, ObjectsOK
  <2>4. QED
    BY <2>1, <2>2, <2>3
<1>2. CASE DropMedia
  <2>1. ControlOK'
    BY <1>2, GotoType, CallType, AfterType DEF DropMedia, Labels, Threads
  <2>2. FlagsOK'
    BY <1>2 DEF DropMedia, FlagsOK
  <2>3. ObjectsOK'
    BY <1>2 DEF DropMedia, ObjectsOK
  <2>4. QED
    BY <2>1, <2>2, <2>3
<1>3. CASE Retry
  <2>1. ControlOK'
    BY <1>3, GotoType, CallType, AfterType DEF Retry, Labels, Threads
  <2>2. FlagsOK'
    BY <1>3 DEF Retry, FlagsOK
  <2>3. ObjectsOK'
    BY <1>3, TransitionType DEF Retry, ObjectsOK, SessionStates
  <2>4. QED
    BY <2>1, <2>2, <2>3
<1>4. CASE Backoff
  <2>1. ControlOK'
    BY <1>4, GotoType DEF Backoff, Labels, Threads
  <2>2. FlagsOK'
    <3>1. failRequested' \in BOOLEAN
      BY <1>4, Zenon DEF Backoff, FlagsOK
    <3>2. QED
      BY <1>4, <3>1 DEF Backoff, FlagsOK
  <2>3. ObjectsOK'
    BY <1>4 DEF Backoff, ObjectsOK
  <2>4. QED
    BY <2>1, <2>2, <2>3
<1>5. CASE Recovered
  <2>1. ControlOK'
    BY <1>5, GotoType DEF Recovered, Labels, Threads
  <2>2. FlagsOK'
    <3>1. recovering' \in BOOLEAN /\ windowExpired' \in BOOLEAN
      BY <1>5, Zenon DEF Recovered, FlagsOK
    <3>2. QED
      BY <1>5, <3>1 DEF Recovered, FlagsOK
  <2>3. ObjectsOK'
    BY <1>5 DEF Recovered, ObjectsOK
  <2>4. QED
    BY <2>1, <2>2, <2>3
<1>6. CASE Rearm
  <2>1. ControlOK'
    BY <1>6, GotoType DEF Rearm, Labels, Threads
  <2>2. FlagsOK'
    <3>1. mediaStopped' \in BOOLEAN
      BY <1>6, Zenon DEF Rearm, FlagsOK
    <3>2. QED
      BY <1>6, <3>1 DEF Rearm, FlagsOK
  <2>3. ObjectsOK'
    BY <1>6 DEF Rearm, ObjectsOK
  <2>4. QED
    BY <2>1, <2>2, <2>3
<1>7. CASE Resume
  <2>1. ControlOK'
    BY <1>7, GotoType DEF Resume, Labels, Threads
  <2>2. FlagsOK'
    BY <1>7 DEF Resume, FlagsOK
  <2>3. ObjectsOK'
    BY <1>7, TransitionType DEF Resume, ObjectsOK, SessionStates
  <2>4. QED
    BY <2>1, <2>2, <2>3
<1>8. CASE Tick
  <2>1. ControlOK'
    BY <1>8, GotoType, CallType, AfterType DEF Tick, Labels, Threads
  <2>2. FlagsOK'
    BY <1>8 DEF Tick, FlagsOK
  <2>3. ObjectsOK'
    BY <1>8 DEF Tick, ObjectsOK
  <2>4. QED
    BY <2>1, <2>2, <2>3
<1>9. QED
  BY <1>1, <1>2, <1>3, <1>4, <1>5, <1>6, <1>7, <1>8 DEF AdaptSteps

LEMMA ChannelType ==
  ASSUME TypeOK, NEW t \in ChannelThreads, ChannelSteps(t)
  PROVE  TypeOK'
<1> USE DEF TypeOK
<1>1. CASE ChannelExit(t)
  <2>1. ControlOK'
    BY <1>1, GotoType DEF ChannelExit, Labels, Threads
  <2>2. FlagsOK'
    BY <1>1 DEF ChannelExit, FlagsOK
  <2>3. ObjectsOK'
    BY <1>1 DEF ChannelExit, ObjectsOK
  <2>4. QED
    BY <2>1, <2>2, <2>3
<1>2. CASE NotifyLost(t)
  <2>1. ControlOK'
    BY <1>2, GotoType, CallType, AfterType DEF NotifyLost, Labels, Threads
  <2>2. FlagsOK'
    BY <1>2 DEF NotifyLost, FlagsOK
  <2>3. ObjectsOK'
    BY <1>2 DEF NotifyLost, ObjectsOK
  <2>4. QED
    BY <2>1, <2>2, <2>3
<1>3. QED
  BY <1>1, <1>2 DEF ChannelSteps

LEMMA OwnerType ==
  ASSUME TypeOK, OwnerSteps
  PROVE  TypeOK'
<1> USE DEF TypeOK
<1>1. CASE Release
  <2>1. ControlOK'
    BY <1>1, CallType, AfterType DEF Release, Labels, Threads
  <2>2. FlagsOK'
    BY <1>1 DEF Release, FlagsOK
  <2>3. ObjectsOK'
    BY <1>1 DEF Release, ObjectsOK
  <2>4. QED
    BY <2>1, <2>2, <2>3
<1>2. CASE DestroyAdapt
  <2>1. ControlOK'
    BY <1>2, CallType, AfterType DEF DestroyAdapt, Labels, Threads
  <2>2. FlagsOK'
    BY <1>2 DEF DestroyAdapt, FlagsOK
  <2>3. ObjectsOK'
    BY <1>2 DEF DestroyAdapt, ObjectsOK
  <2>4. QED
    BY <2>1, <2>2, <2>3
<1>3. CASE Destroyed
  <2>1. ControlOK'
    BY <1>3, GotoType DEF Destroyed, Labels, Threads
  <2>2. FlagsOK'
    BY <1>3 DEF Destroyed, FlagsOK
  <2>3. ObjectsOK'
    BY <1>3 DEF Destroyed, ObjectsOK
  <2>4. QED
    BY <2>1, <2>2, <2>3
<1>4. QED
  BY <1>1, <1>2, <1>3 DEF OwnerSteps

LEMMA EventType ==
  ASSUME TypeOK, NEW t \in ChannelThreads, ChannelEvents(t)
  PROVE  TypeOK'
<1> USE DEF TypeOK
<1>1. CASE ReceiverStatus(t)
  <2>1. ControlOK'
    BY <1>1 DEF ReceiverStatus, ControlOK, Labels, Threads
  <2>2. FlagsOK'
    BY <1>1 DEF ReceiverStatus, ControlOK, FlagsOK
  <2>3. ObjectsOK'
    BY <1>1 DEF ReceiverStatus, ControlOK, ObjectsOK
  <2>4. QED
    BY <2>1, <2>2, <2>3
<1>2. CASE WebrtcAnswer(t)
  <2>1. ControlOK'
    BY <1>2 DEF WebrtcAnswer, ControlOK, Labels, Threads
  <2>2. FlagsOK'
    BY <1>2 DEF WebrtcAnswer, ControlOK, FlagsOK
  <2>3. ObjectsOK'
    BY <1>2 DEF WebrtcAnswer, ControlOK, ObjectsOK
  <2>4. QED
    BY <2>1, <2>2, <2>3
<1>3. CASE CloseMessage(t)
  <2>1. ControlOK'
    BY <1>3, CallType, AfterType DEF CloseMessage, Labels, Threads
  <2>2. FlagsOK'
    BY <1>3 DEF CloseMessage, FlagsOK
  <2>3. ObjectsOK'
    BY <1>3 DEF CloseMessage, ObjectsOK
  <2>4. QED
    BY <2>1, <2>2, <2>3
<1>4. CASE ConnectionLost(t)
  <2>1. ControlOK'
    BY <1>4, GotoType DEF ConnectionLost, Labels, Threads
  <2>2. FlagsOK'
    <3>1. connected' \in BOOLEAN
      BY <1>4, Zenon DEF ConnectionLost, FlagsOK
    <3>2. QED
      BY <1>4, <3>1 DEF ConnectionLost, FlagsOK
  <2>3. ObjectsOK'
    BY <1>4 DEF ConnectionLost, ObjectsOK
  <2>4. QED
    BY <2>1, <2>2, <2>3
<1>5. QED
  BY <1>1, <1>2, <1>3, <1>4 DEF ChannelEvents

LEMMA OtherType ==
  ASSUME TypeOK,
     EncodeExit \/ SourceLost \/ OwnerStops \/ SetBitrate \/ WindowExpires
  PROVE  TypeOK'
<1> USE DEF TypeOK
<1>1. CASE EncodeExit
  <2>1. ControlOK'
    BY <1>1, GotoType DEF EncodeExit, Labels, Threads
  <2>2. FlagsOK'
    BY <1>1 DEF EncodeExit, FlagsOK
  <2>3. ObjectsOK'
    BY <1>1 DEF EncodeExit, ObjectsOK
  <2>4. QED
    BY <2>1, <2>2, <2>3
<1>2. CASE SourceLost
  <2>1. ControlOK'
    BY <1>2, CallType, AfterType DEF SourceLost, Labels, Threads
  <2>2. FlagsOK'
    BY <1>2 DEF SourceLost, FlagsOK
  <2>3. ObjectsOK'
    BY <1>2 DEF SourceLost, ObjectsOK
  <2>4. QED
    BY <2>1, <2>2, <2>3
<1>3. CASE OwnerStops
  <2>1. ControlOK'
    BY <1>3, CallType, AfterType DEF OwnerStops, Labels, Threads
  <2>2. FlagsOK'
    BY <1>3 DEF OwnerStops, FlagsOK
  <2>3. ObjectsOK'
    BY <1>3 DEF OwnerStops, ObjectsOK
  <2>4. QED
    BY <2>1, <2>2, <2>3
<1>4. CASE SetBitrate
  <2>1. ControlOK'
    BY <1>4, CallType, AfterType DEF SetBitrate, Labels, Threads
  <2>2. FlagsOK'
    BY <1>4 DEF SetBitrate, FlagsOK
  <2>3. ObjectsOK'
    BY <1>4 DEF SetBitrate, ObjectsOK
  <2>4. QED
    BY <2>1, <2>2, <2>3
<1>5. CASE WindowExpires
  <2>1. ControlOK'
    BY <1>5 DEF WindowExpires, ControlOK, Labels, Threads
  <2>2. FlagsOK'
    BY <1>5 DEF WindowExpires, ControlOK, FlagsOK
  <2>3. ObjectsOK'
    BY <1>5 DEF WindowExpires, ControlOK, ObjectsOK
  <2>4. QED
    BY <2>1, <2>2, <2>3
<1>6. QED
  BY <1>1, <1>2, <1>3, <1>4, <1>5

LEMMA InitType == Init => TypeOK
<1>1. Init => FlagsOK
  BY Zenon DEF Init, FlagsOK
<1>2. Init => ObjectsOK
  BY DEF Init, ObjectsOK, SessionStates
<1>3. Init => ControlOK
  BY DEF Init, ControlOK, Labels
<1>4. QED
  BY <1>1, <1>2, <1>3 DEF TypeOK

LEMMA NextType == TypeOK /\ [Next]_vars => TypeOK'
<1> SUFFICES ASSUME TypeOK, [Next]_vars PROVE TypeOK'
  OBVIOUS
<1>1. CASE Environment
  BY <1>1, EventType, OtherType DEF Environment
<1>2. ASSUME NEW t \in Threads, Step(t) PROVE TypeOK'
  BY <1>2, StartType, NegotiateType, PipelineType, TeardownType, StopType,
     ReconnectType, DisconnectType, AdaptType, ChannelType, OwnerType, OtherType
     DEF Step
<1>3. CASE UNCHANGED vars
  BY <1>3 DEF vars, TypeOK, FlagsOK, ObjectsOK, ControlOK
<1>4. QED
  BY <1>1, <1>2, <1>3 DEF Next

(* Every variable keeps its type, whatever interleaving of the threads runs. *)
THEOREM TypeInvariant == Spec => []TypeOK
BY InitType, NextType, PTL DEF Spec

-----------------------------------------------------------------------------
(* Steps that leave the pipeline alone.                                      *)

ControlQuiet ==
  \A u \in Threads : pc'[u] \in Building \cup Freeing => pc'[u] = pc[u]

Quiet ==
  /\ UNCHANGED <<isStreaming, built, pipelineMutex, tornDown, sizeKnown>>
  /\ sizeKnown => capture' = capture
  /\ stopRequested => stopRequested'
  /\ "video" \in joinable' => "video" \in joinable
  /\ ControlQuiet

LEMMA GotoQuiet ==
  ASSUME ControlOK, NEW t \in Threads, NEW l, l \notin Building \cup Freeing,
         Goto(t, l)
  PROVE  ControlQuiet
BY DEF ControlOK, Goto, ControlQuiet

LEMMA CallQuiet ==
  ASSUME ControlOK, NEW t \in Threads, NEW l, l \notin Building \cup Freeing,
         NEW after, Call(t, l, after)
  PROVE  ControlQuiet
BY DEF ControlOK, Call, ControlQuiet

LEMMA ReturnQuiet ==
  ASSUME ControlOK, NEW t \in Threads, Return(t)
  PROVE  ControlQuiet
<1>1. Head(stack[t]) \in Continuations
  BY HeadTailProperties DEF ControlOK, Return
<1>2. QED
  BY <1>1 DEF ControlOK, Return, ControlQuiet, Continuations, Building, Freeing

LEMMA SpawnQuiet ==
  ASSUME ControlOK, NEW t \in Threads, NEW l, l \notin Building \cup Freeing,
         NEW S \in SUBSET {"adapt", "video", "receive", "heartbeat"},
         Spawn(t, l, S)
  PROVE  ControlQuiet
<1>1. \A u \in S : FirstLabel[u] \notin Building \cup Freeing
  BY DEF FirstLabel, Building, Freeing
<1>2. QED
  BY <1>1 DEF ControlOK, Spawn, ControlQuiet

LEMMA FailQuiet ==
  ASSUME ControlOK, NEW t \in Threads, Fail(t)
  PROVE  ControlQuiet
BY GotoQuiet, CallQuiet DEF Fail, Building, Freeing

LEMMA StartQuiet ==
  ASSUME TypeOK, StartSteps, ~StartBegin
  PROVE  Quiet
<1> USE DEF TypeOK
<1>1. CASE ToConnecting
  <2>1. ControlQuiet
    BY <1>1, GotoQuiet DEF ToConnecting, Threads, Building, Freeing
  <2>2. QED
    BY <1>1, <2>1 DEF ToConnecting, Quiet
<1>2. CASE OpenCapture
  <2>1. ControlQuiet
    BY <1>2, GotoQuiet DEF OpenCapture, Threads, Building, Freeing
  <2>2. QED
    BY <1>2, <2>1 DEF OpenCapture, Quiet
<1>3. CASE AwaitFirstFrame
  <2>1. ControlQuiet
    BY <1>3, GotoQuiet, CallQuiet DEF AwaitFirstFrame, Threads, Building,
       Freeing
  <2>2. QED
    BY <1>3, <2>1 DEF AwaitFirstFrame, Quiet
<1>4. CASE StartFailed
  <2>1. ControlQuiet
    BY <1>4, CallQuiet DEF StartFailed, Threads, Building, Freeing
  <2>2. QED
    BY <1>4, <2>1 DEF StartFailed, Quiet
<1>5. CASE StartSucceeded
  <2>1. ControlQuiet
    BY <1>5, GotoQuiet DEF StartSucceeded, Threads, Building, Freeing
  <2>2. QED
    BY <1>5, <2>1 DEF StartSucceeded, Quiet
<1>6. QED
  BY <1>1, <1>2, <1>3, <1>4, <1>5 DEF StartSteps

LEMMA NegotiateQuiet ==
  ASSUME TypeOK, NEW t \in Threads, NegotiateSteps(t)
  PROVE  Quiet
<1> USE DEF TypeOK
<1>1. CASE NewChannel(t)
  <2>1. ControlQuiet
    BY <1>1, GotoQuiet DEF NewChannel, Threads, Building, Freeing
  <2>2. QED
    BY <1>1, <2>1 DEF NewChannel, Quiet
<1>2. CASE Connect(t)
  <2>1. ControlQuiet
    BY <1>2, GotoQuiet DEF Connect, Threads, Building, Freeing
  <2>2. QED
    BY <1>2, <2>1 DEF Connect, Quiet
<1>3. CASE Connected(t)
  <2>1. ControlQuiet
    BY <1>3, FailQuiet, SpawnQuiet, ChannelThreadsAssumption DEF Connected,
       Threads, Building, Freeing
  <2>2. QED
    BY <1>3, <2>1 DEF Connected, Quiet
<1>4. CASE Authenticate(t)
  <2>1. ControlQuiet
    BY <1>4, GotoQuiet, FailQuiet DEF Authenticate, Threads, Building, Freeing
  <2>2. QED
    BY <1>4, <2>1 DEF Authenticate, Quiet
<1>5. CASE Launch(t)
  <2>1. ControlQuiet
    BY <1>5, GotoQuiet DEF Launch, Threads, Building, Freeing
  <2>2. QED
    BY <1>5, <2>1 DEF Launch, Quiet
<1>6. CASE AwaitLaunch(t)
  <2>1. ControlQuiet
    BY <1>6, GotoQuiet, FailQuiet DEF AwaitLaunch, Threads, Building, Freeing
  <2>2. QED
    BY <1>6, <2>1 DEF AwaitLaunch, Quiet
<1>7. CASE SendOffer(t)
  <2>1. ControlQuiet
    BY <1>7, GotoQuiet DEF SendOffer, Threads, Building, Freeing
  <2>2. QED
    BY <1>7, <2>1 DEF SendOffer, Quiet
<1>8. CASE AwaitAnswer(t)
  <2>1. ControlQuiet
    BY <1>8, GotoQuiet, FailQuiet DEF AwaitAnswer, Threads, Building, Freeing
  <2>2. QED
    BY <1>8, <2>1 DEF AwaitAnswer, Quiet
<1>9. QED
  BY <1>1, <1>2, <1>3, <1>4, <1>5, <1>6, <1>7, <1>8 DEF NegotiateSteps

LEMMA StopQuiet ==
  ASSUME TypeOK, NEW t \in Threads, StopSteps(t)
  PROVE  Quiet
<1> USE DEF TypeOK
<1>1. CASE StopOnce(t)
  <2>1. ControlQuiet
    BY <1>1, GotoQuiet, ReturnQuiet DEF StopOnce, Threads, Building, Freeing
  <2>2. QED
    BY <1>1, <2>1 DEF StopOnce, Quiet
<1>2. CASE ToStopping(t)
  <2>1. ControlQuiet
    BY <1>2, CallQuiet DEF ToStopping, Threads, Building, Freeing
  <2>2. QED
    BY <1>2, <2>1 DEF ToStopping, Quiet
<1>3. CASE JoinAdapt(t)
  <2>1. ControlQuiet
    BY <1>3, CallQuiet DEF JoinAdapt, Threads, Building, Freeing
  <2>2. QED
    BY <1>3, <2>1 DEF JoinAdapt, Quiet
<1>4. CASE ResetRecovery(t)
  <2>1. ControlQuiet
    BY <1>4, GotoQuiet DEF ResetRecovery, Threads, Building, Freeing
  <2>2. QED
    BY <1>4, <2>1 DEF ResetRecovery, Quiet
<1>5. CASE ToFinal(t)
  <2>1. ControlQuiet
    BY <1>5, ReturnQuiet DEF ToFinal, Threads, Building, Freeing
  <2>2. QED
    BY <1>5, <2>1 DEF ToFinal, Quiet
<1>6. QED
  BY <1>1, <1>2, <1>3, <1>4, <1>5 DEF StopSteps

LEMMA ReconnectQuiet ==
  ASSUME TypeOK, NEW t \in Threads, ReconnectSteps(t)
  PROVE  Quiet
<1> USE DEF TypeOK
<1>1. CASE FailSession(t)
  <2>1. ControlQuiet
    BY <1>1, GotoQuiet, ReturnQuiet DEF FailSession, Threads, Building, Freeing
  <2>2. QED
    BY <1>1, <2>1 DEF FailSession, Quiet
<1>2. CASE MarkFailed(t)
  <2>1. ControlQuiet
    BY <1>2, GotoQuiet DEF MarkFailed, Threads, Building, Freeing
  <2>2. QED
    BY <1>2, <2>1 DEF MarkFailed, Quiet
<1>3. CASE RequestReconnect(t)
  <2>1. ControlQuiet
    BY <1>3, GotoQuiet, ReturnQuiet DEF RequestReconnect, Threads, Building,
       Freeing
  <2>2. QED
    BY <1>3, <2>1 DEF RequestReconnect, Quiet
<1>4. CASE OpenWindow(t)
  <2>1. ControlQuiet
    BY <1>4, GotoQuiet, ReturnQuiet DEF OpenWindow, Threads, Building, Freeing
  <2>2. QED
    BY <1>4, <2>1 DEF OpenWindow, Quiet
<1>5. CASE ClearFlags(t)
  <2>1. ControlQuiet
    BY <1>5, GotoQuiet DEF ClearFlags, Threads, Building, Freeing
  <2>2. QED
    BY <1>5, <2>1 DEF ClearFlags, Quiet
<1>6. CASE ToReconnecting(t)
  <2>1. ControlQuiet
    BY <1>6, GotoQuiet, ReturnQuiet DEF ToReconnecting, Threads, Building,
       Freeing
  <2>2. QED
    BY <1>6, <2>1 DEF ToReconnecting, Quiet
<1>7. QED
  BY <1>1, <1>2, <1>3, <1>4, <1>5, <1>6 DEF ReconnectSteps

LEMMA DisconnectQuiet ==
  ASSUME TypeOK, NEW t \in Threads, DisconnectSteps(t)
  PROVE  Quiet
<1> USE DEF TypeOK
<1>1. CASE Disconnect(t)
  <2>1. ControlQuiet
    BY <1>1, GotoQuiet DEF Disconnect, Threads, Building, Freeing
  <2>2. QED
    BY <1>1, <2>1 DEF Disconnect, Quiet
<1>2. CASE NoChannel(t)
  <2>1. ControlQuiet
    BY <1>2, ReturnQuiet DEF NoChannel, Threads, Building, Freeing
  <2>2. QED
    BY <1>2, <2>1 DEF NoChannel, Quiet
<1>3. CASE LockChannel(t)
  <2>1. ControlQuiet
    BY <1>3, GotoQuiet DEF LockChannel, Threads, Building, Freeing
  <2>2. QED
    BY <1>3, <2>1 DEF LockChannel, Quiet
<1>4. CASE JoinChannel(t)
  <2>1. ControlQuiet
    BY <1>4, GotoQuiet DEF JoinChannel, Threads, Building, Freeing
  <2>2. QED
    BY <1>4, <2>1 DEF JoinChannel, Quiet
<1>5. CASE Notify(t)
  <2>1. ControlQuiet
    BY <1>5, GotoQuiet, ReturnQuiet DEF Notify, Threads, Building, Freeing
  <2>2. QED
    BY <1>5, <2>1 DEF Notify, Quiet
<1>6. QED
  BY <1>1, <1>2, <1>3, <1>4, <1>5 DEF DisconnectSteps

LEMMA AdaptQuiet ==
  ASSUME TypeOK, AdaptSteps
  PROVE  Quiet
<1> USE DEF TypeOK
<1>1. CASE Loop
  <2>1. ControlQuiet
    BY <1>1, GotoQuiet DEF Loop, Threads, Building, Freeing
  <2>2. QED
    BY <1>1, <2>1 DEF Loop, Quiet
<1>2. CASE DropMedia
  <2>1. ControlQuiet
    BY <1>2, GotoQuiet, CallQuiet DEF DropMedia, Threads, Building, Freeing
  <2>2. QED
    BY <1>2, <2>1 DEF DropMedia, Quiet
<1>3. CASE Retry
  <2>1. ControlQuiet
    BY <1>3, GotoQuiet, CallQuiet DEF Retry, Threads, Building, Freeing
  <2>2. QED
    BY <1>3, <2>1 DEF Retry, Quiet
<1>4. CASE Backoff
  <2>1. ControlQuiet
    BY <1>4, GotoQuiet DEF Backoff, Threads, Building, Freeing
  <2>2. QED
    BY <1>4, <2>1 DEF Backoff, Quiet
<1>5. CASE Recovered
  <2>1. ControlQuiet
    BY <1>5, GotoQuiet DEF Recovered, Threads, Building, Freeing
  <2>2. QED
    BY <1>5, <2>1 DEF Recovered, Quiet
<1>6. CASE Rearm
  <2>1. ControlQuiet
    BY <1>6, GotoQuiet DEF Rearm, Threads, Building, Freeing
  <2>2. QED
    BY <1>6, <2>1 DEF Rearm, Quiet
<1>7. CASE Resume
  <2>1. ControlQuiet
    BY <1>7, GotoQuiet DEF Resume, Threads, Building, Freeing
  <2>2. QED
    BY <1>7, <2>1 DEF Resume, Quiet
<1>8. CASE Tick
  <2>1. ControlQuiet
    BY <1>8, GotoQuiet, CallQuiet DEF Tick, Threads, Building, Freeing
  <2>2. QED
    BY <1>8, <2>1 DEF Tick, Quiet
<1>9. QED
  BY <1>1, <1>2, <1>3, <1>4, <1>5, <1>6, <1>7, <1>8 DEF AdaptSteps

LEMMA ChannelQuiet ==
  ASSUME TypeOK, NEW t \in ChannelThreads, ChannelSteps(t)
  PROVE  Quiet
<1> USE DEF TypeOK
<1>1. CASE ChannelExit(t)
  <2>1. ControlQuiet
    BY <1>1, GotoQuiet DEF ChannelExit, Threads, Building, Freeing
  <2>2. QED
    BY <1>1, <2>1 DEF ChannelExit, Quiet
<1>2. CASE NotifyLost(t)
  <2>1. ControlQuiet
    BY <1>2, GotoQuiet, CallQuiet DEF NotifyLost, Threads, Building, Freeing
  <2>2. QED
    BY <1>2, <2>1 DEF NotifyLost, Quiet
<1>3. QED
  BY <1>1, <1>2 DEF ChannelSteps

LEMMA OwnerQuiet ==
  ASSUME TypeOK, OwnerSteps
  PROVE  Quiet
<1> USE DEF TypeOK
<1>1. CASE Release
  <2>1. ControlQuiet
    BY <1>1, CallQuiet DEF Release, Threads, Building, Freeing
  <2>2. QED
    BY <1>1, <2>1 DEF Release, Quiet
<1>2. CASE DestroyAdapt
  <2>1. ControlQuiet
    BY <1>2, CallQuiet DEF DestroyAdapt, Threads, Building, Freeing
  <2>2. QED
    BY <1>2, <2>1 DEF DestroyAdapt, Quiet
<1>3. CASE Destroyed
  <2>1. ControlQuiet
    BY <1>3, GotoQuiet DEF Destroyed, Threads, Building, Freeing
  <2>2. QED
    BY <1>3, <2>1 DEF Destroyed, Quiet
<1>4. QED
  BY <1>1, <1>2, <1>3 DEF OwnerSteps

LEMMA EventQuiet ==
  ASSUME TypeOK, NEW t \in ChannelThreads, ChannelEvents(t)
  PROVE  Quiet
<1> USE DEF TypeOK
<1>1. CASE ReceiverStatus(t)
  <2>1. ControlQuiet
    BY <1>1 DEF ReceiverStatus, Threads, Building, Freeing, ControlQuiet
  <2>2. QED
    BY <1>1, <2>1 DEF ReceiverStatus, Quiet
<1>2. CASE WebrtcAnswer(t)
  <2>1. ControlQuiet
    BY <1>2 DEF WebrtcAnswer, Threads, Building, Freeing, ControlQuiet
  <2>2. QED
    BY <1>2, <2>1 DEF WebrtcAnswer, Quiet
<1>3. CASE CloseMessage(t)
  <2>1. ControlQuiet
    BY <1>3, CallQuiet DEF CloseMessage, Threads, Building, Freeing
  <2>2. QED
    BY <1>3, <2>1 DEF CloseMessage, Quiet
<1>4. CASE ConnectionLost(t)
  <2>1. ControlQuiet
    BY <1>4, GotoQuiet DEF ConnectionLost, Threads, Building, Freeing
  <2>2. QED
    BY <1>4, <2>1 DEF ConnectionLost, Quiet
<1>5. QED
  BY <1>1, <1>2, <1>3, <1>4 DEF ChannelEvents

LEMMA OtherQuiet ==
  ASSUME TypeOK,
     EncodeExit \/ SourceLost \/ OwnerStops \/ SetBitrate \/ WindowExpires
  PROVE  Quiet
<1> USE DEF TypeOK
<1>1. CASE EncodeExit
  <2>1. ControlQuiet
    BY <1>1, GotoQuiet DEF EncodeExit, Threads, Building, Freeing
  <2>2. QED
    BY <1>1, <2>1 DEF EncodeExit, Quiet
<1>2. CASE SourceLost
  <2>1. ControlQuiet
    BY <1>2, CallQuiet DEF SourceLost, Threads, Building, Freeing
  <2>2. QED
    BY <1>2, <2>1 DEF SourceLost, Quiet
<1>3. CASE OwnerStops
  <2>1. ControlQuiet
    BY <1>3, CallQuiet DEF OwnerStops, Threads, Building, Freeing
  <2>2. QED
    BY <1>3, <2>1 DEF OwnerStops, Quiet
<1>4. CASE SetBitrate
  <2>1. ControlQuiet
    BY <1>4, CallQuiet DEF SetBitrate, Threads, Building, Freeing
  <2>2. QED
    BY <1>4, <2>1 DEF SetBitrate, Quiet
<1>5. CASE WindowExpires
  <2>1. ControlQuiet
    BY <1>5 DEF WindowExpires, Threads, Building, Freeing, ControlQuiet
  <2>2. QED
    BY <1>5, <2>1 DEF WindowExpires, Quiet
<1>6. QED
  BY <1>1, <1>2, <1>3, <1>4, <1>5
LEMMA StepQuiet ==
  ASSUME TypeOK, Next, ~StartBegin,
         \A t \in Threads : ~PipelineSteps(t) /\ ~TeardownSteps(t)
  PROVE  Quiet
<1>1. CASE Environment
  BY <1>1, EventQuiet, OtherQuiet DEF Environment
<1>2. ASSUME NEW t \in Threads, Step(t) PROVE Quiet
  BY <1>2, StartQuiet, NegotiateQuiet, StopQuiet, ReconnectQuiet,
     DisconnectQuiet, AdaptQuiet, ChannelQuiet, OwnerQuiet, OtherQuiet DEF Step
<1>3. QED
  BY <1>1, <1>2 DEF Next

-----------------------------------------------------------------------------
(* The inductive invariant.                                                  *)

PipelineInv == HeldByWorker /\ FreedInOrder /\ NoBuildOnceTornDown /\ NoZombieMedia

LEMMA QuietKeeps ==
  ASSUME TypeOK, PipelineInv, Quiet
  PROVE  PipelineInv'
<1> USE DEF PipelineInv, Quiet, ControlQuiet, Building, Freeing
<1>1. HeldByWorker'
  BY DEF HeldByWorker
<1>2. FreedInOrder'
  BY DEF FreedInOrder
<1>3. NoBuildOnceTornDown'
  BY DEF NoBuildOnceTornDown
<1>4. NoZombieMedia'
  BY DEF NoZombieMedia
<1>5. QED
  BY <1>1, <1>2, <1>3, <1>4

(* Two threads are never both inside the pipeline.                           *)
LEMMA OnlyHolder ==
  ASSUME HeldByWorker, NEW t \in Threads, pc[t] \in Building \cup Freeing
  PROVE  \A u \in Threads \ {t} : pc[u] \notin Building \cup Freeing
BY DEF HeldByWorker

LEMMA NoHolder ==
  ASSUME HeldByWorker, pipelineMutex = NoThread
  PROVE  \A u \in Threads : pc[u] \notin Building \cup Freeing
BY ChannelThreadsAssumption DEF HeldByWorker, Threads, NoThread

LEMMA StartBeginKeeps ==
  ASSUME TypeOK, PipelineInv, StartBegin
  PROVE  PipelineInv'
<1> USE DEF PipelineInv, StartBegin, Building, Freeing
<1>1. ControlQuiet
  BY GotoQuiet DEF TypeOK, Threads
<1>2. HeldByWorker'
  BY <1>1 DEF HeldByWorker, ControlQuiet
<1>3. FreedInOrder'
  BY <1>1 DEF FreedInOrder, ControlQuiet
<1>4. NoBuildOnceTornDown' /\ NoZombieMedia'
  BY DEF NoBuildOnceTornDown, NoZombieMedia
<1>5. QED
  BY <1>2, <1>3, <1>4

LEMMA LockPipelineKeeps ==
  ASSUME TypeOK, PipelineInv, NEW t \in Threads, LockPipeline(t)
  PROVE  PipelineInv'
<1>1. CASE stopRequested
  <2>1. Quiet
    BY <1>1, FailQuiet DEF LockPipeline, Quiet, TypeOK
  <2>2. QED
    BY <2>1, QuietKeeps
<1>2. CASE ~stopRequested
  <2> USE <1>2, NoHolder DEF PipelineInv, LockPipeline, Goto, Building, Freeing
  <2>1. pc' = [pc EXCEPT ![t] = "build"] /\ pc \in [Threads -> Labels]
    BY DEF TypeOK, ControlOK
  <2>2. HeldByWorker'
    BY <2>1 DEF HeldByWorker
  <2>3. FreedInOrder'
    BY <2>1 DEF FreedInOrder
  <2>4. ~tornDown' /\ NoBuildOnceTornDown' /\ NoZombieMedia'
    BY DEF NoBuildOnceTornDown, NoZombieMedia
  <2>5. QED
    BY <2>2, <2>3, <2>4
<1>3. QED
  BY <1>1, <1>2

(* The three building steps: t holds the mutex and nothing is torn down.     *)
LEMMA BuildingKeeps ==
  ASSUME TypeOK, PipelineInv, NEW t \in Threads,
         Build(t) \/ StartCapture(t) \/ CheckCapture(t)
  PROVE  PipelineInv'
<1>1. pc[t] \in Building
  BY DEF Build, StartCapture, CheckCapture, Building
<1>2. \A u \in Threads \ {t} : pc[u] \notin Building \cup Freeing
  BY <1>1, OnlyHolder DEF PipelineInv
<1>3. ~tornDown /\ pipelineMutex = t
  BY <1>1 DEF PipelineInv, NoBuildOnceTornDown, HeldByWorker
<1>4. ~tornDown'
  BY <1>3 DEF Build, StartCapture, CheckCapture
<1>5. \A u \in Threads \ {t} : pc'[u] \notin Building \cup Freeing
  BY <1>2 DEF Build, StartCapture, CheckCapture, AbandonPipeline, Goto, Call,
     Spawn,
              FirstLabel, Building, Freeing, TypeOK, ControlOK
<1>6. \/ /\ pc'[t] \in {"startCapture", "checkCapture"}
         /\ pipelineMutex' = t
      \/ /\ pc'[t] = "joinVideo"
         /\ pipelineMutex' = t /\ ~isStreaming' /\ ~capture'
      \/ pc'[t] \notin Building \cup Freeing
  <2>1. CASE Build(t)
    BY <2>1, <1>3 DEF Build, AbandonPipeline, Call, Spawn, TypeOK, ControlOK
  <2>2. CASE StartCapture(t)
    BY <2>2, <1>3 DEF StartCapture, AbandonPipeline, Call, Goto, TypeOK,
       ControlOK
  <2>3. CASE CheckCapture(t)
    BY <2>3 DEF CheckCapture, Succeeding, Spawn, Building, Freeing
  <2>4. QED
    BY <2>1, <2>2, <2>3
<1>7. HeldByWorker'
  BY <1>5, <1>6 DEF HeldByWorker, Freeing
<1>8. FreedInOrder'
  BY <1>5, <1>6 DEF FreedInOrder, Freeing
<1>9. NoBuildOnceTornDown' /\ NoZombieMedia'
  BY <1>4 DEF NoBuildOnceTornDown, NoZombieMedia
<1>10. QED
  BY <1>7, <1>8, <1>9 DEF PipelineInv

LEMMA StopMediaKeeps ==
  ASSUME TypeOK, PipelineInv, NEW t \in Threads, StopMedia(t)
  PROVE  PipelineInv'
<1> USE NoHolder DEF PipelineInv, StopMedia, Goto, Building, Freeing
<1>1. pc' = [pc EXCEPT ![t] = "joinVideo"] /\ pc \in [Threads -> Labels]
  BY DEF TypeOK, ControlOK
<1>2. HeldByWorker'
  BY <1>1 DEF HeldByWorker
<1>3. FreedInOrder'
  BY <1>1 DEF FreedInOrder
<1>4. NoBuildOnceTornDown'
  BY <1>1 DEF NoBuildOnceTornDown
<1>5. NoZombieMedia'
  BY DEF NoZombieMedia
<1>6. QED
  BY <1>2, <1>3, <1>4, <1>5

LEMMA JoinVideoKeeps ==
  ASSUME TypeOK, PipelineInv, NEW t \in Threads, JoinVideo(t)
  PROVE  PipelineInv'
<1> USE OnlyHolder DEF PipelineInv, JoinVideo, Goto, Building, Freeing
<1>1. pc' = [pc EXCEPT ![t] = "freeMedia"] /\ pc \in [Threads -> Labels]
  BY DEF TypeOK, ControlOK
<1>2. HeldByWorker'
  BY <1>1 DEF HeldByWorker
<1>3. FreedInOrder'
  BY <1>1 DEF FreedInOrder
<1>4. NoBuildOnceTornDown'
  BY <1>1 DEF NoBuildOnceTornDown
<1>5. NoZombieMedia'
  BY DEF NoZombieMedia
<1>6. QED
  BY <1>2, <1>3, <1>4, <1>5

LEMMA FreeMediaKeeps ==
  ASSUME TypeOK, PipelineInv, NEW t \in Threads, FreeMedia(t)
  PROVE  PipelineInv'
<1>1. ControlQuiet
  BY ReturnQuiet DEF FreeMedia, TypeOK
<1>2. pc'[t] \notin Building \cup Freeing
  <2>1. Head(stack[t]) \in Continuations
    BY HeadTailProperties DEF FreeMedia, Return, TypeOK, ControlOK
  <2>2. QED
    BY <2>1 DEF FreeMedia, Return, TypeOK, ControlOK, Continuations, Building,
       Freeing
<1>3. \A u \in Threads : pc'[u] \notin Building \cup Freeing
  BY <1>1, <1>2, OnlyHolder DEF PipelineInv, FreeMedia, ControlQuiet, Freeing
<1>4. HeldByWorker' /\ FreedInOrder'
  BY <1>3 DEF HeldByWorker, FreedInOrder, Freeing
<1>5. NoBuildOnceTornDown'
  BY <1>3 DEF NoBuildOnceTornDown, FreeMedia, PipelineInv
<1>6. NoZombieMedia'
  BY DEF NoZombieMedia, FreeMedia, PipelineInv, FreedInOrder, Freeing
<1>7. QED
  BY <1>4, <1>5, <1>6 DEF PipelineInv

LEMMA InitPipeline == Init => PipelineInv
BY DEF Init, PipelineInv, HeldByWorker, FreedInOrder, NoBuildOnceTornDown,
       NoZombieMedia, Building, Freeing

LEMMA NextPipeline == TypeOK /\ PipelineInv /\ [Next]_vars => PipelineInv'
<1> SUFFICES ASSUME TypeOK, PipelineInv, [Next]_vars PROVE PipelineInv'
  OBVIOUS
<1>1. CASE StartBegin
  BY <1>1, StartBeginKeeps
<1>2. ASSUME NEW t \in Threads, PipelineSteps(t) PROVE PipelineInv'
  BY <1>2, LockPipelineKeeps, BuildingKeeps DEF PipelineSteps
<1>3. ASSUME NEW t \in Threads, TeardownSteps(t) PROVE PipelineInv'
  BY <1>3, StopMediaKeeps, JoinVideoKeeps, FreeMediaKeeps DEF TeardownSteps
<1>4. CASE Next /\ ~StartBegin
           /\ \A t \in Threads : ~PipelineSteps(t) /\ ~TeardownSteps(t)
  BY <1>4, StepQuiet, QuietKeeps
<1>5. CASE UNCHANGED vars
  BY <1>5 DEF vars, PipelineInv, HeldByWorker, FreedInOrder,
     NoBuildOnceTornDown,
              NoZombieMedia
<1>6. QED
  BY <1>1, <1>2, <1>3, <1>4, <1>5

(* The invariant the runs check is inductive, and holds of every behaviour.  *)
THEOREM SessionInvariant == Spec => []SessionInv
<1>1. Init => TypeOK /\ PipelineInv
  BY InitType, InitPipeline
<1>2. TypeOK /\ PipelineInv /\ [Next]_vars => (TypeOK /\ PipelineInv)'
  BY NextType, NextPipeline
<1>3. TypeOK /\ PipelineInv => SessionInv
  BY DEF PipelineInv, SessionInv
<1>4. QED
  BY <1>1, <1>2, <1>3, PTL DEF Spec

(* No media outlives the teardown of a stopped session, in any interleaving  *)
(* of Stop() with the starter, the reconnecting supervisor and the callbacks *)
(* of the channel.                                                           *)
THEOREM NoZombieMediaAlways == Spec => []NoZombieMedia
<1>1. SessionInv => NoZombieMedia
  BY DEF SessionInv
<1>2. QED
  BY <1>1, SessionInvariant, PTL

-----------------------------------------------------------------------------
(* What a thread will return to.                                             *)

(* The labels inside a procedure several threads run; all others belong to   *)
(* the body of one thread.                                                   *)
Procs ==
  {"stopMedia", "joinVideo", "freeMedia", "stop", "toStopping", "joinAdapt",
   "resetRecovery", "toFinal", "fail", "markFailed", "reconnect", "openWindow",
   "clearFlags", "toReconnecting", "disconnect", "lockChannel", "joinChannel", "notify"}

(* The labels on a thread's stack, as a set.                                 *)
OnStack == [t \in Threads |-> {stack[t][i] : i \in 1..Len(stack[t])}]

(* Inside a procedure, and only there, a thread has something to return to,  *)
(* and the outermost caller is its own body.                                 *)
StackShape ==
  \A t \in Threads :
    /\ pc[t] \in Procs <=> stack[t] # <<>>
    /\ \A i \in 1..Len(stack[t]) : stack[t][i] \in Procs <=> i # Len(stack[t])

LEMMA CallStack ==
  ASSUME ControlOK, NEW t \in Threads, NEW l, NEW after \in Seq(Continuations),
         Call(t, l, after)
  PROVE  /\ pc' = [pc EXCEPT ![t] = l]
         /\ \A u \in Threads \ {t} : OnStack'[u] = OnStack[u]
         /\ OnStack'[t] = {after[i] : i \in 1..Len(after)} \cup OnStack[t]
<1>1. /\ pc' = [pc EXCEPT ![t] = l]
      /\ stack' = [stack EXCEPT ![t] = after \o stack[t]]
      /\ stack \in [Threads -> Seq(Continuations)]
  BY DEF Call, ControlOK
<1>2. \A u \in Threads \ {t} : OnStack'[u] = OnStack[u]
  BY <1>1 DEF OnStack
<1>3. stack[t] \in Seq(Continuations)
  BY <1>1
<1>4. /\ Len(after \o stack[t]) = Len(after) + Len(stack[t])
      /\ \A i \in 1..(Len(after) + Len(stack[t])) :
           (after \o stack[t])[i] = IF i <= Len(after) THEN after[i] ELSE stack[t][i - Len(after)]
  BY <1>3, ConcatProperties
<1>5. OnStack'[t] = {(after \o stack[t])[i] : i \in 1..Len(after \o stack[t])}
  BY <1>1 DEF OnStack
<1>6. {(after \o stack[t])[i] : i \in 1..Len(after \o stack[t])}
        = {after[i] : i \in 1..Len(after)} \cup {stack[t][i] : i \in 1..Len(stack[t])}
  <2> DEFINE s == after \o stack[t]
             m == Len(after)
             n == Len(stack[t])
  <2>1. m \in Nat /\ n \in Nat
    BY <1>3, LenProperties
  <2>2. ASSUME NEW x \in {s[i] : i \in 1..Len(s)}
        PROVE  x \in {after[i] : i \in 1..m} \cup {stack[t][i] : i \in 1..n}
    <3>1. PICK i \in 1..(m + n) : x = s[i]
      BY <1>4
    <3>2. CASE i <= m
      BY <1>4, <2>1, <3>1, <3>2
    <3>3. CASE ~(i <= m)
      <4>1. i - m \in 1..n /\ x = stack[t][i - m]
        BY <1>4, <2>1, <3>1, <3>3
      <4> QED
        BY <4>1
    <3> QED
      BY <3>2, <3>3
  <2>3. ASSUME NEW i \in 1..m  PROVE after[i] \in {s[j] : j \in 1..Len(s)}
    BY <1>4, <2>1, <2>3
  <2>4. ASSUME NEW i \in 1..n  PROVE stack[t][i] \in {s[j] : j \in 1..Len(s)}
    <3>1. i + m \in 1..(m + n) /\ ~(i + m <= m) /\ (i + m) - m = i
      BY <2>1, <2>4
    <3>2. s[i + m] = stack[t][i]
      BY <1>4, <3>1
    <3> QED
      BY <1>4, <3>1, <3>2
  <2> QED
    BY <2>2, <2>3, <2>4
<1> QED
  BY <1>1, <1>2, <1>5, <1>6 DEF OnStack

LEMMA ReturnStack ==
  ASSUME ControlOK, NEW t \in Threads, Return(t)
  PROVE  \E l \in Continuations :
           /\ pc' = [pc EXCEPT ![t] = l]
           /\ \A u \in Threads \ {t} : OnStack'[u] = OnStack[u]
           /\ OnStack[t] = {l} \cup OnStack'[t]
<1>1. /\ pc' = [pc EXCEPT ![t] = Head(stack[t])]
      /\ stack' = [stack EXCEPT ![t] = Tail(stack[t])]
      /\ stack \in [Threads -> Seq(Continuations)]
      /\ stack[t] # <<>>
  BY DEF Return, ControlOK
<1>2. \A u \in Threads \ {t} : OnStack'[u] = OnStack[u]
  BY <1>1 DEF OnStack
<1> DEFINE s == stack[t]
           n == Len(stack[t])
<1>3. /\ s \in Seq(Continuations) /\ n \in Nat /\ n > 0 /\ Head(s) = s[1] /\ s[1] \in Continuations
      /\ Len(Tail(s)) = n - 1 /\ \A i \in 1..(n - 1) : Tail(s)[i] = s[i + 1]
  BY <1>1, HeadTailProperties, LenProperties, EmptySeq, ElementOfSeq
<1>4. OnStack'[t] = {Tail(s)[i] : i \in 1..(n - 1)}
  BY <1>1, <1>3 DEF OnStack
<1>5. OnStack[t] = {s[i] : i \in 1..n}
  BY DEF OnStack
<1>6. {s[i] : i \in 1..n} = {s[1]} \cup {Tail(s)[i] : i \in 1..(n - 1)}
  <2>1. ASSUME NEW i \in 1..n  PROVE s[i] \in {s[1]} \cup {Tail(s)[j] : j \in 1..(n - 1)}
    <3>1. CASE i = 1
      BY <3>1
    <3>2. CASE i # 1
      <4>1. i - 1 \in 1..(n - 1) /\ (i - 1) + 1 = i
        BY <1>3, <2>1, <3>2
      <4>2. Tail(s)[i - 1] = s[i]
        BY <1>3, <4>1
      <4> QED
        BY <4>1, <4>2
    <3> QED
      BY <3>1, <3>2
  <2>2. ASSUME NEW i \in 1..(n - 1)  PROVE Tail(s)[i] \in {s[j] : j \in 1..n}
    <3>1. i + 1 \in 1..n
      BY <1>3, <2>2
    <3> QED
      BY <1>3, <3>1, <2>2
  <2>3. 1 \in 1..n
    BY <1>3
  <2> QED
    BY <2>1, <2>2, <2>3
<1> QED
  BY <1>1, <1>2, <1>3, <1>4, <1>5, <1>6

LEMMA GotoStack ==
  ASSUME NEW t \in Threads, NEW l, Goto(t, l)
  PROVE  pc' = [pc EXCEPT ![t] = l] /\ OnStack' = OnStack
BY DEF Goto, OnStack

(* A thread in its own body has nothing on its stack.                        *)
LEMMA BodyStack ==
  ASSUME ControlOK, StackShape, NEW t \in Threads, pc[t] \notin Procs
  PROVE  OnStack[t] = {}
BY LenProperties, EmptySeq DEF StackShape, OnStack, ControlOK

LEMMA GotoShape ==
  ASSUME ControlOK, StackShape, NEW t \in Threads, NEW l, Goto(t, l),
         pc[t] \in Procs <=> l \in Procs
  PROVE  StackShape'
<1>1. pc' = [pc EXCEPT ![t] = l] /\ stack' = stack /\ pc \in [Threads -> Labels]
  BY DEF Goto, ControlOK
<1> QED
  BY <1>1 DEF StackShape

(* A thread's body calls a procedure ...                                     *)
LEMMA EnterShape ==
  ASSUME ControlOK, StackShape, NEW t \in Threads, NEW l \in Procs,
         NEW after \in Seq(Continuations), Call(t, l, after),
         pc[t] \notin Procs, after # <<>>,
         \A i \in 1..Len(after) : after[i] \in Procs <=> i # Len(after)
  PROVE  StackShape'
<1>1. /\ pc' = [pc EXCEPT ![t] = l]
      /\ stack' = [stack EXCEPT ![t] = after \o stack[t]]
      /\ pc \in [Threads -> Labels] /\ stack \in [Threads -> Seq(Continuations)]
  BY DEF Call, ControlOK
<1>2. stack[t] = <<>>
  BY DEF StackShape
<1>3. after \o stack[t] = after
  BY <1>2, ConcatEmptySeq
<1>4. stack' = [stack EXCEPT ![t] = after]
  BY <1>1, <1>3
<1> QED
  BY <1>1, <1>4 DEF StackShape

(* ... and a procedure another one.                                          *)
LEMMA NestShape ==
  ASSUME ControlOK, StackShape, NEW t \in Threads, NEW l \in Procs,
         NEW back \in Procs \cap Continuations, Call(t, l, <<back>>),
         pc[t] \in Procs
  PROVE  StackShape'
<1>1. /\ pc' = [pc EXCEPT ![t] = l]
      /\ stack' = [stack EXCEPT ![t] = <<back>> \o stack[t]]
      /\ pc \in [Threads -> Labels] /\ stack \in [Threads -> Seq(Continuations)]
  BY DEF Call, ControlOK
<1> DEFINE s == stack[t]
           r == <<back>> \o s
<1>2. /\ s \in Seq(Continuations) /\ s # <<>> /\ Len(s) \in Nat /\ Len(s) > 0
  BY <1>1, LenProperties, EmptySeq DEF StackShape
<1>3. /\ Len(r) = 1 + Len(s)
      /\ \A i \in 1..Len(r) : r[i] = IF i <= 1 THEN back ELSE s[i - 1]
  <2>1. <<back>> \in Seq(Continuations) /\ Len(<<back>>) = 1 /\ <<back>>[1] = back
    OBVIOUS
  <2>2. /\ Len(r) = Len(<<back>>) + Len(s)
        /\ \A i \in 1..(Len(<<back>>) + Len(s)) :
             r[i] = IF i <= Len(<<back>>) THEN <<back>>[i] ELSE s[i - Len(<<back>>)]
    BY <1>2, <2>1, ConcatProperties
  <2> QED
    BY <1>2, <2>1, <2>2
<1>4. r # <<>>
  BY <1>2, <1>3
<1>5. ASSUME NEW i \in 1..Len(r)  PROVE r[i] \in Procs <=> i # Len(r)
  <2>1. CASE i = 1
    BY <1>2, <1>3, <2>1
  <2>2. CASE i # 1
    <3>1. i - 1 \in 1..Len(s) /\ r[i] = s[i - 1]
      BY <1>2, <1>3, <2>2
    <3>2. s[i - 1] \in Procs <=> i - 1 # Len(s)
      BY <3>1 DEF StackShape
    <3> QED
      BY <1>2, <1>3, <3>1, <3>2
  <2> QED
    BY <2>1, <2>2
<1> HIDE DEF r
<1>6. stack' = [stack EXCEPT ![t] = r]
  BY <1>1 DEF r
<1> QED
  BY <1>1, <1>4, <1>5, <1>6 DEF StackShape

LEMMA ReturnShape ==
  ASSUME ControlOK, StackShape, NEW t \in Threads, Return(t)
  PROVE  StackShape'
<1>1. /\ pc' = [pc EXCEPT ![t] = Head(stack[t])]
      /\ stack' = [stack EXCEPT ![t] = Tail(stack[t])]
      /\ stack[t] # <<>>
      /\ pc \in [Threads -> Labels] /\ stack \in [Threads -> Seq(Continuations)]
  BY DEF Return, ControlOK
<1> DEFINE s == stack[t]
           r == Tail(stack[t])
<1>2. /\ s \in Seq(Continuations) /\ Len(s) \in Nat /\ Len(s) > 0 /\ Head(s) = s[1]
      /\ r \in Seq(Continuations)
      /\ Len(r) = Len(s) - 1 /\ \A i \in 1..(Len(s) - 1) : r[i] = s[i + 1]
  BY <1>1, HeadTailProperties, LenProperties, EmptySeq
<1>3. Head(s) \in Procs <=> r # <<>>
  <2>1. 1 \in 1..Len(s)
    BY <1>2
  <2>3. s[1] \in Procs <=> 1 # Len(s)
    BY <2>1 DEF StackShape
  <2>2. r # <<>> <=> Len(r) # 0
    BY <1>2, EmptySeq
  <2> QED
    BY <1>2, <2>2, <2>3
<1>4. ASSUME NEW i \in 1..Len(r)  PROVE r[i] \in Procs <=> i # Len(r)
  <2>1. i + 1 \in 1..Len(s) /\ r[i] = s[i + 1]
    BY <1>2
  <2>2. s[i + 1] \in Procs <=> i + 1 # Len(s)
    BY <2>1 DEF StackShape
  <2> QED
    BY <1>2, <2>1, <2>2
<1> HIDE DEF r
<1>5. stack' = [stack EXCEPT ![t] = r]
  BY <1>1 DEF r
<1> QED
  BY <1>1, <1>3, <1>4, <1>5 DEF StackShape

(* Threads begin, and the one that starts them moves on in its body.         *)
LEMMA SpawnShape ==
  ASSUME ControlOK, StackShape, NEW t \in Threads, NEW l, l \notin Procs,
         NEW S \in SUBSET {"adapt", "video", "receive", "heartbeat"},
         Spawn(t, l, S), \A u \in (S \cap Threads) \cup {t} : pc[u] \notin Procs
  PROVE  StackShape' /\ OnStack' = OnStack
<1>1. \A u \in S : FirstLabel[u] \notin Procs
  BY DEF FirstLabel, Procs
<1>2. stack' = stack /\ OnStack' = OnStack
  BY DEF Spawn, OnStack
<1>3. ASSUME NEW u \in Threads
      PROVE  pc'[u] = pc[u] \/ (pc'[u] \notin Procs /\ pc[u] \notin Procs)
  <2>1. pc'[u] = IF u = t THEN l ELSE IF u \in S THEN FirstLabel[u] ELSE pc[u]
    BY DEF Spawn
  <2>2. CASE u = t
    BY <2>1, <2>2
  <2>3. CASE u # t /\ u \in S
    BY <1>1, <2>1, <2>3
  <2> QED
    BY <2>1, <2>2, <2>3
<1> QED
  BY <1>2, <1>3 DEF StackShape

(* The labels of the sequences that are put on a stack.                      *)
LEMMA AfterOne ==
  ASSUME NEW x
  PROVE  /\ {<<x>>[i] : i \in 1..Len(<<x>>)} = {x}
         /\ x \notin Procs => \A i \in 1..Len(<<x>>) : <<x>>[i] \in Procs <=> i # Len(<<x>>)
         /\ <<x>> # <<>>
<1>1. Len(<<x>>) = 1 /\ <<x>>[1] = x /\ 1..1 = {1}
  OBVIOUS
<1> QED
  BY <1>1

LEMMA AfterTwo ==
  ASSUME NEW x, NEW y
  PROVE  /\ {<<x, y>>[i] : i \in 1..Len(<<x, y>>)} = {x, y}
         /\ x \in Procs /\ y \notin Procs =>
              \A i \in 1..Len(<<x, y>>) : <<x, y>>[i] \in Procs <=> i # Len(<<x, y>>)
         /\ <<x, y>> # <<>>
<1>1. Len(<<x, y>>) = 2 /\ <<x, y>>[1] = x /\ <<x, y>>[2] = y /\ 1..2 = {1, 2}
  OBVIOUS
<1> QED
  BY <1>1

LEMMA AfterThree ==
  ASSUME NEW x, NEW y, NEW z
  PROVE  /\ {<<x, y, z>>[i] : i \in 1..Len(<<x, y, z>>)} = {x, y, z}
         /\ x \in Procs /\ y \in Procs /\ z \notin Procs =>
              \A i \in 1..Len(<<x, y, z>>) : <<x, y, z>>[i] \in Procs <=> i # Len(<<x, y, z>>)
         /\ <<x, y, z>> # <<>>
<1>1. /\ Len(<<x, y, z>>) = 3 /\ <<x, y, z>>[1] = x /\ <<x, y, z>>[2] = y /\ <<x, y, z>>[3] = z
      /\ 1..3 = {1, 2, 3}
  OBVIOUS
<1> QED
  BY <1>1

(* What a thread that enters a procedure from its body, or goes on in it,    *)
(* does to the stacks.                                                       *)
LEMMA Enter ==
  ASSUME ControlOK, StackShape, NEW t \in Threads, NEW l \in Procs,
         NEW after \in Seq(Continuations), Call(t, l, after),
         pc[t] \notin Procs, after # <<>>,
         \A i \in 1..Len(after) : after[i] \in Procs <=> i # Len(after)
  PROVE  /\ StackShape'
         /\ pc' = [pc EXCEPT ![t] = l]
         /\ \A u \in Threads \ {t} : OnStack'[u] = OnStack[u]
         /\ OnStack'[t] = {after[i] : i \in 1..Len(after)}
BY CallStack, EnterShape, BodyStack

LEMMA Enter1 ==
  ASSUME ControlOK, StackShape, NEW t \in Threads, NEW l \in Procs,
         NEW x \in Continuations \ Procs, Call(t, l, <<x>>), pc[t] \notin Procs
  PROVE  /\ StackShape'
         /\ pc' = [pc EXCEPT ![t] = l]
         /\ \A u \in Threads \ {t} : OnStack'[u] = OnStack[u]
         /\ OnStack'[t] = {x}
<1> DEFINE after == <<x>>
<1>1. after \in Seq(Continuations)
  OBVIOUS
<1>2. /\ {after[i] : i \in 1..Len(after)} = {x} /\ after # <<>>
      /\ \A i \in 1..Len(after) : after[i] \in Procs <=> i # Len(after)
  BY AfterOne
<1>3. Call(t, l, after)
  OBVIOUS
<1> HIDE DEF after
<1>4. OnStack'[t] = {after[i] : i \in 1..Len(after)}
  BY <1>1, <1>2, <1>3, Enter
<1>5. /\ StackShape'
      /\ pc' = [pc EXCEPT ![t] = l]
      /\ \A u \in Threads \ {t} : OnStack'[u] = OnStack[u]
  BY <1>1, <1>2, <1>3, Enter
<1> QED
  BY <1>2, <1>4, <1>5

LEMMA Enter2 ==
  ASSUME ControlOK, StackShape, NEW t \in Threads, NEW l \in Procs,
         NEW x \in Continuations \cap Procs, NEW y \in Continuations \ Procs,
         Call(t, l, <<x, y>>), pc[t] \notin Procs
  PROVE  /\ StackShape'
         /\ pc' = [pc EXCEPT ![t] = l]
         /\ \A u \in Threads \ {t} : OnStack'[u] = OnStack[u]
         /\ OnStack'[t] = {x, y}
<1> DEFINE after == <<x, y>>
<1>1. after \in Seq(Continuations)
  OBVIOUS
<1>2. /\ {after[i] : i \in 1..Len(after)} = {x, y} /\ after # <<>>
      /\ \A i \in 1..Len(after) : after[i] \in Procs <=> i # Len(after)
  BY AfterTwo
<1>3. Call(t, l, after)
  OBVIOUS
<1> HIDE DEF after
<1>4. OnStack'[t] = {after[i] : i \in 1..Len(after)}
  BY <1>1, <1>2, <1>3, Enter
<1>5. /\ StackShape'
      /\ pc' = [pc EXCEPT ![t] = l]
      /\ \A u \in Threads \ {t} : OnStack'[u] = OnStack[u]
  BY <1>1, <1>2, <1>3, Enter
<1> QED
  BY <1>2, <1>4, <1>5

LEMMA Enter3 ==
  ASSUME ControlOK, StackShape, NEW t \in Threads, NEW l \in Procs,
         NEW x \in Continuations \cap Procs, NEW y \in Continuations \cap Procs,
         NEW z \in Continuations \ Procs,
         Call(t, l, <<x, y, z>>), pc[t] \notin Procs
  PROVE  /\ StackShape'
         /\ pc' = [pc EXCEPT ![t] = l]
         /\ \A u \in Threads \ {t} : OnStack'[u] = OnStack[u]
         /\ OnStack'[t] = {x, y, z}
<1> DEFINE after == <<x, y, z>>
<1>1. after \in Seq(Continuations)
  OBVIOUS
<1>2. /\ {after[i] : i \in 1..Len(after)} = {x, y, z} /\ after # <<>>
      /\ \A i \in 1..Len(after) : after[i] \in Procs <=> i # Len(after)
  BY AfterThree
<1>3. Call(t, l, after)
  OBVIOUS
<1> HIDE DEF after
<1>4. OnStack'[t] = {after[i] : i \in 1..Len(after)}
  BY <1>1, <1>2, <1>3, Enter
<1>5. /\ StackShape'
      /\ pc' = [pc EXCEPT ![t] = l]
      /\ \A u \in Threads \ {t} : OnStack'[u] = OnStack[u]
  BY <1>1, <1>2, <1>3, Enter
<1> QED
  BY <1>2, <1>4, <1>5

LEMMA Nest ==
  ASSUME ControlOK, StackShape, NEW t \in Threads, NEW l \in Procs,
         NEW back \in Procs \cap Continuations, Call(t, l, <<back>>), pc[t] \in Procs
  PROVE  /\ StackShape'
         /\ pc' = [pc EXCEPT ![t] = l]
         /\ \A u \in Threads \ {t} : OnStack'[u] = OnStack[u]
         /\ OnStack'[t] = {back} \cup OnStack[t]
<1> DEFINE after == <<back>>
<1>1. after \in Seq(Continuations)
  OBVIOUS
<1>2. {after[i] : i \in 1..Len(after)} = {back}
  BY AfterOne
<1>3. Call(t, l, after)
  OBVIOUS
<1>4. StackShape'
  BY NestShape
<1> HIDE DEF after
<1> QED
  BY <1>1, <1>2, <1>3, <1>4, CallStack

(* Every label a thread can return to is one of Continuations.               *)
LEMMA StackTypes ==
  ASSUME ControlOK, NEW t \in Threads
  PROVE  OnStack[t] \subseteq Continuations
<1>1. stack[t] \in Seq(Continuations)
  BY DEF ControlOK
<1>2. \A i \in 1..Len(stack[t]) : stack[t][i] \in Continuations
  BY <1>1, ElementOfSeq
<1> QED
  BY <1>2 DEF OnStack

-----------------------------------------------------------------------------
(* A step inside a procedure: the thread goes on in one, or returns to a     *)
(* label of its stack; nobody else moves.                                    *)
ProcMoves(t) ==
  /\ \A u \in Threads \ {t} : pc'[u] = pc[u] /\ OnStack'[u] = OnStack[u]
  /\ pc[t] \in Procs
  /\ pc'[t] \in Procs \/ (pc'[t] \in OnStack[t] /\ pc'[t] \in Continuations)
  /\ OnStack'[t] \subseteq OnStack[t] \cup {"joinAdapt", "resetRecovery"}
  /\ OnStack[t] \subseteq OnStack'[t] \cup {pc'[t]}
  /\ StackShape'

LEMMA GotoMoves ==
  ASSUME ControlOK, StackShape, NEW t \in Threads, NEW l \in Procs, Goto(t, l),
         pc[t] \in Procs
  PROVE  ProcMoves(t) /\ pc'[t] = l
BY GotoStack, GotoShape DEF ControlOK, ProcMoves

LEMMA ReturnMoves ==
  ASSUME ControlOK, StackShape, NEW t \in Threads, Return(t), pc[t] \in Procs
  PROVE  ProcMoves(t) /\ pc'[t] \in Continuations
BY ReturnStack, ReturnShape DEF ControlOK, ProcMoves

LEMMA NestMoves ==
  ASSUME ControlOK, StackShape, NEW t \in Threads, NEW l \in Procs,
         NEW back \in {"joinAdapt", "resetRecovery"}, Call(t, l, <<back>>),
         pc[t] \in Procs
  PROVE  ProcMoves(t) /\ pc'[t] = l
<1>1. back \in Procs \cap Continuations
  BY DEF Procs, Continuations
<1> QED
  BY <1>1, Nest DEF ControlOK, ProcMoves

LEMMA TeardownMoves ==
  ASSUME ControlOK, StackShape, NEW t \in Threads, TeardownSteps(t)
  PROVE  ProcMoves(t)
<1>1. CASE StopMedia(t)
  BY <1>1, GotoMoves DEF StopMedia, Procs
<1>2. CASE JoinVideo(t)
  BY <1>2, GotoMoves DEF JoinVideo, Procs
<1>3. CASE FreeMedia(t)
  BY <1>3, ReturnMoves DEF FreeMedia, Procs
<1> QED
  BY <1>1, <1>2, <1>3 DEF TeardownSteps

LEMMA StopMoves ==
  ASSUME ControlOK, StackShape, NEW t \in Threads, StopSteps(t)
  PROVE  ProcMoves(t)
<1>1. CASE StopOnce(t)
  BY <1>1, GotoMoves, ReturnMoves DEF StopOnce, Procs
<1>2. CASE ToStopping(t)
  BY <1>2, NestMoves DEF ToStopping, Procs
<1>3. CASE JoinAdapt(t)
  BY <1>3, NestMoves DEF JoinAdapt, Procs
<1>4. CASE ResetRecovery(t)
  BY <1>4, GotoMoves DEF ResetRecovery, Procs
<1>5. CASE ToFinal(t)
  BY <1>5, ReturnMoves DEF ToFinal, Procs
<1> QED
  BY <1>1, <1>2, <1>3, <1>4, <1>5 DEF StopSteps

LEMMA ReconnectMoves ==
  ASSUME ControlOK, StackShape, NEW t \in Threads, ReconnectSteps(t)
  PROVE  ProcMoves(t)
<1>1. CASE FailSession(t)
  BY <1>1, GotoMoves, ReturnMoves DEF FailSession, Procs
<1>2. CASE MarkFailed(t)
  BY <1>2, GotoMoves DEF MarkFailed, Procs
<1>3. CASE RequestReconnect(t)
  BY <1>3, GotoMoves, ReturnMoves DEF RequestReconnect, Procs
<1>4. CASE OpenWindow(t)
  BY <1>4, GotoMoves, ReturnMoves DEF OpenWindow, Procs
<1>5. CASE ClearFlags(t)
  BY <1>5, GotoMoves DEF ClearFlags, Procs
<1>6. CASE ToReconnecting(t)
  BY <1>6, GotoMoves, ReturnMoves DEF ToReconnecting, Procs
<1> QED
  BY <1>1, <1>2, <1>3, <1>4, <1>5, <1>6 DEF ReconnectSteps

LEMMA DisconnectMoves ==
  ASSUME ControlOK, StackShape, NEW t \in Threads, DisconnectSteps(t)
  PROVE  ProcMoves(t)
<1>1. CASE Disconnect(t)
  BY <1>1, GotoMoves DEF Disconnect, Procs
<1>2. CASE NoChannel(t)
  BY <1>2, ReturnMoves DEF NoChannel, Procs
<1>3. CASE LockChannel(t)
  BY <1>3, GotoMoves DEF LockChannel, Procs
<1>4. CASE JoinChannel(t)
  BY <1>4, GotoMoves DEF JoinChannel, Procs
<1>5. CASE Notify(t)
  BY <1>5, GotoMoves, ReturnMoves DEF Notify, Procs
<1> QED
  BY <1>1, <1>2, <1>3, <1>4, <1>5 DEF DisconnectSteps

LEMMA NextBodyStack ==
  ASSUME ControlOK', StackShape', NEW t \in Threads, pc'[t] \notin Procs
  PROVE  OnStack'[t] = {}
BY LenProperties, EmptySeq DEF StackShape, OnStack, ControlOK

ProcStep(t) == TeardownSteps(t) \/ StopSteps(t) \/ ReconnectSteps(t) \/ DisconnectSteps(t)

LEMMA StepMoves ==
  ASSUME ControlOK, StackShape, NEW t \in Threads, ProcStep(t)
  PROVE  ProcMoves(t)
BY TeardownMoves, StopMoves, ReconnectMoves, DisconnectMoves DEF ProcStep

-----------------------------------------------------------------------------
(* No thread is overwritten.                                                 *)

(* The stretches of NegotiateControlPlane and of Start() before it.          *)
Negotiating ==
  {"newChannel", "connect", "connecting", "authenticate", "launch", "awaitLaunch",
   "offer", "awaitAnswer", "lockPipeline"}
Opening  == {"start", "toConnecting", "openCapture", "awaitFirstFrame"}
Starting == Opening \cup Negotiating \cup Building

(* Only the starter and the supervisor negotiate and build; the encode       *)
(* thread is in its own loop or ends its own session.                        *)
Roles ==
  /\ \A t \in Threads : pc[t] \in Negotiating \cup Building => t \in {"starter", "adapt"}
  /\ pc["video"] \in {"none", "dead", "encode", "fail", "markFailed", "stop"} \/ stopRequested

(* Until Start() has built the pipeline there is no other worker.            *)
StarterFirst ==
  /\ pc["starter"] \in Starting => pc["adapt"] = "none" /\ "adapt" \notin joinable
  /\ pc["starter"] \in Starting \ {"startCapture", "checkCapture"}
       => pc["video"] = "none" /\ "video" \notin joinable
  /\ pc["starter"] \in Opening \cup {"newChannel", "connect", "connecting"}
       => \A c \in ChannelThreads : pc[c] = "none"
  /\ pc["adapt"] = "none" => ~mediaStopped

NoVideo == "video" \notin joinable /\ Terminated("video")

(* A recovery that marked the media as stopped has joined the encode thread  *)
(* or is about to, and joins it before it retries; the one thread that is    *)
(* never joined is an encode thread that stops its own session.              *)
VideoGone ==
  /\ "video" \notin joinable => Terminated("video") \/ stopRequested
  /\ mediaStopped =>
       \/ pc["adapt"] \in {"stopMedia", "joinVideo", "startCapture", "checkCapture",
                           "recovered", "rearm"}
       \/ NoVideo \/ stopRequested
  /\ pc["adapt"] \in {"retry", "backoff"} \cup Negotiating => NoVideo \/ stopRequested
  /\ "retry" \in OnStack["adapt"]
       => pc["adapt"] \in {"stopMedia", "joinVideo"} \/ NoVideo \/ stopRequested
  /\ pc["adapt"] = "build" => NoVideo

AllGone == \A c \in ChannelThreads : Terminated(c)
WillJoin == \/ pc["adapt"] \in {"disconnect", "lockChannel", "joinChannel"}
            \/ "disconnect" \in OnStack["adapt"]

(* The same for the threads of the channel.                                  *)
LinkGone ==
  /\ pc["adapt"] # "none" => channel
  /\ pc["starter"] \in (Negotiating \ {"newChannel"}) \cup Building => channel
  /\ \A t \in Threads : pc[t] \in {"connect", "connecting"} => AllGone
  /\ mediaStopped =>
       \/ AllGone \/ WillJoin
       \/ pc["adapt"] \in (Negotiating \ {"newChannel", "connect", "connecting"})
                            \cup Building \cup {"recovered", "rearm"}
  /\ pc["adapt"] \in {"retry", "backoff", "newChannel"} => AllGone
  /\ "retry" \in OnStack["adapt"] => AllGone \/ WillJoin

ThreadInv == StackShape /\ Roles /\ StarterFirst /\ VideoGone /\ LinkGone

(* A step of a thread that leaves the supervisor and the places of Start()   *)
(* alone.                                                                    *)
Aside(t) ==
  /\ \A u \in Threads \ {t} : pc'[u] = pc[u] /\ OnStack'[u] = OnStack[u]
  /\ ~Terminated(t)
  /\ pc'[t] \notin Starting
  /\ channel' = channel
  /\ mediaStopped' => mediaStopped
  /\ stopRequested => stopRequested'
  /\ joinable' \subseteq joinable
  /\ "video" \in joinable \ joinable' => Terminated("video") \/ stopRequested
  /\ t = "video" => \/ pc'[t] \in {"none", "dead", "encode", "fail", "markFailed", "stop"}
                    \/ stopRequested'
  /\ StackShape'

LEMMA AsideKeeps ==
  ASSUME TypeOK, ThreadInv, NEW t \in Threads, t # "adapt", Aside(t)
  PROVE  ThreadInv'
<1> USE DEF ThreadInv, Aside
<1>1. /\ {"starter", "adapt", "video"} \subseteq Threads
      /\ ChannelThreads \subseteq Threads
      /\ "adapt" \notin ChannelThreads /\ "starter" \notin ChannelThreads
  BY ChannelThreadsAssumption DEF Threads
<1>2. pc'["adapt"] = pc["adapt"] /\ OnStack'["adapt"] = OnStack["adapt"]
  BY <1>1
<1>3. \A u \in Threads : /\ Terminated(u) => Terminated(u)' /\ pc'[u] = pc[u]
                         /\ pc'[u] \in Starting => pc'[u] = pc[u]
  BY DEF Terminated
<1>4. Negotiating \cup Building \subseteq Starting /\ Opening \subseteq Starting
      /\ {"connect", "connecting", "newChannel", "build"} \subseteq Starting
  BY DEF Starting, Negotiating, Opening, Building
<1>5. Roles'
  BY <1>1, <1>3, <1>4 DEF Roles
<1>6. AllGone => AllGone'
  BY <1>1, <1>3 DEF AllGone
<1>7. NoVideo => NoVideo'
  BY <1>1, <1>3 DEF NoVideo
<1>8. StarterFirst'
  <2>1. CASE pc'["starter"] \in Starting
    <3>1. pc'["starter"] = pc["starter"]
      BY <1>1, <1>3, <2>1
    <3>2. pc["video"] = "none" => pc'["video"] = "none"
      BY <1>1, <1>3 DEF Terminated
    <3>3. \A c \in ChannelThreads : pc[c] = "none" => pc'[c] = "none"
      BY <1>1, <1>3 DEF Terminated
    <3> QED
      BY <1>2, <2>1, <3>1, <3>2, <3>3 DEF StarterFirst
  <2>2. CASE pc'["starter"] \notin Starting
    BY <1>2, <1>4, <2>2 DEF StarterFirst
  <2> QED
    BY <2>1, <2>2
<1>9. VideoGone'
  <2>1. "video" \notin joinable' => Terminated("video")' \/ stopRequested'
    BY <1>1, <1>3 DEF VideoGone
  <2> QED
    BY <1>2, <1>7, <2>1 DEF VideoGone
<1>10. LinkGone'
  <2>1. WillJoin' <=> WillJoin
    BY <1>2 DEF WillJoin
  <2>2. \A u \in Threads : pc'[u] \in {"connect", "connecting"} => AllGone'
    BY <1>3, <1>4, <1>6 DEF LinkGone
  <2>3. pc'["starter"] \in (Negotiating \ {"newChannel"}) \cup Building => channel'
    BY <1>1, <1>3, <1>4 DEF LinkGone
  <2> QED
    BY <1>2, <1>6, <2>1, <2>2, <2>3 DEF LinkGone
<1> QED
  BY <1>5, <1>8, <1>9, <1>10

(* What the procedures change of the state the invariant speaks of.          *)
LEMMA ProcEffects ==
  ASSUME TypeOK, ThreadInv, NEW t \in Threads, ProcStep(t)
  PROVE  /\ channel' = channel
         /\ mediaStopped' => mediaStopped
         /\ stopRequested => stopRequested'
         /\ joinable' \subseteq joinable
         /\ "video" \in joinable \ joinable' => Terminated("video") \/ stopRequested
<1>1. CASE JoinVideo(t)
  <2>1. t = "video" => stopRequested
    BY <1>1 DEF JoinVideo, ThreadInv, Roles
  <2> QED
    BY <1>1, <2>1 DEF JoinVideo, CanJoin
<1>2. CASE StopMedia(t) \/ FreeMedia(t)
  BY <1>2 DEF StopMedia, FreeMedia
<1>3. CASE StopSteps(t)
  BY <1>3 DEF StopSteps, StopOnce, ToStopping, JoinAdapt, ResetRecovery, ToFinal
<1>4. CASE ReconnectSteps(t)
  BY <1>4 DEF ReconnectSteps, FailSession, MarkFailed, RequestReconnect, OpenWindow,
              ClearFlags, ToReconnecting
<1>5. CASE DisconnectSteps(t)
  BY <1>5 DEF DisconnectSteps, Disconnect, NoChannel, LockChannel, JoinChannel, Notify
<1> QED
  BY <1>1, <1>2, <1>3, <1>4, <1>5 DEF ProcStep, TeardownSteps

(* The encode thread inside its own failure.                                 *)
LEMMA ProcVideo ==
  ASSUME TypeOK, ThreadInv, ProcStep("video"), ~stopRequested
  PROVE  \/ pc'["video"] \in {"none", "dead", "encode", "fail", "markFailed", "stop"}
         \/ stopRequested'
<1>1. pc["video"] \in {"none", "dead", "encode", "fail", "markFailed", "stop"}
  BY DEF ThreadInv, Roles
<1>2. FailSession("video") \/ MarkFailed("video") \/ StopOnce("video")
  BY <1>1 DEF ProcStep, TeardownSteps, StopSteps, ReconnectSteps, DisconnectSteps,
       StopMedia, JoinVideo, FreeMedia, ToStopping, JoinAdapt, ResetRecovery, ToFinal,
       RequestReconnect, OpenWindow, ClearFlags, ToReconnecting,
       Disconnect, NoChannel, LockChannel, JoinChannel, Notify
<1> QED
  BY <1>2 DEF FailSession, MarkFailed, StopOnce, Goto, TypeOK, ControlOK, Threads

LEMMA ProcOthers ==
  ASSUME TypeOK, ThreadInv, NEW t \in Threads, t # "adapt", ProcStep(t)
  PROVE  ThreadInv'
<1>1. ProcMoves(t)
  BY StepMoves DEF TypeOK, ThreadInv
<1>2. ~Terminated(t)
  BY <1>1 DEF ProcMoves, Procs, Terminated
<1>3. pc'[t] \notin Starting
  BY <1>1 DEF ProcMoves, Procs, Continuations, Starting, Opening, Negotiating, Building
<1>4. t = "video" => \/ pc'[t] \in {"none", "dead", "encode", "fail", "markFailed", "stop"}
                     \/ stopRequested'
  BY ProcVideo, ProcEffects
<1>5. Aside(t)
  BY <1>1, <1>2, <1>3, <1>4, ProcEffects DEF Aside, ProcMoves
<1> QED
  BY <1>5, AsideKeeps

(* The supervisor inside a procedure: joining the encode thread and the      *)
(* threads of the channel is what its recovery rests on.                     *)
LEMMA ProcAdapt ==
  ASSUME TypeOK, ThreadInv, TypeOK', ProcStep("adapt")
  PROVE  ThreadInv'
<1> USE DEF ThreadInv
<1>1. ProcMoves("adapt")
  BY StepMoves DEF TypeOK, Threads
<1>2. /\ {"starter", "adapt", "video"} \subseteq Threads
      /\ ChannelThreads \subseteq Threads
      /\ "adapt" \notin ChannelThreads
  BY ChannelThreadsAssumption DEF Threads
<1>3. /\ \A u \in Threads \ {"adapt"} : pc'[u] = pc[u] /\ OnStack'[u] = OnStack[u]
      /\ pc["adapt"] \in Procs /\ pc'["adapt"] \in Procs \cup Continuations
      /\ pc'["adapt"] \in Procs \/ pc'["adapt"] \in OnStack["adapt"]
      /\ OnStack'["adapt"] \subseteq OnStack["adapt"] \cup {"joinAdapt", "resetRecovery"}
      /\ OnStack["adapt"] \subseteq OnStack'["adapt"] \cup {pc'["adapt"]}
      /\ StackShape'
  BY <1>1 DEF ProcMoves
<1>4. /\ channel' = channel
      /\ mediaStopped' => mediaStopped
      /\ stopRequested => stopRequested'
      /\ joinable' \subseteq joinable
      /\ "video" \in joinable \ joinable' => Terminated("video") \/ stopRequested
  BY <1>2, ProcEffects
<1>5. pc["starter"] \notin Starting
  BY <1>3 DEF StarterFirst, Procs
<1>6. pc'["starter"] = pc["starter"] /\ pc'["video"] = pc["video"]
      /\ \A c \in ChannelThreads : pc'[c] = pc[c]
  BY <1>2, <1>3
<1>7. Roles'
  BY <1>3, <1>4, <1>6 DEF Roles, Procs, Continuations, Negotiating, Building
<1>8. StarterFirst'
  BY <1>3, <1>5, <1>6 DEF StarterFirst, Procs, Continuations, Starting
<1>9. AllGone' <=> AllGone
  BY <1>6 DEF AllGone, Terminated
<1>10. NoVideo => NoVideo'
  BY <1>4, <1>6 DEF NoVideo, Terminated
<1>11. VideoGone'
  <2>1. "video" \notin joinable' => Terminated("video")' \/ stopRequested'
    BY <1>4, <1>6 DEF VideoGone, Terminated
  <2>2. CASE StopMedia("adapt")
    <3>1. pc'["adapt"] = "joinVideo"
      BY <1>2, <2>2 DEF StopMedia, Goto, TypeOK, ControlOK
    <3> QED
      BY <2>1, <3>1 DEF VideoGone, Negotiating
  <2>3. CASE JoinVideo("adapt")
    <3>1. pc'["adapt"] = "freeMedia" /\ "video" \notin joinable'
      BY <1>2, <2>3 DEF JoinVideo, Goto, TypeOK, ControlOK
    <3>2. NoVideo' \/ stopRequested'
      BY <2>1, <3>1 DEF NoVideo
    <3> QED
      BY <2>1, <3>1, <3>2 DEF VideoGone, Negotiating
  <2>4. CASE ~StopMedia("adapt") /\ ~JoinVideo("adapt")
    <3>1. pc["adapt"] \notin {"stopMedia", "joinVideo"}
      BY <2>4 DEF ProcStep, TeardownSteps, FreeMedia, StopSteps, StopOnce, ToStopping,
           JoinAdapt, ResetRecovery, ToFinal, ReconnectSteps, FailSession, MarkFailed,
           RequestReconnect, OpenWindow, ClearFlags, ToReconnecting, DisconnectSteps,
           Disconnect, NoChannel, LockChannel, JoinChannel, Notify
    <3>2. mediaStopped' => NoVideo' \/ stopRequested'
      BY <1>3, <1>4, <1>10, <3>1 DEF VideoGone, Procs
    <3>3. "retry" \in OnStack["adapt"] => NoVideo' \/ stopRequested'
      BY <1>4, <1>10, <3>1 DEF VideoGone
    <3>4. /\ "retry" \in OnStack'["adapt"] => "retry" \in OnStack["adapt"]
          /\ pc'["adapt"] = "retry" => "retry" \in OnStack["adapt"]
          /\ pc'["adapt"] \notin {"backoff", "build"} \cup Negotiating
      BY <1>3 DEF Procs, Continuations, Negotiating
    <3> QED
      BY <2>1, <3>2, <3>3, <3>4 DEF VideoGone
  <2> QED
    BY <2>2, <2>3, <2>4
<1>12. LinkGone'
  <2>1. WillJoin => WillJoin' \/ AllGone
    <3>1. CASE JoinChannel("adapt")
      BY <1>2, <3>1 DEF JoinChannel, AllGone
    <3>2. CASE NoChannel("adapt")
      BY <3>2 DEF NoChannel, LinkGone
    <3>3. CASE Disconnect("adapt") \/ LockChannel("adapt")
      <4>1. pc'["adapt"] \in {"lockChannel", "joinChannel"}
        BY <1>2, <3>3 DEF Disconnect, LockChannel, Goto, TypeOK, ControlOK
      <4> QED
        BY <4>1 DEF WillJoin
    <3>4. CASE pc["adapt"] \notin {"disconnect", "lockChannel", "joinChannel"}
      BY <1>3, <3>4 DEF WillJoin
    <3>5. pc["adapt"] \in {"disconnect", "lockChannel", "joinChannel"} =>
            Disconnect("adapt") \/ LockChannel("adapt") \/ JoinChannel("adapt") \/ NoChannel("adapt")
      BY DEF ProcStep, TeardownSteps, StopMedia, JoinVideo, FreeMedia, StopSteps, StopOnce, ToStopping,
           JoinAdapt, ResetRecovery, ToFinal, ReconnectSteps, FailSession, MarkFailed,
           RequestReconnect, OpenWindow, ClearFlags, ToReconnecting, DisconnectSteps, Notify
    <3> QED
      BY <3>1, <3>2, <3>3, <3>4, <3>5
  <2>2. /\ "retry" \in OnStack'["adapt"] => "retry" \in OnStack["adapt"]
        /\ pc'["adapt"] = "retry" => "retry" \in OnStack["adapt"]
        /\ pc'["adapt"] \notin {"backoff", "newChannel", "connect", "connecting"}
    BY <1>3 DEF Procs, Continuations
  <2>3. \A u \in Threads : pc'[u] \in {"connect", "connecting"} => AllGone'
    BY <1>3, <1>9, <2>2 DEF LinkGone
  <2>4. mediaStopped' => AllGone' \/ WillJoin'
    BY <1>3, <1>4, <1>9, <2>1 DEF LinkGone, Procs, Negotiating, Building
  <2>5. "retry" \in OnStack["adapt"] => AllGone' \/ WillJoin'
    BY <1>9, <2>1 DEF LinkGone
  <2>6. pc'["adapt"] = "retry" => AllGone'
    <3>1. CASE NoChannel("adapt")
      BY <3>1, <1>3 DEF NoChannel, LinkGone, Procs
    <3>2. CASE pc'["adapt"] = "retry" /\ ~NoChannel("adapt")
      <4>1. OnStack'["adapt"] = {}
        BY <1>2, <1>3, <3>2, NextBodyStack DEF Procs, TypeOK
      <4> QED
        BY <1>9, <2>1, <2>2, <3>2, <4>1 DEF LinkGone, WillJoin
    <3> QED
      BY <3>1, <3>2
  <2>7. channel'
    BY <1>3, <1>4 DEF LinkGone, Procs
  <2> QED
    BY <2>2, <2>3, <2>4, <2>5, <2>6, <2>7 DEF LinkGone
<1> QED
  BY <1>3, <1>7, <1>8, <1>11, <1>12

-----------------------------------------------------------------------------
(* A step of Start() before anything is built.                               *)
LEMMA StarterMoves ==
  ASSUME TypeOK, ThreadInv, pc["starter"] \in Opening \cup Negotiating, NEW l,
         Goto("starter", l),
         l \notin Procs /\ l \notin {"startCapture", "checkCapture"},
         joinable' = joinable, mediaStopped' = mediaStopped, channel => channel',
         l \in (Negotiating \ {"newChannel"}) \cup Building => channel',
         l \in Opening \cup {"newChannel", "connect", "connecting"}
           => pc["starter"] \in Opening \cup {"newChannel", "connect"}
  PROVE  ThreadInv'
<1> USE DEF ThreadInv
<1>1. /\ {"starter", "adapt", "video"} \subseteq Threads
      /\ ChannelThreads \subseteq Threads
      /\ "adapt" \notin ChannelThreads /\ "starter" \notin ChannelThreads
  BY ChannelThreadsAssumption DEF Threads
<1>2. pc["starter"] \in Starting \ {"startCapture", "checkCapture"}
      /\ pc["starter"] \notin Procs
  BY DEF Starting, Opening, Negotiating, Procs
<1>3. /\ pc["adapt"] = "none" /\ pc["video"] = "none"
      /\ "adapt" \notin joinable /\ "video" \notin joinable /\ ~mediaStopped
  BY <1>2 DEF StarterFirst
<1>4. /\ pc'["starter"] = l
      /\ \A u \in Threads \ {"starter"} : pc'[u] = pc[u]
      /\ OnStack' = OnStack
  BY <1>1, GotoStack DEF TypeOK, ControlOK
<1>5. OnStack["adapt"] = {}
  BY <1>1, <1>3, BodyStack DEF TypeOK, Procs
<1>6. StackShape'
  BY <1>1, <1>2, GotoShape DEF TypeOK
<1>7. pc'["adapt"] = "none" /\ pc'["video"] = "none"
      /\ \A c \in ChannelThreads : pc'[c] = pc[c]
  BY <1>1, <1>3, <1>4
<1>8. Roles'
  BY <1>4, <1>7 DEF Roles
<1>9. StarterFirst'
  BY <1>3, <1>4, <1>7 DEF StarterFirst
<1>10. VideoGone'
  BY <1>3, <1>4, <1>5, <1>7 DEF VideoGone, NoVideo, Terminated, Negotiating
<1>11. LinkGone'
  <2>1. ASSUME NEW u \in Threads, pc'[u] \in {"connect", "connecting"}  PROVE AllGone'
    <3>1. u = "starter"
      BY <1>4, <1>7, <2>1, <1>8 DEF Roles, Negotiating
    <3>2. \A c \in ChannelThreads : pc[c] = "none"
      BY <1>4, <2>1, <3>1 DEF StarterFirst
    <3> QED
      BY <1>7, <3>2 DEF AllGone, Terminated
  <2> QED
    BY <1>3, <1>4, <1>5, <1>7, <2>1 DEF LinkGone
<1> QED
  BY <1>6, <1>8, <1>9, <1>10, <1>11

(* The starter gives up: it leaves Start() by way of the failure path.       *)
LEMMA StarterFails ==
  ASSUME TypeOK, ThreadInv, ~Terminated("starter"),
         \/ Goto("starter", "startFailed") /\ pc["starter"] \notin Procs
         \/ Goto("starter", "returned") /\ pc["starter"] \notin Procs
         \/ /\ pc["starter"] \notin Procs
            /\ \/ Call("starter", "stop", <<"returned">>)
               \/ Call("starter", "joinVideo", <<"startFailed">>),
         joinable' = joinable, mediaStopped' = mediaStopped, channel' = channel,
         stopRequested' = stopRequested
  PROVE  ThreadInv'
<1>1. "starter" \in Threads /\ ControlOK /\ StackShape
  BY DEF Threads, TypeOK, ThreadInv
<1>2. /\ StackShape'
      /\ pc'["starter"] \in {"startFailed", "returned", "stop", "joinVideo"}
      /\ \A u \in Threads \ {"starter"} : pc'[u] = pc[u] /\ OnStack'[u] = OnStack[u]
  <2>1. ASSUME NEW l \in {"startFailed", "returned"}, Goto("starter", l)
        PROVE  /\ StackShape'
               /\ pc'["starter"] \in {"startFailed", "returned", "stop", "joinVideo"}
               /\ \A u \in Threads \ {"starter"} : pc'[u] = pc[u] /\ OnStack'[u] = OnStack[u]
    <3>1. l \notin Procs
      BY DEF Procs
    <3> QED
      BY <1>1, <2>1, <3>1, GotoStack, GotoShape DEF ControlOK
  <2>2. CASE Call("starter", "stop", <<"returned">>)
    BY <1>1, <2>2, Enter1 DEF Procs, Continuations, ControlOK
  <2>3. CASE Call("starter", "joinVideo", <<"startFailed">>)
    BY <1>1, <2>3, Enter1 DEF Procs, Continuations, ControlOK
  <2> QED
    BY <2>1, <2>2, <2>3
<1>3. Aside("starter")
  BY <1>2 DEF Aside, Starting, Opening, Negotiating, Building
<1> QED
  BY <1>1, <1>3, AsideKeeps

(* A step of the supervisor in its own body, from what the invariant asks of *)
(* the place it reaches.                                                     *)
LEMMA AdaptMoves ==
  ASSUME TypeOK, ThreadInv, NEW l, NEW S,
         pc["adapt"] # "none", l # "none", l \notin Opening,
         pc' = [pc EXCEPT !["adapt"] = l],
         \A u \in Threads \ {"adapt"} : OnStack'[u] = OnStack[u],
         OnStack'["adapt"] = S, StackShape',
         joinable' = joinable, channel => channel',
         stopRequested' = stopRequested,
         mediaStopped' =>
           \/ l \in {"stopMedia", "joinVideo", "startCapture", "checkCapture",
                     "recovered", "rearm"}
           \/ NoVideo \/ stopRequested,
         l \in {"retry", "backoff"} \cup Negotiating => NoVideo \/ stopRequested,
         "retry" \in S => l \in {"stopMedia", "joinVideo"} \/ NoVideo \/ stopRequested,
         l = "build" => NoVideo,
         l \in {"connect", "connecting", "retry", "backoff", "newChannel"} => AllGone,
         mediaStopped' =>
           \/ AllGone \/ l \in {"disconnect", "lockChannel", "joinChannel"} \/ "disconnect" \in S
           \/ l \in (Negotiating \ {"newChannel", "connect", "connecting"})
                      \cup Building \cup {"recovered", "rearm"},
         "retry" \in S => \/ AllGone \/ l \in {"disconnect", "lockChannel", "joinChannel"}
                          \/ "disconnect" \in S
  PROVE  ThreadInv'
<1> USE DEF ThreadInv
<1>1. /\ {"starter", "adapt", "video"} \subseteq Threads
      /\ ChannelThreads \subseteq Threads
      /\ "adapt" \notin ChannelThreads
  BY ChannelThreadsAssumption DEF Threads
<1>2. /\ pc'["adapt"] = l /\ pc'["starter"] = pc["starter"] /\ pc'["video"] = pc["video"]
      /\ \A u \in Threads \ {"adapt"} : pc'[u] = pc[u]
  BY <1>1 DEF TypeOK, ControlOK
<1>3. \A c \in ChannelThreads : pc'[c] = pc[c]
  BY <1>1, <1>2
<1>4. pc["starter"] \notin Starting /\ channel
  BY DEF StarterFirst, LinkGone
<1>5. /\ AllGone' <=> AllGone
      /\ NoVideo' <=> NoVideo
      /\ Terminated("video")' <=> Terminated("video")
  BY <1>2, <1>3 DEF AllGone, NoVideo, Terminated
<1>6. Roles'
  BY <1>2 DEF Roles
<1>7. StarterFirst'
  BY <1>2, <1>4 DEF StarterFirst, Starting
<1>8. VideoGone'
  BY <1>2, <1>5 DEF VideoGone
<1>9. LinkGone'
  <2>1. \A u \in Threads : pc'[u] \in {"connect", "connecting"} => AllGone'
    BY <1>2, <1>5 DEF LinkGone
  <2>2. WillJoin' <=> \/ l \in {"disconnect", "lockChannel", "joinChannel"} \/ "disconnect" \in S
    BY <1>2 DEF WillJoin
  <2>3. pc'["starter"] \notin (Negotiating \ {"newChannel"}) \cup Building
    BY <1>2, <1>4 DEF Starting
  <2>4. channel'
    BY <1>4
  <2> QED
    BY <1>2, <1>5, <2>1, <2>2, <2>3, <2>4 DEF LinkGone
<1> QED
  BY <1>6, <1>7, <1>8, <1>9

LEMMA StartKeeps ==
  ASSUME TypeOK, ThreadInv, StartSteps
  PROVE  ThreadInv'
<1>1. CASE StartBegin
  BY <1>1, StarterMoves DEF StartBegin, Opening, Negotiating, Building, Procs
<1>2. CASE ToConnecting
  BY <1>2, StarterMoves DEF ToConnecting, Opening, Negotiating, Building, Procs
<1>3. CASE OpenCapture
  <2>1. CASE Goto("starter", "newChannel")
    BY <1>3, <2>1, StarterMoves DEF OpenCapture, Opening, Negotiating, Building, Procs
  <2>2. CASE Goto("starter", "awaitFirstFrame")
    BY <1>3, <2>2, StarterMoves DEF OpenCapture, Opening, Negotiating, Building, Procs
  <2>3. CASE Goto("starter", "startFailed")
    BY <1>3, <2>3, StarterFails DEF OpenCapture, Terminated, Procs
  <2> QED
    BY <1>3, <2>1, <2>2, <2>3 DEF OpenCapture
<1>4. CASE AwaitFirstFrame
  <2>1. CASE Goto("starter", "newChannel")
    BY <1>4, <2>1, StarterMoves DEF AwaitFirstFrame, Opening, Negotiating, Building, Procs
  <2>2. CASE Goto("starter", "startFailed") \/ Call("starter", "stop", <<"returned">>)
    BY <1>4, <2>2, StarterFails DEF AwaitFirstFrame, Terminated, Procs
  <2> QED
    BY <1>4, <2>1, <2>2 DEF AwaitFirstFrame
<1>5. CASE StartFailed
  BY <1>5, StarterFails DEF StartFailed, Terminated, Procs
<1>6. CASE StartSucceeded
  BY <1>6, StarterFails DEF StartSucceeded, Terminated, Procs
<1> QED
  BY <1>1, <1>2, <1>3, <1>4, <1>5, <1>6 DEF StartSteps

(* The supervisor gives an attempt up.                                       *)
LEMMA AdaptFails ==
  ASSUME TypeOK, ThreadInv, NEW l \in {"stopMedia", "joinVideo"}, NEW S,
         pc["adapt"] # "none", "retry" \notin S, "disconnect" \in S,
         pc' = [pc EXCEPT !["adapt"] = l],
         \A u \in Threads \ {"adapt"} : OnStack'[u] = OnStack[u],
         OnStack'["adapt"] = S, StackShape',
         joinable' = joinable, channel' = channel, stopRequested' = stopRequested
  PROVE  ThreadInv'
BY AdaptMoves DEF Negotiating, Opening, Building

LEMMA AttemptFails ==
  ASSUME TypeOK, ThreadInv, NEW t \in Threads, Fail(t), pc[t] \in Negotiating,
         joinable' = joinable, mediaStopped' = mediaStopped, channel' = channel,
         stopRequested' = stopRequested
  PROVE  ThreadInv'
<1>1. t \in {"starter", "adapt"}
  BY DEF ThreadInv, Roles
<1>2. CASE t = "starter"
  BY <1>2, StarterFails DEF Fail, Terminated, Negotiating, Procs
<1>3. CASE t = "adapt"
  <2>1. /\ StackShape'
        /\ pc' = [pc EXCEPT !["adapt"] = "stopMedia"]
        /\ \A u \in Threads \ {"adapt"} : OnStack'[u] = OnStack[u]
        /\ OnStack'["adapt"] = {"disconnect", "loop"}
    <3>1. /\ pc["adapt"] \notin Procs /\ "stopMedia" \in Procs
          /\ "disconnect" \in Continuations \cap Procs /\ "loop" \in Continuations \ Procs
      BY <1>3 DEF Negotiating, Procs, Continuations
    <3>2. Call("adapt", "stopMedia", <<"disconnect", "loop">>)
      BY <1>3 DEF Fail
    <3> QED
      BY <1>3, <3>1, <3>2, Enter2 DEF TypeOK, ThreadInv
  <2> QED
    BY <1>3, <2>1, AdaptFails DEF Negotiating
<1> QED
  BY <1>1, <1>2, <1>3

(* It takes the next step of one.                                            *)
LEMMA AttemptMoves ==
  ASSUME TypeOK, ThreadInv, NEW t \in Threads, NEW l, Goto(t, l),
         pc[t] \in Negotiating,
         l \in (Negotiating \ {"newChannel"}) \cup {"build"},
         joinable' = joinable, mediaStopped' = mediaStopped, channel => channel', channel',
         stopRequested' = stopRequested,
         l \in {"connect", "connecting"} => pc[t] \in {"newChannel", "connect"},
         l = "build" => ~stopRequested
  PROVE  ThreadInv'
<1>1. t \in {"starter", "adapt"}
  BY DEF ThreadInv, Roles
<1>2. l \notin Procs \cup {"none", "startCapture", "checkCapture", "retry", "backoff", "newChannel"}
  BY DEF Negotiating, Procs
<1>3. CASE t = "starter"
  BY <1>2, <1>3, StarterMoves DEF Opening, Negotiating
<1>4. CASE t = "adapt"
  <2>1. /\ StackShape'
        /\ pc' = [pc EXCEPT !["adapt"] = l]
        /\ OnStack' = OnStack /\ OnStack["adapt"] = {}
    BY <1>2, <1>4, GotoStack, GotoShape, BodyStack DEF TypeOK, ThreadInv, Negotiating, Procs
  <2>2. NoVideo \/ stopRequested
    BY <1>4 DEF ThreadInv, VideoGone
  <2>3. l \in {"connect", "connecting"} => AllGone
    BY <1>4 DEF ThreadInv, LinkGone
  <2>4. pc["adapt"] # "none" /\ l # "none" /\ l \notin Opening
    BY <1>4 DEF Negotiating, Opening
  <2>5. \/ l \in {"connect", "connecting"}
        \/ l \in (Negotiating \ {"newChannel", "connect", "connecting"})
                      \cup Building \cup {"recovered", "rearm"}
    BY DEF Building
  <2> QED
    BY <1>2, <2>1, <2>2, <2>3, <2>4, <2>5, AdaptMoves
<1> QED
  BY <1>1, <1>3, <1>4

(* The channel's threads begin, and there were none.                         *)
LEMMA ConnectedKeeps ==
  ASSUME TypeOK, ThreadInv, NEW t \in Threads, pc[t] = "connecting",
         Spawn(t, "authenticate", ChannelThreads),
         joinable' = joinable, mediaStopped' = mediaStopped, channel' = channel,
         stopRequested' = stopRequested
  PROVE  ThreadInv'
<1> USE DEF ThreadInv
<1>1. /\ {"starter", "adapt", "video"} \subseteq Threads
      /\ ChannelThreads \subseteq Threads
      /\ \A c \in ChannelThreads : c \notin {"starter", "adapt", "video"}
  BY ChannelThreadsAssumption DEF Threads
<1>2. AllGone /\ t \in {"starter", "adapt"}
  BY DEF LinkGone, Roles, Negotiating
<1>3. StackShape' /\ OnStack' = OnStack
  <2>1. \A u \in (ChannelThreads \cap Threads) \cup {t} : pc[u] \notin Procs
    BY <1>2 DEF AllGone, Terminated, Procs
  <2> QED
    BY <2>1, SpawnShape, ChannelThreadsAssumption DEF TypeOK, Procs
<1>4. /\ pc'[t] = "authenticate"
      /\ \A u \in {"starter", "adapt", "video"} \ {t} : pc'[u] = pc[u]
      /\ \A c \in ChannelThreads : pc'[c] \in {"receive", "beat"}
  BY <1>1, <1>2, ChannelThreadsAssumption DEF Spawn, FirstLabel
<1>5. OnStack["adapt"] = {} \/ t = "starter"
  BY <1>1, <1>2, BodyStack DEF TypeOK, Procs
<1>6. \A u \in Threads : u \in {"starter", "adapt", "video", "owner"} \cup ChannelThreads
  BY DEF Threads
<1>7. \A u \in Threads : \/ u = t
                         \/ pc'[u] = pc[u]
                         \/ pc'[u] \in {"receive", "beat"}
  BY <1>4 DEF Spawn
<1>8. Roles'
  BY <1>1, <1>2, <1>4, <1>7 DEF Roles, Negotiating, Building
<1>9. StarterFirst'
  BY <1>1, <1>2, <1>4 DEF StarterFirst, Starting, Opening, Negotiating
<1>10. VideoGone'
  BY <1>1, <1>2, <1>3, <1>4 DEF VideoGone, NoVideo, Terminated, Negotiating
<1>11. LinkGone'
  <2>1. CASE t = "starter"
    <3>1. pc["adapt"] = "none" /\ ~mediaStopped /\ channel
      BY <2>1 DEF StarterFirst, LinkGone, Starting, Negotiating
    <3>2. OnStack["adapt"] = {}
      BY <1>1, <3>1, BodyStack DEF TypeOK, Procs
    <3>3. \A u \in Threads : pc'[u] \notin {"connect", "connecting"}
      BY <1>4, <1>7, <1>8, <2>1, <3>1 DEF Roles, Negotiating
    <3> QED
      BY <1>1, <1>3, <1>4, <2>1, <3>1, <3>2, <3>3 DEF LinkGone
  <2>2. CASE t = "adapt"
    <3>1. channel /\ pc["starter"] \notin Starting
      BY <2>2 DEF LinkGone, StarterFirst
    <3>2. \A u \in Threads : pc'[u] \notin {"connect", "connecting"}
      BY <1>4, <1>7, <1>8, <2>2, <3>1 DEF Roles, Negotiating, Starting
    <3> QED
      BY <1>1, <1>3, <1>4, <1>5, <2>2, <3>1, <3>2 DEF LinkGone, Negotiating
  <2> QED
    BY <1>2, <2>1, <2>2
<1> QED
  BY <1>3, <1>8, <1>9, <1>10, <1>11

LEMMA NegotiateKeeps ==
  ASSUME TypeOK, ThreadInv, NEW t \in Threads, NegotiateSteps(t) \/ LockPipeline(t)
  PROVE  ThreadInv'
<1>1. CASE NewChannel(t)
  BY <1>1, AttemptMoves DEF NewChannel, Negotiating
<1>2. pc[t] \in Negotiating \ {"newChannel"} => channel
  BY DEF ThreadInv, LinkGone, Roles, Negotiating
<1>3. CASE Connect(t)
  BY <1>2, <1>3, AttemptMoves DEF Connect, Negotiating
<1>4. CASE Connected(t)
  <2>1. CASE Fail(t)
    BY <1>4, <2>1, AttemptFails DEF Connected, Negotiating
  <2>2. CASE Spawn(t, "authenticate", ChannelThreads)
    BY <1>4, <2>2, ConnectedKeeps DEF Connected
  <2> QED
    BY <1>4, <2>1, <2>2 DEF Connected
<1>5. CASE Authenticate(t)
  <2>1. CASE Fail(t)
    BY <1>5, <2>1, AttemptFails DEF Authenticate, Negotiating
  <2>2. CASE Goto(t, "launch")
    BY <1>2, <1>5, <2>2, AttemptMoves DEF Authenticate, Negotiating
  <2> QED
    BY <1>5, <2>1, <2>2 DEF Authenticate
<1>6. CASE Launch(t)
  BY <1>2, <1>6, AttemptMoves DEF Launch, Negotiating
<1>7. CASE AwaitLaunch(t)
  <2>1. CASE Fail(t)
    BY <1>7, <2>1, AttemptFails DEF AwaitLaunch, Negotiating
  <2>2. CASE Goto(t, "offer")
    BY <1>2, <1>7, <2>2, AttemptMoves DEF AwaitLaunch, Negotiating
  <2> QED
    BY <1>7, <2>1, <2>2 DEF AwaitLaunch
<1>8. CASE SendOffer(t)
  BY <1>2, <1>8, AttemptMoves DEF SendOffer, Negotiating
<1>9. CASE AwaitAnswer(t)
  <2>1. CASE Fail(t)
    BY <1>9, <2>1, AttemptFails DEF AwaitAnswer, Negotiating
  <2>2. CASE Goto(t, "lockPipeline")
    BY <1>2, <1>9, <2>2, AttemptMoves DEF AwaitAnswer, Negotiating
  <2> QED
    BY <1>9, <2>1, <2>2 DEF AwaitAnswer
<1>10. CASE LockPipeline(t)
  <2>1. CASE stopRequested /\ Fail(t)
    BY <1>10, <2>1, AttemptFails DEF LockPipeline, Negotiating
  <2>2. CASE ~stopRequested /\ Goto(t, "build")
    BY <1>2, <1>10, <2>2, AttemptMoves DEF LockPipeline, Negotiating
  <2> QED
    BY <1>10, <2>1, <2>2 DEF LockPipeline
<1> QED
  BY <1>1, <1>3, <1>4, <1>5, <1>6, <1>7, <1>8, <1>9, <1>10 DEF NegotiateSteps

(* The pipeline is given up: the encode thread it may have is joined.        *)
LEMMA AbandonKeeps ==
  ASSUME TypeOK, ThreadInv, NEW t \in Threads, pc[t] \in Building, AbandonPipeline(t),
         joinable' = joinable, mediaStopped' = mediaStopped, channel' = channel,
         stopRequested' = stopRequested
  PROVE  ThreadInv'
<1>1. t \in {"starter", "adapt"} /\ pc[t] \notin Procs \cup {"none", "dead"}
  BY DEF ThreadInv, Roles, Building, Procs
<1>2. CASE t = "starter"
  BY <1>1, <1>2, StarterFails DEF AbandonPipeline, Failing, Terminated
<1>3. CASE t = "adapt"
  <2>1. Call("adapt", "joinVideo", <<"stopMedia", "disconnect", "loop">>)
    BY <1>3 DEF AbandonPipeline, Failing
  <2>2. /\ "joinVideo" \in Procs /\ "stopMedia" \in Continuations \cap Procs
        /\ "disconnect" \in Continuations \cap Procs /\ "loop" \in Continuations \ Procs
    BY DEF Procs, Continuations
  <2>3. /\ StackShape'
        /\ pc' = [pc EXCEPT !["adapt"] = "joinVideo"]
        /\ \A u \in Threads \ {"adapt"} : OnStack'[u] = OnStack[u]
        /\ OnStack'["adapt"] = {"stopMedia", "disconnect", "loop"}
    BY <1>1, <1>3, <2>1, <2>2, Enter3 DEF TypeOK, ThreadInv
  <2> QED
    BY <1>1, <1>3, <2>3, AdaptFails
<1> QED
  BY <1>1, <1>2, <1>3

(* The encode thread begins where there was none.                            *)
LEMMA BuiltKeeps ==
  ASSUME TypeOK, ThreadInv, NEW t \in Threads, pc[t] = "build",
         Spawn(t, "startCapture", {"video"}), joinable' = joinable \cup {"video"},
         mediaStopped' = mediaStopped, channel' = channel, stopRequested' = stopRequested
  PROVE  ThreadInv'
<1> USE DEF ThreadInv
<1>1. /\ {"starter", "adapt", "video"} \subseteq Threads
      /\ ChannelThreads \subseteq Threads
      /\ \A c \in ChannelThreads : c \notin {"starter", "adapt", "video"}
  BY ChannelThreadsAssumption DEF Threads
<1>2. t \in {"starter", "adapt"}
  BY DEF Roles, Building
<1>3. Terminated("video")
  BY <1>2 DEF StarterFirst, VideoGone, NoVideo, Starting, Building, Terminated
<1>4. StackShape' /\ OnStack' = OnStack
  <2>1. \A u \in ({"video"} \cap Threads) \cup {t} : pc[u] \notin Procs
    BY <1>3 DEF Terminated, Procs
  <2> QED
    BY <2>1, SpawnShape DEF TypeOK, Procs
<1>5. /\ pc'[t] = "startCapture" /\ pc'["video"] = "encode"
      /\ \A u \in Threads \ {t, "video"} : pc'[u] = pc[u]
  BY <1>1, <1>2 DEF Spawn, FirstLabel
<1>6. Roles'
  BY <1>1, <1>2, <1>5 DEF Roles, Negotiating, Building
<1>7. \A c \in ChannelThreads : pc'[c] = pc[c]
  BY <1>1, <1>2, <1>5
<1>8. t = "starter" => pc["adapt"] = "none" /\ ~mediaStopped
  BY DEF StarterFirst, Starting, Building
<1>9. StarterFirst'
  BY <1>1, <1>2, <1>5, <1>7, <1>8 DEF StarterFirst, Starting, Opening, Negotiating, Building
<1>10. OnStack["adapt"] = {}
  BY <1>1, <1>2, <1>8, BodyStack DEF TypeOK, Procs
<1>11. VideoGone'
  BY <1>1, <1>2, <1>4, <1>5, <1>8, <1>10 DEF VideoGone, Negotiating
<1>12. LinkGone'
  <2>1. AllGone' <=> AllGone
    BY <1>7 DEF AllGone, Terminated
  <2>2. \A u \in Threads : pc'[u] \in {"connect", "connecting"} => AllGone'
    BY <1>5, <2>1 DEF LinkGone
  <2>3. channel
    BY <1>2 DEF LinkGone, Building
  <2> QED
    BY <1>1, <1>2, <1>4, <1>5, <1>8, <1>10, <2>1, <2>2, <2>3 DEF LinkGone, Building
<1> QED
  BY <1>4, <1>6, <1>9, <1>11, <1>12

(* The supervisor begins, or finds itself there.                             *)
LEMMA CheckCaptureKeeps ==
  ASSUME TypeOK, ThreadInv, NEW t \in Threads, CheckCapture(t)
  PROVE  ThreadInv'
<1> USE DEF ThreadInv
<1>1. /\ {"starter", "adapt", "video"} \subseteq Threads
      /\ ChannelThreads \subseteq Threads
      /\ \A c \in ChannelThreads : c \notin {"starter", "adapt", "video"}
  BY ChannelThreadsAssumption DEF Threads
<1>2. t \in {"starter", "adapt"} /\ pc[t] = "checkCapture"
  BY DEF Roles, Building, CheckCapture
<1>3. t = "starter" => pc["adapt"] = "none" /\ ~mediaStopped /\ "adapt" \notin joinable
  BY <1>2 DEF StarterFirst, Starting, Building
<1>4. OnStack["adapt"] = {}
  BY <1>1, <1>2, <1>3, BodyStack DEF TypeOK, Procs
<1>5. Spawn(t, Succeeding(t), {"adapt"} \ joinable)
      /\ Succeeding(t) \in {"toStreaming", "recovered"}
  BY DEF CheckCapture, Succeeding
<1>6. StackShape' /\ OnStack' = OnStack
  <2>1. \A u \in (({"adapt"} \ joinable) \cap Threads) \cup {t} : pc[u] \notin Procs
    BY <1>2, <1>3 DEF Procs
  <2>2. Succeeding(t) \notin Procs
    BY <1>5 DEF Procs
  <2> QED
    BY <1>5, <2>1, <2>2, SpawnShape DEF TypeOK
<1>7. /\ t = "starter" => pc'["starter"] = "toStreaming" /\ pc'["adapt"] = "loop"
      /\ t = "adapt" => pc'["adapt"] = "recovered" /\ pc'["starter"] = pc["starter"]
      /\ \A u \in Threads \ {t, "adapt"} : pc'[u] = pc[u]
  BY <1>1, <1>2, <1>3, <1>5 DEF Spawn, Succeeding, FirstLabel
<1>8. pc'["video"] = pc["video"] /\ \A c \in ChannelThreads : pc'[c] = pc[c]
  BY <1>1, <1>2, <1>7
<1>9. /\ joinable' = joinable \cup {"adapt"} /\ mediaStopped' = mediaStopped
      /\ channel' = channel /\ stopRequested' = stopRequested
  BY DEF CheckCapture
<1>10. channel /\ (t = "adapt" => pc["starter"] \notin Starting)
  BY <1>2 DEF LinkGone, StarterFirst, Building
<1>11. Roles'
  BY <1>1, <1>2, <1>7, <1>8, <1>9 DEF Roles, Negotiating, Building
<1>12. StarterFirst'
  BY <1>2, <1>7, <1>8, <1>10, <1>9 DEF StarterFirst, Starting, Opening, Negotiating, Building
<1>13. VideoGone'
  BY <1>2, <1>3, <1>4, <1>6, <1>7, <1>8, <1>9 DEF VideoGone, Terminated, NoVideo, Negotiating
<1>14. LinkGone'
  <2>1. AllGone' <=> AllGone
    BY <1>8 DEF AllGone, Terminated
  <2>2. \A u \in Threads : pc'[u] \in {"connect", "connecting"} => AllGone'
    BY <1>2, <1>7, <2>1 DEF LinkGone
  <2> QED
    BY <1>2, <1>3, <1>4, <1>6, <1>7, <1>9, <1>10, <2>1, <2>2 DEF LinkGone
<1> QED
  BY <1>6, <1>11, <1>12, <1>13, <1>14

LEMMA StartCaptureKeeps ==
  ASSUME TypeOK, ThreadInv, NEW t \in Threads, StartCapture(t), Goto(t, "checkCapture")
  PROVE  ThreadInv'
<1> USE DEF ThreadInv
<1>1. /\ {"starter", "adapt", "video"} \subseteq Threads
      /\ ChannelThreads \subseteq Threads
      /\ \A c \in ChannelThreads : c \notin {"starter", "adapt", "video"}
  BY ChannelThreadsAssumption DEF Threads
<1>2. t \in {"starter", "adapt"} /\ pc[t] = "startCapture"
  BY DEF Roles, Building, StartCapture
<1>3. /\ StackShape' /\ OnStack' = OnStack
      /\ pc' = [pc EXCEPT ![t] = "checkCapture"]
  BY <1>2, GotoStack, GotoShape DEF TypeOK, Procs
<1>4. /\ pc'[t] = "checkCapture" /\ \A u \in Threads \ {t} : pc'[u] = pc[u]
      /\ pc'["video"] = pc["video"] /\ \A c \in ChannelThreads : pc'[c] = pc[c]
  BY <1>1, <1>2, <1>3 DEF TypeOK, ControlOK
<1>5. /\ joinable' = joinable /\ mediaStopped' = mediaStopped
      /\ channel' = channel /\ stopRequested' = stopRequested
  BY DEF StartCapture
<1>6. /\ t = "starter" => pc["adapt"] = "none" /\ ~mediaStopped
      /\ t = "adapt" => pc["starter"] \notin Starting
      /\ OnStack["adapt"] = {}
  <2>1. /\ t = "starter" => pc["adapt"] = "none" /\ ~mediaStopped
        /\ t = "adapt" => pc["starter"] \notin Starting
    BY <1>2 DEF StarterFirst, Starting, Building
  <2> QED
    BY <1>1, <1>2, <2>1, BodyStack DEF TypeOK, Procs
<1>7. Roles'
  BY <1>2, <1>4, <1>5 DEF Roles, Building
<1>8. StarterFirst'
  BY <1>1, <1>2, <1>4, <1>5, <1>6 DEF StarterFirst, Starting, Opening, Negotiating, Building
<1>9. VideoGone'
  BY <1>1, <1>2, <1>3, <1>4, <1>5, <1>6 DEF VideoGone, Terminated, NoVideo, Negotiating
<1>10. LinkGone'
  <2>1. AllGone' <=> AllGone
    BY <1>4 DEF AllGone, Terminated
  <2>2. \A u \in Threads : pc'[u] \in {"connect", "connecting"} => AllGone'
    BY <1>4, <2>1 DEF LinkGone
  <2>3. channel
    BY <1>2 DEF LinkGone, Building
  <2> QED
    BY <1>1, <1>2, <1>3, <1>4, <1>5, <1>6, <2>1, <2>2, <2>3 DEF LinkGone, Building
<1> QED
  BY <1>3, <1>7, <1>8, <1>9, <1>10

LEMMA BuildKeeps ==
  ASSUME TypeOK, ThreadInv, NEW t \in Threads, Build(t) \/ StartCapture(t) \/ CheckCapture(t)
  PROVE  ThreadInv'
<1>1. CASE Build(t)
  <2>1. CASE AbandonPipeline(t)
    <3>1. CASE joinable' = joinable
      BY <1>1, <2>1, <3>1, AbandonKeeps DEF Build, Building
    <3>2. CASE joinable' # joinable
      BY <1>1, <3>2, BuiltKeeps DEF Build
    <3> QED
      BY <3>1, <3>2
  <2>2. CASE ~AbandonPipeline(t)
    BY <1>1, <2>2, BuiltKeeps DEF Build
  <2> QED
    BY <2>1, <2>2
<1>2. CASE StartCapture(t)
  <2>1. CASE AbandonPipeline(t)
    BY <1>2, <2>1, AbandonKeeps DEF StartCapture, Building
  <2>2. CASE Goto(t, "checkCapture")
    BY <1>2, <2>2, StartCaptureKeeps
  <2> QED
    BY <1>2, <2>1, <2>2 DEF StartCapture
<1> QED
  BY <1>1, <1>2, CheckCaptureKeeps

LEMMA AdaptBody ==
  ASSUME TypeOK, ThreadInv, NEW l \in {"dead", "dropMedia", "retry", "backoff", "newChannel",
                                       "rearm", "resume", "loop", "tick"},
         Goto("adapt", l), pc["adapt"] \notin Procs \cup {"none"},
         joinable' = joinable, channel' = channel, stopRequested' = stopRequested,
         mediaStopped' = mediaStopped \/ mediaStopped' = FALSE,
         l \in {"retry", "backoff", "newChannel"} => AllGone /\ (NoVideo \/ stopRequested),
         mediaStopped' => \/ l = "rearm"
                          \/ AllGone /\ (NoVideo \/ stopRequested)
  PROVE  ThreadInv'
<1>1. l \notin Procs \cup Opening \cup {"none"}
  BY DEF Procs, Opening
<1>2. /\ StackShape' /\ OnStack'["adapt"] = {}
      /\ pc' = [pc EXCEPT !["adapt"] = l]
      /\ \A u \in Threads \ {"adapt"} : OnStack'[u] = OnStack[u]
  BY <1>1, GotoStack, GotoShape, BodyStack DEF TypeOK, ThreadInv, Threads
<1> QED
  BY <1>1, <1>2, AdaptMoves DEF Negotiating

LEMMA AdaptCalls ==
  ASSUME TypeOK, ThreadInv, NEW l \in {"fail", "reconnect"}, NEW x \in {"dead", "loop"},
         Call("adapt", l, <<x>>), pc["adapt"] \notin Procs \cup {"none"},
         joinable' = joinable, channel' = channel, stopRequested' = stopRequested,
         mediaStopped' = mediaStopped,
         mediaStopped => AllGone /\ (NoVideo \/ stopRequested)
  PROVE  ThreadInv'
<1>1. l \in Procs /\ x \in Continuations \ Procs
  BY DEF Procs, Continuations
<1>2. /\ StackShape' /\ OnStack'["adapt"] = {x}
      /\ pc' = [pc EXCEPT !["adapt"] = l]
      /\ \A u \in Threads \ {"adapt"} : OnStack'[u] = OnStack[u]
  BY <1>1, Enter1 DEF TypeOK, ThreadInv, Threads
<1> QED
  BY <1>2, AdaptMoves DEF Negotiating, Opening

(* In its own body, outside an attempt, a supervisor that marked the media   *)
(* as stopped has nobody left to join.                                       *)
LEMMA AllJoined ==
  ASSUME TypeOK, ThreadInv, mediaStopped,
         pc["adapt"] \in {"loop", "dropMedia", "retry", "backoff", "resume", "tick"}
  PROVE  AllGone /\ (NoVideo \/ stopRequested)
<1>1. OnStack["adapt"] = {}
  BY BodyStack DEF TypeOK, ThreadInv, Threads, Procs
<1> QED
  BY <1>1 DEF ThreadInv, VideoGone, LinkGone, WillJoin, Negotiating, Building

LEMMA AdaptKeeps ==
  ASSUME TypeOK, ThreadInv, AdaptSteps
  PROVE  ThreadInv'
<1> USE AllJoined DEF Procs
<1>1. CASE Loop
  <2>1. PICK l \in {"dead", "dropMedia", "tick"} : Goto("adapt", l)
    BY <1>1 DEF Loop
  <2> QED
    BY <1>1, <2>1, AdaptBody DEF Loop
<1>2. CASE DropMedia
  <2>1. CASE mediaStopped
    BY <1>2, <2>1, AdaptBody DEF DropMedia
  <2>2. CASE ~mediaStopped
    <3>1. /\ StackShape'
          /\ pc' = [pc EXCEPT !["adapt"] = "stopMedia"]
          /\ \A u \in Threads \ {"adapt"} : OnStack'[u] = OnStack[u]
          /\ OnStack'["adapt"] = {"disconnect", "retry"}
      <4>1. /\ pc["adapt"] \notin Procs /\ "stopMedia" \in Procs
            /\ "disconnect" \in Continuations \cap Procs /\ "retry" \in Continuations \ Procs
        BY <1>2 DEF DropMedia, Procs, Continuations
      <4>2. Call("adapt", "stopMedia", <<"disconnect", "retry">>)
        BY <1>2, <2>2 DEF DropMedia
      <4> QED
        BY <4>1, <4>2, Enter2 DEF TypeOK, ThreadInv, Threads
    <3>2. /\ pc["adapt"] = "dropMedia" /\ joinable' = joinable
          /\ channel' = channel /\ stopRequested' = stopRequested
      BY <1>2 DEF DropMedia
    <3>3. "stopMedia" \notin {"none", "retry", "backoff", "newChannel", "connect", "connecting", "build"}
                             \cup Negotiating \cup Opening
      BY DEF Negotiating, Opening
    <3> QED
      BY <3>1, <3>2, <3>3, AdaptMoves
  <2> QED
    BY <2>1, <2>2
<1>3. CASE Retry
  <2>1. AllGone /\ (NoVideo \/ stopRequested)
    BY <1>3 DEF Retry, ThreadInv, VideoGone, LinkGone
  <2>2. CASE Call("adapt", "fail", <<"dead">>)
    BY <1>3, <2>1, <2>2, AdaptCalls DEF Retry
  <2>3. CASE Goto("adapt", "backoff")
    BY <1>3, <2>1, <2>3, AdaptBody DEF Retry
  <2> QED
    BY <1>3, <2>2, <2>3 DEF Retry
<1>4. CASE Backoff
  <2>1. AllGone /\ (NoVideo \/ stopRequested)
    BY <1>4 DEF Backoff, ThreadInv, VideoGone, LinkGone
  <2>2. PICK l \in {"dead", "newChannel"} : Goto("adapt", l)
    BY <1>4 DEF Backoff
  <2> QED
    BY <1>4, <2>1, <2>2, AdaptBody DEF Backoff
<1>5. CASE Recovered
  BY <1>5, AdaptBody DEF Recovered
<1>6. CASE Rearm
  BY <1>6, AdaptBody DEF Rearm
<1>7. CASE Resume
  BY <1>7, AdaptBody DEF Resume
<1>8. CASE Tick
  <2>1. CASE Call("adapt", "reconnect", <<"loop">>)
    BY <1>8, <2>1, AdaptCalls DEF Tick
  <2>2. CASE Goto("adapt", "dead") \/ Goto("adapt", "loop")
    BY <1>8, <2>2, AdaptBody DEF Tick
  <2> QED
    BY <1>8, <2>1, <2>2 DEF Tick
<1> QED
  BY <1>1, <1>2, <1>3, <1>4, <1>5, <1>6, <1>7, <1>8 DEF AdaptSteps

(* The bodies of the other threads, and what happens to the session from     *)
(* outside.                                                                  *)
LEMMA BodyAside ==
  ASSUME TypeOK, ThreadInv, NEW t \in Threads, NEW l, ~Terminated(t), pc[t] \notin Procs,
         t \notin {"starter", "adapt"},
         \/ Goto(t, l) /\ l \notin Procs
         \/ \E x \in Continuations \ Procs : l \in Procs /\ Call(t, l, <<x>>),
         l \notin Starting,
         channel' = channel, mediaStopped' = mediaStopped, stopRequested' = stopRequested,
         joinable' \subseteq joinable, "video" \notin joinable \ joinable',
         t = "video" => l \in {"dead", "fail"}
  PROVE  ThreadInv'
<1>1. StackShape' /\ pc'[t] = l
      /\ \A u \in Threads \ {t} : pc'[u] = pc[u] /\ OnStack'[u] = OnStack[u]
  <2>1. CASE Goto(t, l) /\ l \notin Procs
    BY <2>1, GotoStack, GotoShape DEF TypeOK, ThreadInv, ControlOK
  <2>2. CASE \E x \in Continuations \ Procs : l \in Procs /\ Call(t, l, <<x>>)
    BY <2>2, Enter1 DEF TypeOK, ThreadInv, ControlOK
  <2> QED
    BY <2>1, <2>2
<1>2. Aside(t)
  BY <1>1 DEF Aside
<1> QED
  BY <1>2, AsideKeeps

LEMMA OwnerKeeps ==
  ASSUME TypeOK, ThreadInv, OwnerSteps \/ OwnerStops \/ SetBitrate
  PROVE  ThreadInv'
<1> USE DEF Terminated, Procs, Starting, Opening, Negotiating, Building, Continuations
<1>1. CASE OwnerStops
  BY <1>1, BodyAside DEF OwnerStops, Threads
<1>2. CASE SetBitrate
  BY <1>2, BodyAside DEF SetBitrate, Threads
<1>3. CASE Release
  <2>1. /\ StackShape' /\ pc'["owner"] = "stop"
        /\ \A u \in Threads \ {"owner"} : pc'[u] = pc[u] /\ OnStack'[u] = OnStack[u]
    <3>1. /\ pc["owner"] \notin Procs /\ "stop" \in Procs /\ "owner" \in Threads
          /\ "stopMedia" \in Continuations \cap Procs /\ "destroyAdapt" \in Continuations \ Procs
      BY <1>3 DEF Release, Threads
    <3>2. Call("owner", "stop", <<"stopMedia", "destroyAdapt">>)
      BY <1>3 DEF Release
    <3> HIDE DEF Procs, Continuations
    <3> QED
      BY <3>1, <3>2, Enter2 DEF TypeOK, ThreadInv, ControlOK
  <2>2. Aside("owner")
    BY <1>3, <2>1 DEF Release, Aside
  <2> QED
    BY <2>2, AsideKeeps DEF Threads
<1>4. CASE DestroyAdapt
  BY <1>4, BodyAside DEF DestroyAdapt, Threads
<1>5. CASE Destroyed
  BY <1>5, BodyAside DEF Destroyed, Threads
<1> QED
  BY <1>1, <1>2, <1>3, <1>4, <1>5 DEF OwnerSteps

LEMMA NobodyMoves ==
  ASSUME ThreadInv,
         UNCHANGED <<pc, stack, joinable, mediaStopped, channel, stopRequested>>
  PROVE  ThreadInv'
<1>1. OnStack' = OnStack
  BY DEF OnStack
<1>2. StackShape'
  BY DEF ThreadInv, StackShape
<1>3. Roles' /\ StarterFirst'
  BY DEF ThreadInv, Roles, StarterFirst
<1>4. VideoGone'
  BY <1>1 DEF ThreadInv, VideoGone, NoVideo, Terminated
<1>5. LinkGone'
  BY <1>1 DEF ThreadInv, LinkGone, AllGone, WillJoin, Terminated
<1> QED
  BY <1>2, <1>3, <1>4, <1>5 DEF ThreadInv

LEMMA ChannelKeeps ==
  ASSUME TypeOK, ThreadInv, NEW t \in ChannelThreads, ChannelSteps(t) \/ ChannelEvents(t)
  PROVE  ThreadInv'
<1>1. t \in Threads /\ t \notin {"starter", "adapt", "video"}
  BY ChannelThreadsAssumption DEF Threads
<1> USE DEF Terminated, Procs, Starting, Opening, Negotiating, Building, Continuations
<1>2. CASE ChannelExit(t)
  BY <1>1, <1>2, BodyAside DEF ChannelExit
<1>3. CASE NotifyLost(t)
  <2>1. CASE Goto(t, "dead")
    BY <1>1, <1>3, <2>1, BodyAside DEF NotifyLost
  <2>2. CASE Call(t, "reconnect", <<"dead">>)
    BY <1>1, <1>3, <2>2, BodyAside DEF NotifyLost
  <2> QED
    BY <1>3, <2>1, <2>2 DEF NotifyLost
<1>4. CASE CloseMessage(t)
  <2>1. CASE Call(t, "fail", <<"receive">>)
    BY <1>1, <1>4, <2>1, BodyAside DEF CloseMessage
  <2>2. CASE Call(t, "reconnect", <<"receive">>)
    BY <1>1, <1>4, <2>2, BodyAside DEF CloseMessage
  <2> QED
    BY <1>4, <2>1, <2>2 DEF CloseMessage
<1>5. CASE ConnectionLost(t)
  BY <1>1, <1>5, BodyAside DEF ConnectionLost
<1>6. CASE ReceiverStatus(t) \/ WebrtcAnswer(t)
  BY <1>6, NobodyMoves DEF ReceiverStatus, WebrtcAnswer
<1> QED
  BY <1>2, <1>3, <1>4, <1>5, <1>6 DEF ChannelSteps, ChannelEvents

LEMMA VideoKeeps ==
  ASSUME TypeOK, ThreadInv, EncodeExit \/ SourceLost
  PROVE  ThreadInv'
<1> USE DEF Terminated, Procs, Starting, Opening, Negotiating, Building, Continuations
<1>1. CASE EncodeExit
  BY <1>1, BodyAside DEF EncodeExit, Threads
<1>2. CASE SourceLost
  BY <1>2, BodyAside DEF SourceLost, Threads
<1> QED
  BY <1>1, <1>2

LEMMA IdleKeeps ==
  ASSUME ThreadInv, WindowExpires \/ UNCHANGED vars
  PROVE  ThreadInv'
BY NobodyMoves DEF WindowExpires, vars

LEMMA InitThreads == Init => ThreadInv
<1> SUFFICES ASSUME Init PROVE ThreadInv
  OBVIOUS
<1>1. \A t \in Threads : pc[t] \in {"start", "own", "none"} /\ stack[t] = <<>>
  BY DEF Init
<1>2. pc["starter"] = "start" /\ pc["adapt"] = "none" /\ pc["video"] = "none"
      /\ \A c \in ChannelThreads : pc[c] = "none"
  BY ChannelThreadsAssumption DEF Init, Threads
<1>3. joinable = {} /\ ~mediaStopped
  BY DEF Init
<1>4. \A t \in Threads : OnStack[t] = {}
  BY <1>1 DEF OnStack
<1>5. StackShape
  BY <1>1 DEF StackShape, Procs
<1>6. Roles
  BY <1>1, <1>2 DEF Roles, Negotiating, Building
<1>7. StarterFirst
  BY <1>2, <1>3 DEF StarterFirst
<1>8. VideoGone
  BY <1>2, <1>3, <1>4 DEF VideoGone, Terminated, Negotiating, Threads
<1>9. LinkGone
  BY <1>1, <1>2, <1>3, <1>4 DEF LinkGone, Negotiating, Building, Threads
<1> QED
  BY <1>5, <1>6, <1>7, <1>8, <1>9 DEF ThreadInv

LEMMA NextThreads == TypeOK /\ ThreadInv /\ [Next]_vars => ThreadInv'
<1> SUFFICES ASSUME TypeOK, ThreadInv, [Next]_vars PROVE ThreadInv'
  OBVIOUS
<1>1. TypeOK'
  BY NextType
<1>2. ASSUME NEW t \in Threads, ProcStep(t)  PROVE ThreadInv'
  BY <1>1, <1>2, ProcOthers, ProcAdapt
<1>3. ASSUME NEW t \in Threads, NegotiateSteps(t) \/ PipelineSteps(t)  PROVE ThreadInv'
  BY <1>3, NegotiateKeeps, BuildKeeps DEF PipelineSteps
<1>4. CASE StartSteps \/ AdaptSteps \/ EncodeExit \/ SourceLost \/ OwnerSteps
             \/ OwnerStops \/ SetBitrate
  BY <1>4, StartKeeps, AdaptKeeps, VideoKeeps, OwnerKeeps
<1>5. ASSUME NEW t \in ChannelThreads, ChannelSteps(t) \/ ChannelEvents(t)  PROVE ThreadInv'
  BY <1>5, ChannelKeeps
<1>6. CASE WindowExpires \/ UNCHANGED vars
  BY <1>6, IdleKeeps
<1> QED
  BY <1>2, <1>3, <1>4, <1>5, <1>6 DEF Next, Environment, Step, ProcStep

(* For every session, with a Stop() as early as one likes: no std::thread    *)
(* handle is assigned over while it is joinable, and a channel is replaced   *)
(* only once its threads are gone.                                           *)
THEOREM NoThreadOverwrittenAlways == Spec => []NoThreadOverwritten
<1>1. TypeOK /\ ThreadInv => NoThreadOverwritten
  <2> SUFFICES ASSUME TypeOK, ThreadInv PROVE NoThreadOverwritten
    OBVIOUS
  <2>1. \A t \in Threads : pc[t] \in {"build", "newChannel"} => t \in {"starter", "adapt"}
    BY DEF ThreadInv, Roles, Negotiating, Building
  <2>2. pc["starter"] = "build" \/ pc["adapt"] = "build" => NoVideo
    BY DEF ThreadInv, StarterFirst, VideoGone, NoVideo, Starting, Building, Terminated
  <2>3. pc["starter"] = "newChannel" \/ pc["adapt"] = "newChannel" => AllGone
    BY DEF ThreadInv, StarterFirst, LinkGone, AllGone, Starting, Negotiating, Terminated
  <2> QED
    BY <2>1, <2>2, <2>3 DEF NoThreadOverwritten, NoVideo, AllGone
<1>2. Init => TypeOK /\ ThreadInv
  BY InitType, InitThreads
<1>3. TypeOK /\ ThreadInv /\ [Next]_vars => (TypeOK /\ ThreadInv)'
  BY NextType, NextThreads
<1> QED
  BY <1>1, <1>2, <1>3, PTL DEF Spec

-----------------------------------------------------------------------------
(* The supervisor.  What follows is about sessions whose owner does not call *)
(* Stop() before Start() has begun.                                          *)

(* The places from which a reconnect is asked for and announced.             *)
Asking == {"openWindow", "clearFlags", "toReconnecting"}

(* Who is where once a stop was requested, and that it was.                  *)
StopAsked ==
  /\ pc["starter"] = "start" => pc["owner"] = "own"
  /\ \A t \in Threads : Stopping(t) => stopRequested
  /\ OnStack["owner"] \subseteq Procs \cup {"own", "release", "destroyAdapt", "freed"}
  /\ pc["owner"] \in {"release", "destroyAdapt", "freed", "gone"} => stopRequested
  /\ OnStack["owner"] \cap {"stopMedia", "destroyAdapt", "freed"} # {} => stopRequested
  /\ "release" \in OnStack["owner"] => stopRequested \/ pc["owner"] = "stop"
  /\ "own" \in OnStack["owner"] => pc["starter"] = "returned"
  /\ pc["owner"] \in Asking => pc["starter"] = "returned"
  /\ pc["video"] \notin Asking

(* A build in progress streams; a session that negotiates for the first time *)
(* is not reconnecting.                                                      *)
FirstTime ==
  /\ \A t \in Threads : pc[t] \in {"startCapture", "checkCapture"} => isStreaming
  /\ pc["starter"] \in Starting => ~renegotiating
  /\ pc["starter"] \in Opening \cup {"newChannel"} => state # "Reconnecting"

(* Where the supervisor has stopped the media, or is about to.               *)
Repairing ==
  \/ pc["adapt"] \in {"dropMedia", "stopMedia", "retry", "backoff", "build", "startCapture"}
                       \cup Negotiating
  \/ OnStack["adapt"] \cap {"retry", "stopMedia"} # {}

(* As long as nobody asked for a stop: only the supervisor takes the media   *)
(* down; a session that streams, or is about to say so, has media or a       *)
(* recovery window, and its supervisor; while Start() has not said           *)
(* "Streaming" a reconnect is announced only with the window open.           *)
Watched ==
  /\ \A t \in Threads : pc[t] = "stopMedia" \/ "stopMedia" \in OnStack[t] => t = "adapt"
  /\ ~Terminated("adapt") => "adapt" \in joinable
  /\ state = "Streaming" \/ pc["starter"] = "toStreaming"
       => ~Terminated("adapt") /\ (isStreaming \/ recovering)
  /\ "dead" \in OnStack["adapt"] => pc["adapt"] \in {"fail", "markFailed", "stop"}
  /\ pc["adapt"] \in {"recovered", "rearm", "resume"} => isStreaming
  /\ Repairing => recovering \/ (state # "Streaming" /\ pc["starter"] # "toStreaming")
  /\ pc["starter"] \in Starting \cup {"toStreaming"} /\ state = "Reconnecting"
       => recovering \/ pc["adapt"] \in {"rearm", "resume"}
  /\ pc["starter"] \in Starting \cup {"toStreaming"}
       => \A t \in Threads : pc[t] \in {"clearFlags", "toReconnecting"} => recovering
  /\ pc["adapt"] \in {"retry", "backoff", "recovered"} \cup Negotiating \cup Building
       /\ pc["starter"] = "toStreaming"
       => recovering /\ \A c \in ChannelThreads : pc[c] \notin {"clearFlags", "toReconnecting"}

SupervisedInv == StopAsked /\ FirstTime /\ (stopRequested \/ Watched)

-----------------------------------------------------------------------------
(* Inside a procedure: which place leads to which, and what changes.         *)
ProcEdges(t) ==
  /\ pc'[t] = "toStopping" => pc[t] = "stop" /\ stopRequested'
  /\ pc'[t] = "toFinal" => pc[t] = "resetRecovery"
  /\ pc'[t] \in {"joinAdapt", "resetRecovery"} => pc'[t] \in OnStack[t]
  /\ pc'[t] = "stopMedia" => pc[t] = "toStopping" \/ "stopMedia" \in OnStack[t]
  /\ pc'[t] = "openWindow" => pc[t] = "reconnect" /\ ~stopRequested
  /\ pc'[t] = "clearFlags" => pc[t] = "openWindow" /\ ~recovering /\ recovering'
  /\ pc'[t] = "toReconnecting" => pc[t] = "clearFlags"
  /\ OnStack'[t] \subseteq OnStack[t] \/ pc[t] \in {"toStopping", "joinAdapt"}
  /\ pc[t] = "stop" => stopRequested'
  /\ pc[t] = "fail" => pc'[t] = "markFailed" \/ stopRequested'
  /\ pc[t] = "markFailed" => pc'[t] = "stop"

ProcState(t) ==
  /\ stopRequested => stopRequested'
  /\ state' = "Streaming" => state = "Streaming"
  /\ state' = "Reconnecting" => state = "Reconnecting" \/ pc[t] = "toReconnecting"
  /\ isStreaming' = isStreaming \/ (pc[t] = "stopMedia" /\ pipelineMutex = NoThread)
  /\ recovering => recovering' \/ pc[t] = "resetRecovery"
  /\ renegotiating' = renegotiating
  /\ "adapt" \in joinable => "adapt" \in joinable' \/ pc[t] = "joinAdapt"

LEMMA TeardownEdges ==
  ASSUME TypeOK, StackShape, NEW t \in Threads, TeardownSteps(t)
  PROVE  ProcEdges(t) /\ ProcState(t)
<1>1. ControlOK
  BY DEF TypeOK
<1>2. CASE StopMedia(t)
  <2>1. pc'[t] = "joinVideo" /\ OnStack' = OnStack /\ pc[t] = "stopMedia"
    BY <1>1, <1>2, GotoStack DEF StopMedia, ControlOK
  <2> QED
    BY <1>2, <2>1 DEF StopMedia, ProcEdges, ProcState
<1>3. CASE JoinVideo(t)
  <2>1. pc'[t] = "freeMedia" /\ OnStack' = OnStack /\ pc[t] = "joinVideo"
    BY <1>1, <1>3, GotoStack DEF JoinVideo, ControlOK
  <2> QED
    BY <1>3, <2>1 DEF JoinVideo, ProcEdges, ProcState
<1>4. CASE FreeMedia(t)
  <2>1. /\ pc'[t] \in Continuations /\ OnStack'[t] \subseteq OnStack[t] /\ pc'[t] \in OnStack[t]
        /\ pc[t] = "freeMedia"
    BY <1>1, <1>4, ReturnStack DEF FreeMedia, ControlOK
  <2> QED
    BY <1>4, <2>1 DEF FreeMedia, ProcEdges, ProcState, Continuations
<1> QED
  BY <1>2, <1>3, <1>4 DEF TeardownSteps

LEMMA StopEdges ==
  ASSUME TypeOK, StackShape, NEW t \in Threads, StopSteps(t)
  PROVE  ProcEdges(t) /\ ProcState(t)
<1>1. ControlOK /\ state \in SessionStates
  BY DEF TypeOK, ObjectsOK
<1>2. CASE StopOnce(t)
  <2>1. CASE Goto(t, "toStopping")
    <3>1. pc'[t] = "toStopping" /\ OnStack' = OnStack /\ pc[t] = "stop"
      BY <1>1, <1>2, <2>1, GotoStack DEF StopOnce, ControlOK
    <3> QED
      BY <1>2, <3>1 DEF StopOnce, ProcEdges, ProcState
  <2>2. CASE Return(t)
    <3>1. /\ pc'[t] \in Continuations /\ OnStack'[t] \subseteq OnStack[t] /\ pc'[t] \in OnStack[t]
          /\ pc[t] = "stop"
      BY <1>1, <1>2, <2>2, ReturnStack DEF StopOnce, ControlOK
    <3> QED
      BY <1>2, <3>1 DEF StopOnce, ProcEdges, ProcState, Continuations
  <2> QED
    BY <1>2, <2>1, <2>2 DEF StopOnce
<1>3. CASE ToStopping(t)
  <2>1. pc'[t] = "stopMedia" /\ pc[t] = "toStopping"
    BY <1>1, <1>3 DEF ToStopping, Call, ControlOK
  <2>2. state' \in {state, "Stopping"}
    BY <1>3 DEF ToStopping, TransitionTo
  <2> QED
    BY <1>3, <2>1, <2>2 DEF ToStopping, ProcEdges, ProcState
<1>4. CASE JoinAdapt(t)
  <2>1. pc'[t] = "disconnect" /\ pc[t] = "joinAdapt"
    BY <1>1, <1>4 DEF JoinAdapt, Call, ControlOK
  <2> QED
    BY <1>4, <2>1 DEF JoinAdapt, ProcEdges, ProcState
<1>5. CASE ResetRecovery(t)
  <2>1. pc'[t] = "toFinal" /\ OnStack' = OnStack /\ pc[t] = "resetRecovery"
    BY <1>1, <1>5, GotoStack DEF ResetRecovery, ControlOK
  <2> QED
    BY <1>5, <2>1 DEF ResetRecovery, ProcEdges, ProcState
<1>6. CASE ToFinal(t)
  <2>1. /\ pc'[t] \in Continuations /\ OnStack'[t] \subseteq OnStack[t] /\ pc'[t] \in OnStack[t]
        /\ pc[t] = "toFinal"
    BY <1>1, <1>6, ReturnStack DEF ToFinal, ControlOK
  <2>2. state' \in {state, "Failed", "Idle"}
    BY <1>6 DEF ToFinal, TransitionTo
  <2> QED
    BY <1>6, <2>1, <2>2 DEF ToFinal, ProcEdges, ProcState, Continuations
<1> QED
  BY <1>2, <1>3, <1>4, <1>5, <1>6 DEF StopSteps

LEMMA ReconnectEdges ==
  ASSUME TypeOK, StackShape, NEW t \in Threads, ReconnectSteps(t)
  PROVE  ProcEdges(t) /\ ProcState(t)
<1>1. ControlOK
  BY DEF TypeOK
<1>2. ASSUME NEW l, Goto(t, l)  PROVE pc'[t] = l /\ OnStack' = OnStack
  BY <1>1, <1>2, GotoStack DEF ControlOK
<1>3. ASSUME Return(t)
      PROVE  pc'[t] \in Continuations /\ OnStack'[t] \subseteq OnStack[t] /\ pc'[t] \in OnStack[t]
  BY <1>1, <1>3, ReturnStack DEF ControlOK
<1> USE DEF ProcEdges, ProcState, Continuations
<1>4. CASE FailSession(t)
  BY <1>2, <1>3, <1>4 DEF FailSession
<1>5. CASE MarkFailed(t)
  BY <1>2, <1>5 DEF MarkFailed
<1>6. CASE RequestReconnect(t)
  BY <1>2, <1>3, <1>6 DEF RequestReconnect
<1>7. CASE OpenWindow(t)
  BY <1>2, <1>3, <1>7 DEF OpenWindow
<1>8. CASE ClearFlags(t)
  BY <1>2, <1>8 DEF ClearFlags
<1>9. CASE ToReconnecting(t)
  BY <1>2, <1>3, <1>9 DEF ToReconnecting
<1> QED
  BY <1>4, <1>5, <1>6, <1>7, <1>8, <1>9 DEF ReconnectSteps

LEMMA DisconnectEdges ==
  ASSUME TypeOK, StackShape, NEW t \in Threads, DisconnectSteps(t)
  PROVE  ProcEdges(t) /\ ProcState(t)
<1>1. ControlOK
  BY DEF TypeOK
<1>2. ASSUME NEW l, Goto(t, l)  PROVE pc'[t] = l /\ OnStack' = OnStack
  BY <1>1, <1>2, GotoStack DEF ControlOK
<1>3. ASSUME Return(t)
      PROVE  pc'[t] \in Continuations /\ OnStack'[t] \subseteq OnStack[t] /\ pc'[t] \in OnStack[t]
  BY <1>1, <1>3, ReturnStack DEF ControlOK
<1> USE DEF ProcEdges, ProcState, Continuations
<1>4. CASE Disconnect(t)
  BY <1>2, <1>4 DEF Disconnect
<1>5. CASE NoChannel(t)
  BY <1>3, <1>5 DEF NoChannel
<1>6. CASE LockChannel(t)
  BY <1>2, <1>6 DEF LockChannel
<1>7. CASE JoinChannel(t)
  BY <1>2, <1>7 DEF JoinChannel
<1>8. CASE Notify(t)
  <2>1. CASE Goto(t, "reconnect")
    BY <1>2, <1>8, <2>1 DEF Notify
  <2>2. CASE Return(t)
    BY <1>3, <1>8, <2>2 DEF Notify
  <2> QED
    BY <1>8, <2>1, <2>2 DEF Notify
<1> QED
  BY <1>4, <1>5, <1>6, <1>7, <1>8 DEF DisconnectSteps

LEMMA StepEdges ==
  ASSUME TypeOK, StackShape, NEW t \in Threads, ProcStep(t)
  PROVE  ProcEdges(t) /\ ProcState(t)
BY TeardownEdges, StopEdges, ReconnectEdges, DisconnectEdges DEF ProcStep

LEMMA StoppingSet ==
  ASSUME NEW t \in Threads
  PROVE  Stopping(t) <=> pc[t] \in StopLabels \/ OnStack[t] \cap StopLabels # {}
BY DEF Stopping, OnStack

LEMMA NextStoppingSet ==
  ASSUME NEW t \in Threads
  PROVE  Stopping(t)' <=> pc'[t] \in StopLabels \/ OnStack'[t] \cap StopLabels # {}
BY DEF Stopping, OnStack

(* The body a procedure returns to is on the stack.                          *)
LEMMA BodyOnStack ==
  ASSUME ControlOK, StackShape, NEW t \in Threads, pc[t] \in Procs
  PROVE  \E x \in OnStack[t] : x \notin Procs
<1>1. stack[t] # <<>> /\ stack[t] \in Seq(Continuations)
  BY DEF StackShape, ControlOK
<1>2. Len(stack[t]) \in 1..Len(stack[t])
  BY <1>1, LenProperties, EmptySeq
<1>3. stack[t][Len(stack[t])] \notin Procs
  BY <1>2 DEF StackShape
<1> QED
  BY <1>2, <1>3 DEF OnStack

LEMMA ProcAsked ==
  ASSUME TypeOK, ThreadInv, SupervisedInv, NEW t \in Threads, ProcStep(t)
  PROVE  StopAsked'
<1>1. ProcMoves(t) /\ ProcEdges(t) /\ ProcState(t)
  BY StepMoves, StepEdges DEF TypeOK, ThreadInv
<1>2. {"starter", "owner", "adapt", "video"} \subseteq Threads
  BY DEF Threads
<1>3. StopAsked /\ StackShape /\ ControlOK
  BY DEF SupervisedInv, ThreadInv, TypeOK
<1>4. \A u \in Threads \ {t} : pc'[u] = pc[u] /\ OnStack'[u] = OnStack[u]
  BY <1>1 DEF ProcMoves
<1>5. pc["starter"] = "returned" => pc'["starter"] = "returned"
  BY <1>1, <1>2, <1>4 DEF ProcMoves, Procs
<1>6. pc'["starter"] = "start" => pc'["owner"] = "own"
  BY <1>1, <1>2, <1>3, <1>4 DEF ProcMoves, Procs, Continuations, StopAsked
<1>7. ASSUME NEW u \in Threads, Stopping(u)'  PROVE stopRequested'
  <2>1. CASE u # t
    BY <1>1, <1>3, <1>4, <1>7, <2>1, StoppingSet, NextStoppingSet DEF StopAsked, ProcState
  <2>2. CASE u = t
    <3>1. pc'[t] \in StopLabels => Stopping(t) \/ stopRequested'
      BY <1>1, StoppingSet DEF ProcEdges, StopLabels
    <3>2. OnStack'[t] \cap StopLabels # {} => Stopping(t)
      BY <1>1, StoppingSet DEF ProcEdges, StopLabels
    <3> QED
      BY <1>1, <1>3, <1>7, <2>2, <3>1, <3>2, NextStoppingSet DEF StopAsked, ProcState
  <2> QED
    BY <2>1, <2>2
<1>8. CASE t # "owner"
  <2>1. pc'["owner"] = pc["owner"] /\ OnStack'["owner"] = OnStack["owner"]
    BY <1>2, <1>4, <1>8
  <2>2. pc'["video"] \notin Asking
    <3>1. CASE t = "video"
      <4>1. pc["video"] # "reconnect" \/ stopRequested
        BY DEF ThreadInv, Roles
      <4> QED
        BY <1>1, <1>3, <3>1, <4>1 DEF ProcMoves, ProcEdges, StopAsked, Asking, Procs, Continuations
    <3>2. CASE t # "video"
      BY <1>2, <1>3, <1>4, <3>2 DEF StopAsked
    <3> QED
      BY <3>1, <3>2
  <2>3. stopRequested => stopRequested'
    BY <1>1 DEF ProcState
  <2> QED
    BY <1>3, <1>5, <1>6, <1>7, <2>1, <2>2, <2>3 DEF StopAsked
<1>9. CASE t = "owner"
  <2>1. /\ pc["owner"] \in Procs
        /\ pc'["owner"] \in Procs \/ pc'["owner"] \in OnStack["owner"]
        /\ OnStack'["owner"] \subseteq OnStack["owner"] \cup {"joinAdapt", "resetRecovery"}
        /\ stopRequested => stopRequested'
        /\ pc["owner"] = "stop" => stopRequested'
        /\ pc'["video"] = pc["video"]
    BY <1>1, <1>2, <1>4, <1>9 DEF ProcMoves, ProcEdges, ProcState
  <2>2. OnStack'["owner"] \subseteq Procs \cup {"own", "release", "destroyAdapt", "freed"}
    BY <1>3, <2>1 DEF StopAsked, Procs
  <2>3. pc'["owner"] \in {"release", "destroyAdapt", "freed", "gone"} => stopRequested'
    <3>1. pc'["owner"] = "gone" => FALSE
      BY <1>3, <2>1 DEF StopAsked, Procs
    <3>2. pc'["owner"] \in {"release", "destroyAdapt", "freed"} => pc'["owner"] \in OnStack["owner"]
      BY <2>1 DEF Procs
    <3> QED
      BY <1>3, <2>1, <3>1, <3>2 DEF StopAsked
  <2>4. OnStack'["owner"] \cap {"stopMedia", "destroyAdapt", "freed"} # {} => stopRequested'
    BY <1>3, <2>1 DEF StopAsked
  <2>5. "release" \in OnStack'["owner"] => stopRequested' \/ pc'["owner"] = "stop"
    BY <1>3, <2>1 DEF StopAsked
  <2>6. "own" \in OnStack'["owner"] => pc'["starter"] = "returned"
    BY <1>3, <1>5, <2>1 DEF StopAsked
  <2>7. pc'["owner"] \in Asking => pc'["starter"] = "returned"
    <3>1. CASE pc["owner"] \in Asking
      BY <1>3, <1>5, <3>1 DEF StopAsked
    <3>2. CASE pc'["owner"] \in Asking /\ pc["owner"] \notin Asking
      <4>1. pc["owner"] = "reconnect" /\ ~stopRequested
        BY <1>1, <1>3, <1>9, <3>2, <2>1 DEF ProcEdges, Asking, StopAsked, ProcMoves, Continuations
      <4>2. PICK x \in OnStack["owner"] : x \notin Procs
        BY <1>2, <1>3, <2>1, BodyOnStack
      <4>3. x = "own"
        BY <1>3, <4>1, <4>2 DEF StopAsked
      <4> QED
        BY <1>3, <1>5, <4>2, <4>3 DEF StopAsked
    <3> QED
      BY <3>1, <3>2
  <2>8. pc'["video"] \notin Asking
    BY <1>3, <2>1 DEF StopAsked
  <2> QED
    BY <1>6, <1>7, <2>2, <2>3, <2>4, <2>5, <2>6, <2>7, <2>8 DEF StopAsked
<1> QED
  BY <1>8, <1>9

LEMMA ProcFirst ==
  ASSUME TypeOK, ThreadInv, PipelineInv, SupervisedInv, NEW t \in Threads, ProcStep(t)
  PROVE  FirstTime'
<1>1. ProcMoves(t) /\ ProcEdges(t) /\ ProcState(t)
  BY StepMoves, StepEdges DEF TypeOK, ThreadInv
<1>2. {"starter", "owner", "adapt", "video"} \subseteq Threads
  BY DEF Threads
<1>3. StopAsked /\ FirstTime
  BY DEF SupervisedInv
<1>4. \A u \in Threads \ {t} : pc'[u] = pc[u] /\ OnStack'[u] = OnStack[u]
  BY <1>1 DEF ProcMoves
<1>5. pc'[t] \notin Starting /\ pc[t] \in Procs
  BY <1>1 DEF ProcMoves, Procs, Continuations, Starting, Opening, Negotiating, Building
<1>6. ASSUME NEW u \in Threads, pc'[u] \in {"startCapture", "checkCapture"}  PROVE isStreaming'
  <2>1. u # t /\ pc[u] \in Building /\ isStreaming
    BY <1>3, <1>4, <1>5, <1>6 DEF Starting, Building, FirstTime
  <2>2. ~(pc[t] = "stopMedia" /\ pipelineMutex = NoThread)
    BY <2>1, NoHolder DEF PipelineInv
  <2> QED
    BY <1>1, <2>1, <2>2 DEF ProcState
<1>7. pc'["starter"] \in Starting => t # "starter" /\ pc["starter"] = pc'["starter"]
  BY <1>2, <1>4, <1>5
<1>8. pc'["starter"] \in Starting => ~renegotiating'
  BY <1>1, <1>3, <1>7 DEF FirstTime, ProcState
<1>9. pc'["starter"] \in Opening \cup {"newChannel"} => state' # "Reconnecting"
  <2> SUFFICES ASSUME pc'["starter"] \in Opening \cup {"newChannel"} PROVE state' # "Reconnecting"
    OBVIOUS
  <2>1. pc["starter"] \in Opening \cup {"newChannel"} /\ t # "starter"
    BY <1>7 DEF Starting, Negotiating
  <2>2. state # "Reconnecting"
    BY <1>3, <2>1 DEF FirstTime
  <2>3. /\ pc["adapt"] = "none" /\ \A c \in ChannelThreads : pc[c] = "none"
        /\ pc["owner"] # "toReconnecting" /\ pc["video"] # "toReconnecting"
    BY <1>3, <2>1 DEF ThreadInv, StarterFirst, Starting, Negotiating, StopAsked, Asking, Opening
  <2>4. pc[t] # "toReconnecting"
    BY <2>1, <2>3 DEF Threads
  <2> QED
    BY <1>1, <2>2, <2>4 DEF ProcState
<1> QED
  BY <1>6, <1>8, <1>9 DEF FirstTime

LEMMA ProcWatched ==
  ASSUME TypeOK, ThreadInv, ThreadInv', SupervisedInv, NEW t \in Threads, ProcStep(t),
         ~stopRequested'
  PROVE  Watched'
<1>1. ProcMoves(t) /\ ProcEdges(t) /\ ProcState(t)
  BY StepMoves, StepEdges DEF TypeOK, ThreadInv
<1>2. {"starter", "owner", "adapt", "video"} \subseteq Threads
  BY DEF Threads
<1>3. ~stopRequested /\ StopAsked /\ Watched
  BY <1>1 DEF SupervisedInv, ProcState
<1>4. /\ \A u \in Threads \ {t} : pc'[u] = pc[u] /\ OnStack'[u] = OnStack[u]
      /\ pc[t] \in Procs /\ pc'[t] \in Procs \cup Continuations
      /\ pc'[t] \in Procs \/ pc'[t] \in OnStack[t]
  BY <1>1 DEF ProcMoves
<1>5. pc[t] \notin StopLabels \cup {"stop"} /\ OnStack'[t] \subseteq OnStack[t]
  BY <1>1, <1>3, StoppingSet DEF StopAsked, ProcEdges, StopLabels
<1>6. pc[t] = "stopMedia" => t = "adapt"
  BY <1>3 DEF Watched
<1>7. /\ recovering => recovering'
      /\ "adapt" \in joinable => "adapt" \in joinable'
      /\ isStreaming' = isStreaming \/ (t = "adapt" /\ pc["adapt"] = "stopMedia")
  BY <1>1, <1>5, <1>6 DEF ProcState, StopLabels
<1>8. \A u \in Threads : pc'[u] = "stopMedia" \/ "stopMedia" \in OnStack'[u] => u = "adapt"
  <2>1. pc'[t] = "stopMedia" => "stopMedia" \in OnStack[t]
    BY <1>1, <1>5 DEF ProcEdges, StopLabels
  <2> QED
    BY <1>3, <1>4, <1>5, <2>1 DEF Watched
<1>9. Terminated("adapt")' => Terminated("adapt")
  <2>1. CASE t # "adapt"
    BY <1>2, <1>4, <2>1 DEF Terminated
  <2>2. CASE t = "adapt"
    <3>1. pc'["adapt"] \notin {"none", "dead"} \/ ("dead" \in OnStack["adapt"] /\ pc'["adapt"] = "dead")
      BY <1>4, <2>2 DEF Procs, Continuations
    <3>2. "dead" \in OnStack["adapt"] => pc["adapt"] \in {"fail", "markFailed"}
      BY <1>3, <1>5, <2>2 DEF Watched
    <3> QED
      BY <1>1, <2>2, <3>1, <3>2 DEF ProcEdges, Terminated
  <2> QED
    BY <2>1, <2>2
<1>10. pc'["starter"] \in Starting \cup {"toStreaming"} =>
          pc["starter"] = pc'["starter"] /\ t # "starter"
  <2>1. pc'[t] \notin Starting \cup {"toStreaming"}
    BY <1>4 DEF Procs, Continuations, Starting, Opening, Negotiating, Building
  <2> QED
    BY <1>2, <1>4, <2>1
<1>11. pc'["starter"] = "toStreaming" => pc["starter"] = "toStreaming"
  BY <1>10
<1>12. ~Terminated("adapt")' => "adapt" \in joinable'
  <2> SUFFICES ASSUME ~Terminated("adapt")' PROVE "adapt" \in joinable'
    OBVIOUS
  <2>1. ~Terminated("adapt")
    <3>1. t = "adapt" => ~Terminated("adapt")
      BY <1>4 DEF Terminated, Procs
    <3>2. ~Terminated("adapt")' /\ t # "adapt" => ~Terminated("adapt")
      BY <1>2, <1>4 DEF Terminated
    <3> QED
      BY <3>1, <3>2
  <2> QED
    BY <1>3, <1>7, <2>1 DEF Watched
<1>13. state' = "Streaming" => state = "Streaming"
  BY <1>1 DEF ProcState
<1>14. pc["adapt"] = "stopMedia" => recovering \/ (state # "Streaming" /\ pc["starter"] # "toStreaming")
  BY <1>3 DEF Watched, Repairing
<1>15. state' = "Streaming" \/ pc'["starter"] = "toStreaming"
         => ~Terminated("adapt")' /\ (isStreaming' \/ recovering')
  BY <1>3, <1>7, <1>9, <1>11, <1>13, <1>14 DEF Watched
<1>16. "dead" \in OnStack'["adapt"] => pc'["adapt"] \in {"fail", "markFailed", "stop"}
  <2>1. CASE t # "adapt"
    BY <1>2, <1>3, <1>4, <2>1 DEF Watched
  <2>2. CASE t = "adapt"
    BY <1>1, <1>3, <1>5, <2>2 DEF Watched, ProcEdges
  <2> QED
    BY <2>1, <2>2
<1>17. pc'["adapt"] \in {"recovered", "rearm", "resume"} => isStreaming'
  <2>1. pc'["adapt"] \in {"recovered", "rearm", "resume"} => t # "adapt"
    BY <1>4 DEF Procs, Continuations
  <2> QED
    BY <1>2, <1>3, <1>4, <1>7, <2>1 DEF Watched
<1>18. Repairing' => recovering' \/ (state' # "Streaming" /\ pc'["starter"] # "toStreaming")
  <2>1. Repairing' => Repairing
    <3>1. CASE t # "adapt"
      BY <1>2, <1>4, <3>1 DEF Repairing
    <3>2. CASE t = "adapt"
      <4>1. pc'["adapt"] \notin {"dropMedia", "backoff", "build", "startCapture"} \cup Negotiating
        BY <1>4, <3>2 DEF Procs, Continuations, Negotiating
      <4>2. pc'["adapt"] \in {"stopMedia", "retry"} => pc'["adapt"] \in OnStack["adapt"]
        BY <1>1, <1>4, <1>5, <3>2 DEF ProcEdges, StopLabels, Procs
      <4> QED
        BY <1>5, <3>2, <4>1, <4>2 DEF Repairing
    <3> QED
      BY <3>1, <3>2
  <2> QED
    BY <1>3, <1>7, <1>11, <1>13, <2>1 DEF Watched
<1>19. pc[t] = "toReconnecting" /\ pc["starter"] \in Starting \cup {"toStreaming"} => recovering
  BY <1>3 DEF Watched
<1>20. pc'["starter"] \in Starting \cup {"toStreaming"} /\ state' = "Reconnecting"
         => recovering' \/ pc'["adapt"] \in {"rearm", "resume"}
  <2>1. pc["adapt"] \in {"rearm", "resume"} => pc'["adapt"] = pc["adapt"]
    BY <1>2, <1>4 DEF Procs
  <2> QED
    BY <1>1, <1>3, <1>7, <1>10, <1>19, <2>1 DEF Watched, ProcState
<1>21. pc'["starter"] \in Starting \cup {"toStreaming"} =>
         \A u \in Threads : pc'[u] \in {"clearFlags", "toReconnecting"} => recovering'
  <2>1. pc'[t] \in {"clearFlags", "toReconnecting"} => recovering' \/ pc[t] = "clearFlags"
    BY <1>1 DEF ProcEdges
  <2> QED
    BY <1>3, <1>4, <1>7, <1>10, <2>1 DEF Watched
<1>22. pc'["adapt"] \in {"retry", "backoff", "recovered"} \cup Negotiating \cup Building
         /\ pc'["starter"] = "toStreaming"
         => recovering' /\ \A c \in ChannelThreads : pc'[c] \notin {"clearFlags", "toReconnecting"}
  <2> SUFFICES ASSUME pc'["adapt"] \in {"retry", "backoff", "recovered"} \cup Negotiating \cup Building,
                      pc'["starter"] = "toStreaming"
               PROVE  recovering' /\ \A c \in ChannelThreads : pc'[c] \notin {"clearFlags", "toReconnecting"}
    OBVIOUS
  <2>1. pc["starter"] = "toStreaming"
    BY <1>11
  <2>2. CASE t = "adapt"
    <3>1. pc'["adapt"] = "retry" /\ "retry" \in OnStack["adapt"]
      BY <1>4, <2>2 DEF Procs, Continuations, Negotiating, Building
    <3>2. recovering
      BY <1>3, <2>1, <3>1 DEF Watched, Repairing
    <3>3. AllGone'
      BY <3>1 DEF ThreadInv, LinkGone
    <3> QED
      BY <1>7, <3>2, <3>3 DEF AllGone, Terminated
  <2>3. CASE t # "adapt"
    <3>1. pc["adapt"] = pc'["adapt"]
      BY <1>2, <1>4, <2>3
    <3>2. recovering /\ \A c \in ChannelThreads : pc[c] \notin {"clearFlags", "toReconnecting"}
      BY <1>3, <2>1, <3>1 DEF Watched
    <3>3. pc'[t] \in {"clearFlags", "toReconnecting"} => t \notin ChannelThreads
      BY <1>1, <3>2 DEF ProcEdges
    <3>4. \A c \in ChannelThreads : pc'[c] = pc[c] \/ c = t
      BY <1>4 DEF Threads
    <3> QED
      BY <1>7, <3>2, <3>3, <3>4
  <2> QED
    BY <2>2, <2>3
<1> QED
  BY <1>8, <1>12, <1>15, <1>16, <1>17, <1>18, <1>20, <1>21, <1>22 DEF Watched

LEMMA ProcSupervised ==
  ASSUME TypeOK, ThreadInv, ThreadInv', PipelineInv, SupervisedInv, NEW t \in Threads, ProcStep(t)
  PROVE  SupervisedInv'
BY ProcAsked, ProcFirst, ProcWatched DEF SupervisedInv

-----------------------------------------------------------------------------
(* A step of a thread in its own body: it reaches l with S on its stack.     *)
Reaches(t, l, S) ==
  /\ pc[t] \notin Procs /\ OnStack[t] = {}
  /\ pc'[t] = l /\ OnStack'[t] = S
  /\ \A u \in Threads \ {t} : pc'[u] = pc[u] /\ OnStack'[u] = OnStack[u]

LEMMA ReachesGoto ==
  ASSUME TypeOK, ThreadInv, NEW t \in Threads, NEW l, Goto(t, l), pc[t] \notin Procs
  PROVE  Reaches(t, l, {})
<1>1. OnStack[t] = {}
  BY BodyStack DEF TypeOK, ThreadInv
<1> QED
  BY <1>1, GotoStack DEF TypeOK, ControlOK, Reaches

LEMMA ReachesOne ==
  ASSUME TypeOK, ThreadInv, NEW t \in Threads, NEW l \in Procs, pc[t] \notin Procs,
         NEW x \in Continuations \ Procs, Call(t, l, <<x>>)
  PROVE  Reaches(t, l, {x})
<1>1. OnStack[t] = {}
  BY BodyStack DEF TypeOK, ThreadInv
<1> QED
  BY <1>1, Enter1 DEF TypeOK, ThreadInv, ControlOK, Reaches

LEMMA ReachesTwo ==
  ASSUME TypeOK, ThreadInv, NEW t \in Threads, NEW l \in Procs, pc[t] \notin Procs,
         NEW x \in Continuations \cap Procs, NEW y \in Continuations \ Procs,
         Call(t, l, <<x, y>>)
  PROVE  Reaches(t, l, {x, y})
<1>1. OnStack[t] = {}
  BY BodyStack DEF TypeOK, ThreadInv
<1> QED
  BY <1>1, Enter2 DEF TypeOK, ThreadInv, ControlOK, Reaches

LEMMA ReachesThree ==
  ASSUME TypeOK, ThreadInv, NEW t \in Threads, NEW l \in Procs, pc[t] \notin Procs,
         NEW x \in Continuations \cap Procs, NEW y \in Continuations \cap Procs,
         NEW z \in Continuations \ Procs,
         Call(t, l, <<x, y, z>>)
  PROVE  Reaches(t, l, {x, y, z})
<1>1. OnStack[t] = {}
  BY BodyStack DEF TypeOK, ThreadInv
<1> QED
  BY <1>1, Enter3 DEF TypeOK, ThreadInv, ControlOK, Reaches

(* The encode thread, the channel's and the owner in their bodies.           *)
LEMMA OtherBodies ==
  ASSUME TypeOK, ThreadInv, SupervisedInv, NEW t \in Threads, NEW l, NEW S,
         t \notin {"starter", "adapt"}, Reaches(t, l, S),
         l \notin StopLabels \cup Starting \cup {"stopMedia"} \cup Asking,
         S \subseteq Continuations \ StopLabels, "stopMedia" \in S => stopRequested,
         UNCHANGED <<state, isStreaming, recovering, stopRequested, renegotiating>>,
         joinable' = joinable \/ stopRequested,
         t = "owner" =>
           /\ l # "own" /\ pc["starter"] # "start"
           /\ S \subseteq Procs \cup {"own", "release", "destroyAdapt", "freed"}
           /\ l \in {"release", "destroyAdapt", "freed", "gone"} => stopRequested
           /\ S \cap {"stopMedia", "destroyAdapt", "freed"} # {} => stopRequested
           /\ "release" \in S => stopRequested \/ l = "stop"
           /\ "own" \in S => pc["starter"] = "returned"
  PROVE  SupervisedInv'
<1>1. {"starter", "owner", "adapt", "video"} \subseteq Threads
      /\ ChannelThreads \subseteq Threads
  BY DEF Threads
<1>2. /\ pc'[t] = l /\ OnStack'[t] = S
      /\ \A u \in Threads \ {t} : pc'[u] = pc[u] /\ OnStack'[u] = OnStack[u]
  BY DEF Reaches
<1>3. /\ pc'["starter"] = pc["starter"] /\ pc'["adapt"] = pc["adapt"]
      /\ OnStack'["adapt"] = OnStack["adapt"]
  BY <1>1, <1>2
<1>4. StopAsked'
  <2>1. \A u \in Threads : Stopping(u)' => stopRequested'
    <3>1. ~Stopping(t)'
      BY <1>2, NextStoppingSet
    <3>2. \A u \in Threads \ {t} : Stopping(u)' => Stopping(u)
      BY <1>2, NextStoppingSet, StoppingSet
    <3> QED
      BY <3>1, <3>2 DEF SupervisedInv, StopAsked
  <2>2. pc'["video"] \notin Asking
    BY <1>1, <1>2 DEF SupervisedInv, StopAsked
  <2>3. CASE t = "owner"
    BY <1>2, <1>3, <2>1, <2>2, <2>3 DEF SupervisedInv, StopAsked
  <2>4. CASE t # "owner"
    <3>1. pc'["owner"] = pc["owner"] /\ OnStack'["owner"] = OnStack["owner"]
      BY <1>1, <1>2, <2>4
    <3> QED
      BY <1>3, <2>1, <2>2, <3>1 DEF SupervisedInv, StopAsked
  <2> QED
    BY <2>3, <2>4
<1>5. FirstTime'
  BY <1>2, <1>3 DEF SupervisedInv, FirstTime, Starting, Building
<1>6. Watched => stopRequested \/ Watched'
  <2> SUFFICES ASSUME Watched, ~stopRequested PROVE Watched'
    OBVIOUS
  <2>1. \A u \in Threads : pc'[u] = "stopMedia" \/ "stopMedia" \in OnStack'[u] => u = "adapt"
    BY <1>2 DEF Watched
  <2>2. \A u \in Threads : pc'[u] \in {"clearFlags", "toReconnecting"} => pc'[u] = pc[u]
    BY <1>2 DEF Asking
  <2>3. (Repairing' <=> Repairing) /\ (Terminated("adapt")' <=> Terminated("adapt"))
    BY <1>3 DEF Repairing, Terminated
  <2>4. \A c \in ChannelThreads : pc'[c] \in {"clearFlags", "toReconnecting"} => pc'[c] = pc[c]
    BY <1>1, <2>2
  <2>5. joinable' = joinable
    OBVIOUS
  <2> QED
    BY <1>3, <2>1, <2>2, <2>3, <2>4, <2>5 DEF Watched
<1> QED
  BY <1>4, <1>5, <1>6 DEF SupervisedInv

LEMMA OwnerSupervised ==
  ASSUME TypeOK, ThreadInv, SupervisedInv, ~EarlyStop, OwnerSteps \/ OwnerStops \/ SetBitrate
  PROVE  SupervisedInv'
<1>1. "owner" \in Threads
  BY DEF Threads
<1>2. pc["owner"] # "own" => pc["starter"] # "start"
  BY DEF SupervisedInv, StopAsked
<1> USE DEF StopLabels, Starting, Opening, Negotiating, Building, Asking
<1>3. CASE OwnerStops
  <2>1. Reaches("owner", "stop", {"release"})
    BY <1>1, <1>3, ReachesOne DEF OwnerStops, Procs, Continuations
  <2> QED
    BY <1>1, <1>3, <2>1, OtherBodies DEF OwnerStops, Continuations
<1>4. CASE SetBitrate
  <2>1. Reaches("owner", "reconnect", {"own"})
    BY <1>1, <1>4, ReachesOne DEF SetBitrate, Procs, Continuations
  <2> QED
    BY <1>1, <1>4, <2>1, OtherBodies DEF SetBitrate, Continuations
<1>5. CASE Release
  <2>1. Reaches("owner", "stop", {"stopMedia", "destroyAdapt"})
    BY <1>1, <1>5, ReachesTwo DEF Release, Procs, Continuations
  <2>2. stopRequested
    BY <1>5 DEF Release, SupervisedInv, StopAsked
  <2> QED
    BY <1>1, <1>2, <1>5, <2>1, <2>2, OtherBodies DEF Release, Continuations, Procs
<1>6. CASE DestroyAdapt
  <2>1. Reaches("owner", "disconnect", {"freed"})
    BY <1>1, <1>6, ReachesOne DEF DestroyAdapt, Procs, Continuations
  <2>2. stopRequested
    BY <1>6 DEF DestroyAdapt, SupervisedInv, StopAsked
  <2> QED
    BY <1>1, <1>2, <1>6, <2>1, <2>2, OtherBodies DEF DestroyAdapt, Continuations, Procs
<1>7. CASE Destroyed
  <2>1. Reaches("owner", "gone", {})
    BY <1>1, <1>7, ReachesGoto DEF Destroyed, Procs
  <2>2. stopRequested
    BY <1>7 DEF Destroyed, SupervisedInv, StopAsked
  <2> QED
    BY <1>1, <1>2, <1>7, <2>1, <2>2, OtherBodies DEF Destroyed, Continuations, Procs
<1> QED
  BY <1>3, <1>4, <1>5, <1>6, <1>7 DEF OwnerSteps

LEMMA VideoSupervised ==
  ASSUME TypeOK, ThreadInv, SupervisedInv, EncodeExit \/ SourceLost
  PROVE  SupervisedInv'
<1>1. "video" \in Threads
  BY DEF Threads
<1> USE DEF StopLabels, Starting, Opening, Negotiating, Building, Asking
<1>2. CASE EncodeExit
  <2>1. Reaches("video", "dead", {})
    BY <1>1, <1>2, ReachesGoto DEF EncodeExit, Procs
  <2> QED
    BY <1>1, <1>2, <2>1, OtherBodies DEF EncodeExit
<1>3. CASE SourceLost
  <2>1. Reaches("video", "fail", {"encode"})
    BY <1>1, <1>3, ReachesOne DEF SourceLost, Procs, Continuations
  <2> QED
    BY <1>1, <1>3, <2>1, OtherBodies DEF SourceLost, Continuations
<1> QED
  BY <1>2, <1>3

(* Nobody moves, and nothing the invariant speaks of changes.                *)
LEMMA SameSupervised ==
  ASSUME SupervisedInv,
         UNCHANGED <<pc, stack, state, isStreaming, recovering, stopRequested,
                     renegotiating, joinable>>
  PROVE  SupervisedInv'
<1>1. OnStack' = OnStack
  BY DEF OnStack
<1>2. \A t \in Threads : Stopping(t)' <=> Stopping(t)
  BY DEF Stopping
<1>3. StopAsked'
  BY <1>1, <1>2 DEF SupervisedInv, StopAsked
<1>4. FirstTime'
  BY DEF SupervisedInv, FirstTime
<1>5. Watched => Watched'
  <2>1. Repairing' <=> Repairing
    BY <1>1 DEF Repairing
  <2> QED
    BY <1>1, <2>1 DEF Watched, Terminated
<1> QED
  BY <1>3, <1>4, <1>5 DEF SupervisedInv

LEMMA ChannelSupervised ==
  ASSUME TypeOK, ThreadInv, SupervisedInv, NEW t \in ChannelThreads,
         ChannelSteps(t) \/ ChannelEvents(t)
  PROVE  SupervisedInv'
<1>1. t \in Threads /\ t \notin {"starter", "adapt", "video", "owner"}
  BY ChannelThreadsAssumption DEF Threads
<1> USE DEF StopLabels, Starting, Opening, Negotiating, Building, Asking
<1>2. CASE ChannelExit(t)
  <2>1. Reaches(t, "dead", {})
    BY <1>1, <1>2, ReachesGoto DEF ChannelExit, Procs
  <2> QED
    BY <1>1, <1>2, <2>1, OtherBodies DEF ChannelExit
<1>3. CASE NotifyLost(t)
  <2>1. CASE Goto(t, "dead")
    <3>1. Reaches(t, "dead", {})
      BY <1>1, <1>3, <2>1, ReachesGoto DEF NotifyLost, Procs
    <3> QED
      BY <1>1, <1>3, <3>1, OtherBodies DEF NotifyLost
  <2>2. CASE Call(t, "reconnect", <<"dead">>)
    <3>1. Reaches(t, "reconnect", {"dead"})
      BY <1>1, <1>3, <2>2, ReachesOne DEF NotifyLost, Procs, Continuations
    <3> QED
      BY <1>1, <1>3, <3>1, OtherBodies DEF NotifyLost, Continuations
  <2> QED
    BY <1>3, <2>1, <2>2 DEF NotifyLost
<1>4. CASE CloseMessage(t)
  <2>1. ASSUME NEW l \in {"fail", "reconnect"}, Call(t, l, <<"receive">>)  PROVE SupervisedInv'
    <3>1. Reaches(t, l, {"receive"})
      BY <1>1, <1>4, <2>1, ReachesOne DEF CloseMessage, Procs, Continuations
    <3> QED
      BY <1>1, <1>4, <3>1, OtherBodies DEF CloseMessage, Continuations
  <2> QED
    BY <1>4, <2>1 DEF CloseMessage
<1>5. CASE ConnectionLost(t)
  <2>1. Reaches(t, "lost", {})
    BY <1>1, <1>5, ReachesGoto DEF ConnectionLost, Procs
  <2> QED
    BY <1>1, <1>5, <2>1, OtherBodies DEF ConnectionLost
<1>6. CASE ReceiverStatus(t) \/ WebrtcAnswer(t)
  BY <1>6, SameSupervised DEF ReceiverStatus, WebrtcAnswer
<1> QED
  BY <1>2, <1>3, <1>4, <1>5, <1>6 DEF ChannelSteps, ChannelEvents

(* The same, when the step may also let worker threads begin.                *)
Advances(t, l, S) ==
  /\ pc[t] \notin Procs /\ OnStack[t] = {}
  /\ pc'[t] = l /\ OnStack'[t] = S
  /\ \A u \in Threads \ {t} :
       /\ OnStack'[u] = OnStack[u]
       /\ \/ pc'[u] = pc[u]
          \/ u \notin {"starter", "owner", "adapt"} /\ pc'[u] \in {"encode", "receive", "beat"}

LEMMA ReachesAdvances ==
  ASSUME NEW t \in Threads, NEW l, NEW S, Reaches(t, l, S)
  PROVE  Advances(t, l, S)
BY DEF Reaches, Advances

LEMMA SpawnAdvances ==
  ASSUME TypeOK, ThreadInv, NEW t \in Threads, NEW l,
         NEW S \in SUBSET {"video", "receive", "heartbeat"},
         Spawn(t, l, S), pc[t] \notin Procs
  PROVE  Advances(t, l, {})
<1>1. OnStack[t] = {} /\ OnStack' = OnStack
  BY BodyStack DEF TypeOK, ThreadInv, Spawn, OnStack
<1>2. pc'[t] = l
  BY DEF Spawn
<1>3. ASSUME NEW u \in Threads \ {t}
      PROVE  \/ pc'[u] = pc[u]
             \/ u \notin {"starter", "owner", "adapt"} /\ pc'[u] \in {"encode", "receive", "beat"}
  <2>1. pc'[u] = IF u \in S THEN FirstLabel[u] ELSE pc[u]
    BY <1>3 DEF Spawn
  <2>2. CASE u \in S
    BY <2>1, <2>2 DEF FirstLabel
  <2> QED
    BY <2>1, <2>2
<1> QED
  BY <1>1, <1>2, <1>3 DEF Advances

(* Start() on its way.                                                       *)
LEMMA StarterAdvances ==
  ASSUME TypeOK, ThreadInv, SupervisedInv, NEW l, NEW S, Advances("starter", l, S),
         l \notin StopLabels \cup Asking \cup {"start", "stopMedia", "toStreaming"},
         S \cap (StopLabels \cup {"stopMedia"}) = {},
         pc["starter"] # "returned",
         l \in Starting => pc["starter"] \in Starting /\ ~renegotiating',
         l \in {"startCapture", "checkCapture"} => isStreaming',
         l \in Opening \cup {"newChannel"} => state' # "Reconnecting",
         state' = "Streaming" => state = "Streaming" \/ pc["starter"] = "toStreaming",
         state' = "Reconnecting" => state = "Reconnecting",
         isStreaming' = isStreaming \/ pc["starter"] \in Building,
         UNCHANGED <<recovering, stopRequested>>,
         "adapt" \in joinable => "adapt" \in joinable'
  PROVE  SupervisedInv'
<1>1. {"starter", "owner", "adapt", "video"} \subseteq Threads
      /\ ChannelThreads \subseteq Threads
      /\ \A c \in ChannelThreads : c \notin {"starter", "owner", "adapt", "video"}
  BY ChannelThreadsAssumption DEF Threads
<1>2. /\ pc'["starter"] = l /\ OnStack'["starter"] = S
      /\ pc'["owner"] = pc["owner"] /\ OnStack'["owner"] = OnStack["owner"]
      /\ pc'["adapt"] = pc["adapt"] /\ OnStack'["adapt"] = OnStack["adapt"]
      /\ \A u \in Threads \ {"starter"} :
            OnStack'[u] = OnStack[u] /\ (pc'[u] = pc[u] \/ pc'[u] \in {"encode", "receive", "beat"})
  BY <1>1 DEF Advances
<1>3. pc["starter"] \in Building => pc["adapt"] = "none"
  BY DEF ThreadInv, StarterFirst, Starting
<1>4. StopAsked'
  <2>1. \A u \in Threads : Stopping(u)' => stopRequested'
    <3>1. ~Stopping("starter")'
      BY <1>1, <1>2, NextStoppingSet
    <3>2. \A u \in Threads \ {"starter"} : Stopping(u)' => Stopping(u)
      BY <1>2, NextStoppingSet, StoppingSet DEF StopLabels
    <3> QED
      BY <3>1, <3>2 DEF SupervisedInv, StopAsked
  <2>2. pc'["video"] \notin Asking
    BY <1>1, <1>2 DEF SupervisedInv, StopAsked, Asking
  <2> QED
    BY <1>2, <2>1, <2>2 DEF SupervisedInv, StopAsked
<1>5. FirstTime'
  <2>1. ASSUME NEW u \in Threads, pc'[u] \in {"startCapture", "checkCapture"}  PROVE isStreaming'
    <3>1. CASE u = "starter"
      BY <1>2, <2>1, <3>1
    <3>2. CASE u # "starter"
      <4>1. pc[u] \in {"startCapture", "checkCapture"}
        BY <1>2, <2>1, <3>2
      <4>2. u = "adapt"
        BY <3>2, <4>1 DEF ThreadInv, Roles, Building
      <4> QED
        BY <1>3, <4>1, <4>2 DEF SupervisedInv, FirstTime
    <3> QED
      BY <3>1, <3>2
  <2> QED
    BY <1>2, <2>1 DEF FirstTime
<1>6. Watched => stopRequested \/ Watched'
  <2> SUFFICES ASSUME Watched, ~stopRequested PROVE Watched'
    OBVIOUS
  <2>1. \A u \in Threads : pc'[u] = "stopMedia" \/ "stopMedia" \in OnStack'[u] => u = "adapt"
    BY <1>1, <1>2 DEF Watched
  <2>2. \A u \in Threads : pc'[u] \in {"clearFlags", "toReconnecting"} => pc'[u] = pc[u]
    BY <1>1, <1>2 DEF Asking
  <2>3. (Repairing' <=> Repairing) /\ (Terminated("adapt")' <=> Terminated("adapt"))
    BY <1>2 DEF Repairing, Terminated
  <2>4. state' = "Streaming" => ~Terminated("adapt") /\ (isStreaming \/ recovering)
    BY DEF Watched
  <2>5. state' = "Streaming" => isStreaming' \/ recovering
    BY <1>3, <2>4 DEF Terminated
  <2>6. pc["adapt"] \in {"recovered", "rearm", "resume"} => isStreaming'
    BY <1>3 DEF Watched
  <2>7. Repairing => recovering \/ state' # "Streaming"
    BY DEF Watched
  <2>8. l \in Starting /\ state' = "Reconnecting" => recovering \/ pc["adapt"] \in {"rearm", "resume"}
    BY DEF Watched
  <2>9. l \in Starting => \A u \in Threads : pc[u] \in {"clearFlags", "toReconnecting"} => recovering
    BY DEF Watched
  <2>10. ~Terminated("adapt") => "adapt" \in joinable'
    BY DEF Watched
  <2>11. "dead" \in OnStack["adapt"] => pc["adapt"] \in {"fail", "markFailed", "stop"}
    BY DEF Watched
  <2> QED
    BY <1>2, <2>1, <2>2, <2>3, <2>4, <2>5, <2>6, <2>7, <2>8, <2>9, <2>10, <2>11 DEF Watched
<1> QED
  BY <1>4, <1>5, <1>6 DEF SupervisedInv

(* Start() begins: it forgets an earlier stop, and nothing runs yet.         *)
LEMMA StartBeginSupervised ==
  ASSUME TypeOK, ThreadInv, SupervisedInv, StartBegin
  PROVE  SupervisedInv'
<1>1. {"starter", "owner", "adapt", "video"} \subseteq Threads
      /\ ChannelThreads \subseteq Threads
      /\ \A c \in ChannelThreads : c \notin {"starter", "owner", "adapt", "video"}
  BY ChannelThreadsAssumption DEF Threads
<1>2. Reaches("starter", "toConnecting", {})
  BY <1>1, ReachesGoto DEF StartBegin, Procs
<1>3. /\ pc["owner"] = "own" /\ pc["adapt"] = "none" /\ pc["video"] = "none"
      /\ \A c \in ChannelThreads : pc[c] = "none"
  BY DEF StartBegin, ThreadInv, StarterFirst, SupervisedInv, StopAsked, Starting, Opening
<1>4. \A u \in Threads : pc[u] \in {"start", "own", "none"}
  BY <1>3 DEF Threads, StartBegin
<1>5. \A u \in Threads : pc'[u] \in {"toConnecting", "own", "none"} /\ OnStack'[u] = {}
  <2>1. \A u \in Threads : OnStack[u] = {}
    BY <1>4, BodyStack DEF TypeOK, ThreadInv, Procs
  <2> QED
    BY <1>2, <1>4, <2>1, <1>3, <1>1 DEF Reaches, Threads
<1>6. /\ pc'["starter"] = "toConnecting" /\ pc'["owner"] = "own" /\ pc'["adapt"] = "none"
      /\ pc'["video"] = "none"
  BY <1>1, <1>2, <1>3 DEF Reaches
<1>7. StopAsked'
  <2>1. \A u \in Threads : ~Stopping(u)'
    BY <1>5, NextStoppingSet DEF StopLabels
  <2> QED
    BY <1>1, <1>5, <1>6, <2>1 DEF StopAsked, Asking
<1>8. state' = state /\ state \notin {"Streaming", "Reconnecting"} /\ renegotiating' = renegotiating
  BY DEF StartBegin, IsActive
<1>9. FirstTime'
  BY <1>5, <1>6, <1>8 DEF FirstTime, SupervisedInv, StartBegin, Starting, Opening
<1>10. Watched'
  <2>1. ~Repairing'
    BY <1>1, <1>5, <1>6 DEF Repairing, Negotiating
  <2>2. \A u \in Threads : pc'[u] \notin {"stopMedia", "clearFlags", "toReconnecting"}
                           /\ OnStack'[u] = {}
    BY <1>5
  <2> QED
    BY <1>1, <1>5, <1>6, <1>8, <2>1, <2>2 DEF Watched, Terminated, Negotiating, Building
<1> QED
  BY <1>7, <1>9, <1>10 DEF SupervisedInv

LEMMA StartSupervised ==
  ASSUME TypeOK, ThreadInv, SupervisedInv, StartSteps
  PROVE  SupervisedInv'
<1>1. "starter" \in Threads
  BY DEF Threads
<1>2. ASSUME NEW l, Goto("starter", l), pc["starter"] \notin Procs  PROVE Advances("starter", l, {})
  BY <1>1, <1>2, ReachesGoto, ReachesAdvances
<1>3. ASSUME Call("starter", "stop", <<"returned">>), pc["starter"] \notin Procs
      PROVE  Advances("starter", "stop", {"returned"})
  BY <1>1, <1>3, ReachesOne, ReachesAdvances DEF Procs, Continuations
<1>4. pc["starter"] \in Starting => ~renegotiating
  BY DEF SupervisedInv, FirstTime
<1>5. pc["starter"] \in Opening => state # "Reconnecting"
  BY DEF SupervisedInv, FirstTime
<1> USE DEF StopLabels, Starting, Opening, Negotiating, Building, Asking, Procs
<1>6. CASE ToConnecting
  <2>1. state' \in {state, "Connecting"}
    BY <1>6 DEF ToConnecting, TransitionTo
  <2> QED
    BY <1>2, <1>4, <1>5, <1>6, <2>1, StarterAdvances DEF ToConnecting
<1>7. CASE OpenCapture
  <2>1. PICK l \in {"newChannel", "awaitFirstFrame", "startFailed"} : Goto("starter", l)
    BY <1>7 DEF OpenCapture
  <2> QED
    BY <1>2, <1>4, <1>5, <1>7, <2>1, StarterAdvances DEF OpenCapture
<1>8. CASE AwaitFirstFrame
  <2>1. CASE Call("starter", "stop", <<"returned">>)
    BY <1>3, <1>8, <2>1, StarterAdvances DEF AwaitFirstFrame
  <2>2. CASE \E l \in {"newChannel", "startFailed"} : Goto("starter", l)
    BY <1>2, <1>4, <1>5, <1>8, <2>2, StarterAdvances DEF AwaitFirstFrame
  <2> QED
    BY <1>8, <2>1, <2>2 DEF AwaitFirstFrame
<1>9. CASE StartFailed
  <2>1. state' \in {state, "Failed"}
    BY <1>9 DEF StartFailed, TransitionTo
  <2> QED
    BY <1>3, <1>9, <2>1, StarterAdvances DEF StartFailed
<1>10. CASE StartSucceeded
  <2>1. state' \in {state, "Streaming"}
    BY <1>10 DEF StartSucceeded, TransitionTo
  <2> QED
    BY <1>2, <1>10, <2>1, StarterAdvances DEF StartSucceeded
<1> QED
  BY <1>6, <1>7, <1>8, <1>9, <1>10, StartBeginSupervised DEF StartSteps

(* The supervisor in its body, from what Watched asks of the place it        *)
(* reaches.                                                                  *)
LEMMA AdaptAdvances ==
  ASSUME TypeOK, ThreadInv, SupervisedInv, NEW l, NEW S, Advances("adapt", l, S),
         pc["adapt"] # "none",
         l \notin StopLabels \cup Asking, S \cap StopLabels = {},
         l \in {"startCapture", "checkCapture"} => isStreaming',
         stopRequested' = stopRequested,
         ~stopRequested =>
           /\ l \in {"none", "dead"} \/ "adapt" \in joinable'
           /\ state' = "Streaming" \/ pc["starter"] = "toStreaming"
                => l \notin {"none", "dead"} /\ (isStreaming' \/ recovering')
           /\ "dead" \in S => l = "fail"
           /\ l \in {"recovered", "rearm", "resume"} => isStreaming'
           /\ \/ l \in {"dropMedia", "stopMedia", "retry", "backoff", "build", "startCapture"}
                         \cup Negotiating
              \/ S \cap {"retry", "stopMedia"} # {}
              => recovering' \/ (state' # "Streaming" /\ pc["starter"] # "toStreaming")
           /\ pc["starter"] = "toStreaming" /\ state' = "Reconnecting"
                => recovering' \/ l \in {"rearm", "resume"}
           /\ recovering => recovering' \/ l = "rearm"
           /\ pc["starter"] = "toStreaming"
                /\ l \in {"retry", "backoff", "recovered"} \cup Negotiating \cup Building
                => /\ recovering'
                   /\ \A c \in ChannelThreads : pc[c] \notin {"clearFlags", "toReconnecting"}
           /\ l = "rearm" => pc["adapt"] = "recovered"
  PROVE  SupervisedInv'
<1>1. {"starter", "owner", "adapt", "video"} \subseteq Threads
      /\ ChannelThreads \subseteq Threads
      /\ \A c \in ChannelThreads : c \notin {"starter", "owner", "adapt", "video"}
  BY ChannelThreadsAssumption DEF Threads
<1>2. /\ pc'["adapt"] = l /\ OnStack'["adapt"] = S
      /\ pc'["owner"] = pc["owner"] /\ OnStack'["owner"] = OnStack["owner"]
      /\ pc'["starter"] = pc["starter"] /\ OnStack'["starter"] = OnStack["starter"]
      /\ \A u \in Threads \ {"adapt"} :
            OnStack'[u] = OnStack[u] /\ (pc'[u] = pc[u] \/ pc'[u] \in {"encode", "receive", "beat"})
  BY <1>1 DEF Advances
<1>3. pc["starter"] \notin Starting
  BY DEF ThreadInv, StarterFirst
<1>4. StopAsked'
  <2>1. \A u \in Threads : Stopping(u)' => stopRequested'
    <3>1. ~Stopping("adapt")'
      BY <1>1, <1>2, NextStoppingSet
    <3>2. \A u \in Threads \ {"adapt"} : Stopping(u)' => Stopping(u)
      BY <1>2, NextStoppingSet, StoppingSet DEF StopLabels
    <3> QED
      BY <3>1, <3>2 DEF SupervisedInv, StopAsked
  <2>2. pc'["video"] \notin Asking
    BY <1>1, <1>2 DEF SupervisedInv, StopAsked, Asking
  <2> QED
    BY <1>2, <2>1, <2>2 DEF SupervisedInv, StopAsked
<1>5. FirstTime'
  <2>1. ASSUME NEW u \in Threads, pc'[u] \in {"startCapture", "checkCapture"}  PROVE isStreaming'
    <3>1. CASE u = "adapt"
      BY <1>2, <2>1, <3>1
    <3>2. CASE u # "adapt"
      <4>1. pc[u] \in {"startCapture", "checkCapture"}
        BY <1>2, <2>1, <3>2
      <4>2. u = "starter"
        BY <3>2, <4>1 DEF ThreadInv, Roles, Building
      <4> QED
        BY <1>3, <4>1, <4>2 DEF Starting, Building
    <3> QED
      BY <3>1, <3>2
  <2> QED
    BY <1>2, <1>3, <2>1 DEF FirstTime, Starting, Negotiating
<1>6. Watched => stopRequested \/ Watched'
  <2> SUFFICES ASSUME Watched, ~stopRequested PROVE Watched'
    OBVIOUS
  <2>1. \A u \in Threads : pc'[u] = "stopMedia" \/ "stopMedia" \in OnStack'[u] => u = "adapt"
    BY <1>1, <1>2 DEF Watched
  <2>2. \A u \in Threads \ {"adapt"} : pc'[u] \in {"clearFlags", "toReconnecting"} => pc'[u] = pc[u]
    BY <1>1, <1>2 DEF Asking
  <2>3. Repairing' => \/ l \in {"dropMedia", "stopMedia", "retry", "backoff", "build", "startCapture"}
                                  \cup Negotiating
                      \/ S \cap {"retry", "stopMedia"} # {}
    BY <1>2 DEF Repairing
  <2>4. Terminated("adapt")' <=> l \in {"none", "dead"}
    BY <1>2 DEF Terminated
  <2>5. ASSUME pc["starter"] = "toStreaming", NEW u \in Threads,
               pc'[u] \in {"clearFlags", "toReconnecting"}
        PROVE  recovering'
    <3>1. u # "adapt"
      BY <1>2, <2>5 DEF Asking
    <3>2. pc[u] \in {"clearFlags", "toReconnecting"}
      BY <2>2, <2>5, <3>1
    <3>3. recovering
      BY <2>5, <3>2 DEF Watched
    <3>4. l # "rearm"
      <4> SUFFICES ASSUME l = "rearm" PROVE FALSE
        OBVIOUS
      <4>1. pc["adapt"] = "recovered"
        OBVIOUS
      <4>2. \A c \in ChannelThreads : pc[c] \notin {"clearFlags", "toReconnecting"}
        BY <2>5, <4>1 DEF Watched
      <4>3. u = "owner" \/ u = "video" \/ u = "starter"
        BY <3>1, <3>2, <4>2 DEF Threads
      <4> QED
        BY <2>5, <3>2, <4>3 DEF SupervisedInv, StopAsked, Asking
    <3> QED
      BY <3>3, <3>4
  <2>6. \A c \in ChannelThreads : pc'[c] \in {"clearFlags", "toReconnecting"} => pc'[c] = pc[c]
    BY <1>1, <2>2
  <2> QED
    BY <1>2, <1>3, <2>1, <2>3, <2>4, <2>5, <2>6 DEF Watched
<1> QED
  BY <1>4, <1>5, <1>6 DEF SupervisedInv

LEMMA AdaptSupervised ==
  ASSUME TypeOK, ThreadInv, ThreadInv', SupervisedInv, AdaptSteps
  PROVE  SupervisedInv'
<1>1. "adapt" \in Threads
  BY DEF Threads
<1>2. ASSUME NEW l, Goto("adapt", l), pc["adapt"] \notin Procs  PROVE Advances("adapt", l, {})
  BY <1>1, <1>2, ReachesGoto, ReachesAdvances
<1>3. ASSUME NEW l \in {"fail", "reconnect"}, NEW x \in {"dead", "loop"},
             Call("adapt", l, <<x>>), pc["adapt"] \notin Procs
      PROVE  Advances("adapt", l, {x})
  BY <1>1, <1>3, ReachesOne, ReachesAdvances DEF Procs, Continuations
<1>4. ~stopRequested => Watched
  BY DEF SupervisedInv
<1> USE DEF StopLabels, Asking, Negotiating, Building, Procs
<1>5. CASE Loop
  <2>1. PICK l \in {"dead", "dropMedia", "tick"} : Goto("adapt", l)
    BY <1>5 DEF Loop
  <2>2. /\ l = "dead" => stopRequested \/ (~isStreaming /\ ~recovering)
        /\ l = "dropMedia" => recovering \/ state = "Reconnecting"
        /\ pc["adapt"] = "loop" /\ OnlyControl
    BY <1>1, <1>5, <2>1 DEF Loop, Goto, TypeOK, ControlOK
  <2>3. Advances("adapt", l, {})
    BY <1>2, <2>1, <2>2
  <2> QED
    BY <1>4, <2>2, <2>3, AdaptAdvances DEF Watched, Terminated
<1>6. CASE DropMedia
  <2>1. /\ pc["adapt"] = "dropMedia" /\ Repairing
        /\ UNCHANGED <<state, stopRequested, recovering, isStreaming, joinable>>
    BY <1>6 DEF DropMedia, Repairing
  <2>2. CASE Goto("adapt", "retry")
    <3>1. Advances("adapt", "retry", {})
      BY <1>2, <2>1, <2>2
    <3>2. AllGone'
      BY <3>1 DEF ThreadInv, LinkGone, Advances
    <3>3. \A c \in ChannelThreads : pc'[c] = pc[c]
      BY <1>1, <2>2, ChannelThreadsAssumption DEF Goto, Threads, TypeOK, ControlOK
    <3>4. \A c \in ChannelThreads : pc[c] \notin {"clearFlags", "toReconnecting"}
      BY <3>2, <3>3 DEF AllGone, Terminated
    <3> QED
      BY <1>4, <2>1, <3>1, <3>4, AdaptAdvances DEF Watched, Terminated
  <2>3. CASE Call("adapt", "stopMedia", <<"disconnect", "retry">>)
    <3>1. Advances("adapt", "stopMedia", {"disconnect", "retry"})
      BY <1>1, <2>1, <2>3, ReachesTwo, ReachesAdvances DEF Continuations
    <3> QED
      BY <1>4, <2>1, <3>1, AdaptAdvances DEF Watched, Terminated
  <2> QED
    BY <1>6, <2>2, <2>3 DEF DropMedia
<1>7. CASE Retry
  <2>1. /\ pc["adapt"] = "retry" /\ Repairing
        /\ UNCHANGED <<stopRequested, recovering, isStreaming, joinable>>
    BY <1>7 DEF Retry, Repairing
  <2>2. CASE Call("adapt", "fail", <<"dead">>) /\ UNCHANGED state
    <3>1. Advances("adapt", "fail", {"dead"})
      BY <1>3, <2>1, <2>2
    <3> QED
      BY <1>4, <2>1, <2>2, <3>1, AdaptAdvances DEF Watched, Terminated
  <2>3. CASE Goto("adapt", "backoff") /\ state' = TransitionTo(state, "Reconnecting")
    <3>1. Advances("adapt", "backoff", {})
      BY <1>2, <2>1, <2>3
    <3>2. state' \in {state, "Reconnecting"}
      BY <2>3 DEF TransitionTo
    <3> QED
      BY <1>4, <2>1, <3>1, <3>2, AdaptAdvances DEF Watched, Terminated
  <2> QED
    BY <1>7, <2>2, <2>3 DEF Retry
<1>8. CASE Backoff
  <2>1. PICK l \in {"dead", "newChannel"} : Goto("adapt", l) /\ (l = "dead" => stopRequested)
    BY <1>8 DEF Backoff
  <2>2. /\ pc["adapt"] = "backoff" /\ Repairing
        /\ UNCHANGED <<state, stopRequested, recovering, isStreaming, joinable>>
    BY <1>8 DEF Backoff, Repairing
  <2>3. Advances("adapt", l, {})
    BY <1>2, <2>1, <2>2
  <2> QED
    BY <1>4, <2>1, <2>2, <2>3, AdaptAdvances DEF Watched, Terminated
<1>9. CASE Recovered
  <2>1. Advances("adapt", "rearm", {}) /\ pc["adapt"] = "recovered"
    BY <1>2, <1>9 DEF Recovered
  <2> QED
    BY <1>4, <1>9, <2>1, AdaptAdvances DEF Recovered, Watched, Terminated
<1>10. CASE Rearm
  <2>1. Advances("adapt", "resume", {}) /\ pc["adapt"] = "rearm"
    BY <1>2, <1>10 DEF Rearm
  <2> QED
    BY <1>4, <1>10, <2>1, AdaptAdvances DEF Rearm, Watched, Terminated
<1>11. CASE Resume
  <2>1. Advances("adapt", "loop", {}) /\ pc["adapt"] = "resume"
    BY <1>2, <1>11 DEF Resume
  <2>2. state' # "Reconnecting"
    BY <1>11 DEF Resume, TransitionTo, IsValidTransition, Successors
  <2> QED
    BY <1>4, <1>11, <2>1, <2>2, AdaptAdvances DEF Resume, Watched, Terminated
<1>12. CASE Tick
  <2>1. CASE Call("adapt", "reconnect", <<"loop">>)
    <3>1. Advances("adapt", "reconnect", {"loop"}) /\ pc["adapt"] = "tick"
      BY <1>3, <1>12, <2>1 DEF Tick
    <3> QED
      BY <1>4, <1>12, <3>1, AdaptAdvances DEF Tick, Watched, Terminated
  <2>2. CASE stopRequested /\ Goto("adapt", "dead")
    <3>1. Advances("adapt", "dead", {}) /\ pc["adapt"] = "tick"
      BY <1>2, <1>12, <2>2 DEF Tick
    <3> QED
      BY <1>12, <2>2, <3>1, AdaptAdvances DEF Tick
  <2>3. CASE Goto("adapt", "loop")
    <3>1. Advances("adapt", "loop", {}) /\ pc["adapt"] = "tick"
      BY <1>2, <1>12, <2>3 DEF Tick
    <3> QED
      BY <1>4, <1>12, <3>1, AdaptAdvances DEF Tick, Watched, Terminated
  <2> QED
    BY <1>12, <2>1, <2>2, <2>3 DEF Tick
<1> QED
  BY <1>5, <1>6, <1>7, <1>8, <1>9, <1>10, <1>11, <1>12 DEF AdaptSteps

(* A failed attempt, of either caller.                                       *)
LEMMA FailSupervised ==
  ASSUME TypeOK, ThreadInv, SupervisedInv, NEW t \in Threads, pc[t] \in Negotiating, Fail(t),
         state' = "Streaming" => state = "Streaming",
         state' = "Reconnecting" => state = "Reconnecting" \/ t = "adapt",
         UNCHANGED <<isStreaming, recovering, stopRequested, joinable>>
  PROVE  SupervisedInv'
<1>1. t \in {"starter", "adapt"} /\ pc[t] \notin Procs
  BY DEF ThreadInv, Roles, Negotiating, Procs
<1> USE DEF StopLabels, Asking
<1>2. CASE t = "starter"
  <2>1. Advances("starter", "startFailed", {})
    BY <1>1, <1>2, ReachesGoto, ReachesAdvances DEF Fail
  <2>2. pc["starter"] \in Starting \ {"returned"}
    BY <1>2 DEF Starting, Negotiating
  <2> QED
    BY <1>2, <2>1, <2>2, StarterAdvances DEF Starting, Opening, Negotiating, Building
<1>3. CASE t = "adapt"
  <2>1. Call("adapt", "stopMedia", <<"disconnect", "loop">>)
    BY <1>3 DEF Fail
  <2>2. Advances("adapt", "stopMedia", {"disconnect", "loop"})
    BY <1>1, <1>3, <2>1, ReachesTwo, ReachesAdvances DEF Procs, Continuations
  <2>3. Repairing /\ pc["adapt"] # "none"
    BY <1>3 DEF Repairing, Negotiating
  <2>4. ~stopRequested => Watched
    BY DEF SupervisedInv
  <2>5. pc["starter"] = "toStreaming" => recovering \/ stopRequested
    BY <2>3, <2>4 DEF Watched
  <2> QED
    BY <1>3, <2>2, <2>3, <2>4, <2>5, AdaptAdvances DEF Watched, Terminated, Negotiating, Building
<1> QED
  BY <1>1, <1>2, <1>3

(* The next step of an attempt.                                              *)
LEMMA AttemptSupervised ==
  ASSUME TypeOK, ThreadInv, SupervisedInv, NEW t \in Threads, NEW l,
         pc[t] \in Negotiating,
         l \in (Negotiating \ {"newChannel"}) \cup {"build"},
         Advances(t, l, {}),
         state' = "Streaming" => state = "Streaming",
         state' = "Reconnecting" => state = "Reconnecting" \/ t = "adapt",
         renegotiating' => t = "adapt" \/ renegotiating,
         UNCHANGED <<isStreaming, recovering, stopRequested, joinable>>
  PROVE  SupervisedInv'
<1>1. t \in {"starter", "adapt"}
  BY DEF ThreadInv, Roles
<1>2. l \notin Procs \cup Asking \cup StopLabels \cup Opening
             \cup {"none", "dead", "newChannel", "startCapture", "checkCapture", "recovered", "returned",
                   "start", "rearm", "resume", "toStreaming"}
  BY DEF Negotiating, Asking, StopLabels, Opening, Procs
<1>3. CASE t = "starter"
  <2>1. pc["starter"] \in Starting \ {"returned"} /\ l \in Starting
    BY <1>3 DEF Starting, Negotiating, Building
  <2>2. ~renegotiating'
    BY <1>3, <2>1 DEF SupervisedInv, FirstTime
  <2>3. l # "stopMedia"
    BY <1>2 DEF Procs
  <2> QED
    BY <1>2, <1>3, <2>1, <2>2, <2>3, StarterAdvances
<1>4. CASE t = "adapt"
  <2>1. Repairing /\ pc["adapt"] \notin {"none", "dead"}
    BY <1>4 DEF Repairing, Negotiating
  <2>2. ~stopRequested => Watched
    BY DEF SupervisedInv
  <2>3. ~stopRequested => "adapt" \in joinable
    BY <2>1, <2>2 DEF Watched, Terminated
  <2>4. ~stopRequested /\ pc["starter"] = "toStreaming"
          => recovering /\ \A c \in ChannelThreads : pc[c] \notin {"clearFlags", "toReconnecting"}
    BY <1>4, <2>2 DEF Watched
  <2>5. ~stopRequested => recovering \/ (state # "Streaming" /\ pc["starter"] # "toStreaming")
    BY <2>1, <2>2 DEF Watched
  <2>6. ~stopRequested /\ (state' = "Streaming" \/ pc["starter"] = "toStreaming")
          => isStreaming' \/ recovering'
    BY <2>5
  <2> QED
    BY <1>2, <1>4, <2>1, <2>3, <2>4, <2>5, <2>6, AdaptAdvances
<1> QED
  BY <1>1, <1>3, <1>4

LEMMA NegotiateSupervised ==
  ASSUME TypeOK, ThreadInv, SupervisedInv, NEW t \in Threads,
         NegotiateSteps(t) \/ LockPipeline(t)
  PROVE  SupervisedInv'
<1>1. pc[t] \in Negotiating => t \in {"starter", "adapt"} /\ pc[t] \notin Procs
  BY DEF ThreadInv, Roles, Negotiating, Procs
<1>2. ASSUME NEW l, Goto(t, l), pc[t] \in Negotiating  PROVE Advances(t, l, {})
  BY <1>1, <1>2, ReachesGoto, ReachesAdvances
<1>3. pc[t] \in Negotiating /\ renegotiating => t = "adapt"
  BY <1>1 DEF SupervisedInv, FirstTime, Starting
<1>4. pc[t] = "newChannel" /\ state = "Reconnecting" => t = "adapt"
  BY <1>1 DEF SupervisedInv, FirstTime, Negotiating
<1> USE DEF Negotiating
<1>5. CASE NewChannel(t)
  <2>1. /\ state' = "Streaming" => state = "Streaming"
        /\ state' = "Reconnecting" => state = "Reconnecting" \/ t = "adapt"
        /\ renegotiating' => t = "adapt"
    BY <1>4, <1>5 DEF NewChannel, TransitionTo
  <2> QED
    BY <1>2, <1>5, <2>1, AttemptSupervised DEF NewChannel
<1>6. CASE Connect(t)
  BY <1>2, <1>6, AttemptSupervised DEF Connect
<1>7. CASE Connected(t)
  <2>1. CASE Fail(t)
    BY <1>7, <2>1, FailSupervised DEF Connected
  <2>2. CASE Spawn(t, "authenticate", ChannelThreads)
    <3>1. Advances(t, "authenticate", {})
      BY <1>1, <1>7, <2>2, SpawnAdvances, ChannelThreadsAssumption DEF Connected
    <3> QED
      BY <1>7, <3>1, AttemptSupervised DEF Connected
  <2> QED
    BY <1>7, <2>1, <2>2 DEF Connected
<1>8. ASSUME NEW p \in {"Connecting", "Negotiating"}, state' = TransitionTo(state, Phase(p)),
             pc[t] \in Negotiating
      PROVE  /\ state' = "Streaming" => state = "Streaming"
             /\ state' = "Reconnecting" => state = "Reconnecting" \/ t = "adapt"
  BY <1>3, <1>8 DEF Phase, TransitionTo
<1>9. CASE Authenticate(t)
  <2>1. CASE Fail(t)
    BY <1>8, <1>9, <2>1, FailSupervised DEF Authenticate
  <2>2. CASE Goto(t, "launch")
    BY <1>2, <1>8, <1>9, <2>2, AttemptSupervised DEF Authenticate
  <2> QED
    BY <1>9, <2>1, <2>2 DEF Authenticate
<1>10. CASE Launch(t)
  BY <1>2, <1>8, <1>10, AttemptSupervised DEF Launch
<1>11. CASE AwaitLaunch(t)
  <2>1. CASE Fail(t)
    BY <1>11, <2>1, FailSupervised DEF AwaitLaunch
  <2>2. CASE Goto(t, "offer")
    BY <1>2, <1>11, <2>2, AttemptSupervised DEF AwaitLaunch
  <2> QED
    BY <1>11, <2>1, <2>2 DEF AwaitLaunch
<1>12. CASE SendOffer(t)
  BY <1>2, <1>8, <1>12, AttemptSupervised DEF SendOffer
<1>13. CASE AwaitAnswer(t)
  <2>1. CASE Fail(t)
    BY <1>13, <2>1, FailSupervised DEF AwaitAnswer
  <2>2. CASE Goto(t, "lockPipeline")
    BY <1>2, <1>13, <2>2, AttemptSupervised DEF AwaitAnswer
  <2> QED
    BY <1>13, <2>1, <2>2 DEF AwaitAnswer
<1>14. CASE LockPipeline(t)
  <2>1. CASE Fail(t)
    BY <1>14, <2>1, FailSupervised DEF LockPipeline
  <2>2. CASE Goto(t, "build")
    BY <1>2, <1>14, <2>2, AttemptSupervised DEF LockPipeline
  <2> QED
    BY <1>14, <2>1, <2>2 DEF LockPipeline
<1> QED
  BY <1>5, <1>6, <1>7, <1>9, <1>10, <1>11, <1>12, <1>13, <1>14 DEF NegotiateSteps

LEMMA AbandonSupervised ==
  ASSUME TypeOK, ThreadInv, SupervisedInv, NEW t \in Threads,
         pc[t] \in {"build", "startCapture"}, AbandonPipeline(t),
         UNCHANGED <<state, recovering, stopRequested, joinable, renegotiating>>
  PROVE  SupervisedInv'
<1>1. t \in {"starter", "adapt"} /\ pc[t] \notin Procs \cup {"none", "dead"}
  BY DEF ThreadInv, Roles, Building, Procs
<1> USE DEF StopLabels, Asking
<1>2. CASE t = "starter"
  <2>1. Advances("starter", "joinVideo", {"startFailed"})
    BY <1>1, <1>2, ReachesOne, ReachesAdvances DEF AbandonPipeline, Failing, Procs, Continuations
  <2>2. pc["starter"] \in Building \ {"returned"}
    BY <1>2 DEF Building
  <2> QED
    BY <1>2, <2>1, <2>2, StarterAdvances DEF Starting, Opening, Negotiating, Building
<1>3. CASE t = "adapt"
  <2>1. Call("adapt", "joinVideo", <<"stopMedia", "disconnect", "loop">>)
    BY <1>3 DEF AbandonPipeline, Failing
  <2>2. Advances("adapt", "joinVideo", {"stopMedia", "disconnect", "loop"})
    BY <1>1, <1>3, <2>1, ReachesThree, ReachesAdvances DEF Procs, Continuations
  <2>3. Repairing
    BY <1>3 DEF Repairing
  <2>4. ~stopRequested => Watched
    BY DEF SupervisedInv
  <2>5. ~stopRequested /\ pc["starter"] = "toStreaming" => recovering
    BY <2>3, <2>4 DEF Watched
  <2>6. ~stopRequested => "adapt" \in joinable
    BY <1>1, <1>3, <2>4 DEF Watched, Terminated
  <2>7. ~stopRequested => recovering \/ (state # "Streaming" /\ pc["starter"] # "toStreaming")
    BY <2>3, <2>4 DEF Watched
  <2> QED
    BY <1>1, <1>3, <2>2, <2>5, <2>6, <2>7, AdaptAdvances DEF Negotiating, Building
<1> QED
  BY <1>1, <1>2, <1>3

(* The next step of a build.                                                 *)
LEMMA BuildingSupervised ==
  ASSUME TypeOK, ThreadInv, SupervisedInv, NEW t \in Threads, NEW l,
         \/ pc[t] = "build" /\ l = "startCapture"
         \/ pc[t] = "startCapture" /\ l = "checkCapture"
         \/ pc[t] = "checkCapture" /\ l = "recovered" /\ t = "adapt",
         Advances(t, l, {}), isStreaming', isStreaming' = isStreaming \/ pc[t] = "build",
         "adapt" \in joinable => "adapt" \in joinable',
         UNCHANGED <<state, recovering, stopRequested, renegotiating>>
  PROVE  SupervisedInv'
<1>0. \/ pc[t] = "build" /\ l = "startCapture"
      \/ pc[t] = "startCapture" /\ l = "checkCapture"
      \/ pc[t] = "checkCapture" /\ l = "recovered" /\ t = "adapt"
  OBVIOUS
<1>1. t \in {"starter", "adapt"}
  BY <1>0 DEF ThreadInv, Roles, Building
<1> USE DEF StopLabels, Asking
<1>2. CASE t = "starter"
  <2>1. pc["starter"] \in Building \ {"returned"} /\ pc["starter"] \in Starting
        /\ l \in Starting /\ l \notin Opening \cup {"newChannel"}
    BY <1>0, <1>2 DEF Building, Starting, Opening
  <2>2. ~renegotiating
    BY <2>1 DEF SupervisedInv, FirstTime
  <2>3. l \in {"startCapture", "checkCapture"}
    BY <1>0, <1>2
  <2> QED
    BY <1>2, <2>1, <2>2, <2>3, StarterAdvances
<1>3. CASE t = "adapt"
  <2>1. pc["adapt"] \notin {"none", "dead"} /\ l \notin Negotiating
    BY <1>0, <1>3 DEF Building, Negotiating
  <2>2. ~stopRequested => Watched
    BY DEF SupervisedInv
  <2>3. ~stopRequested => "adapt" \in joinable
    BY <2>1, <2>2 DEF Watched, Terminated
  <2>4. ~stopRequested /\ pc["starter"] = "toStreaming"
          => recovering /\ \A c \in ChannelThreads : pc[c] \notin {"clearFlags", "toReconnecting"}
    BY <1>0, <1>3, <2>2 DEF Watched, Building
  <2>5. l = "startCapture" /\ ~stopRequested
          => recovering \/ (state # "Streaming" /\ pc["starter"] # "toStreaming")
    <3> SUFFICES ASSUME ~stopRequested, l = "startCapture"
                 PROVE  recovering \/ (state # "Streaming" /\ pc["starter"] # "toStreaming")
      OBVIOUS
    <3>1. CASE pc["adapt"] \in {"build", "startCapture"}
      BY <2>2, <3>1 DEF Watched, Repairing
    <3>2. CASE pc["adapt"] = "checkCapture"
      BY <1>0, <1>3, <3>2
    <3> QED
      BY <1>0, <1>3, <3>1, <3>2
  <2> QED
    <3>1. l \in {"startCapture", "checkCapture", "recovered"}
      BY <1>0
    <3>2. recovering => recovering' 
      OBVIOUS
    <3>3. ~stopRequested =>
           /\ "adapt" \in joinable'
           /\ state' = "Streaming" \/ pc["starter"] = "toStreaming"
                => isStreaming' \/ recovering'
           /\ l = "startCapture"
              => recovering' \/ (state' # "Streaming" /\ pc["starter"] # "toStreaming")
           /\ pc["starter"] = "toStreaming" => recovering'
           /\ pc["starter"] = "toStreaming"
              => \A c \in ChannelThreads : pc[c] \notin {"clearFlags", "toReconnecting"}
      BY <2>3, <2>4, <2>5
    <3> QED
      BY <1>3, <2>1, <3>1, <3>2, <3>3, AdaptAdvances
<1> QED
  BY <1>1, <1>2, <1>3

(* Start() hands the session over to the supervisor it creates.              *)
LEMMA HandoverSupervised ==
  ASSUME TypeOK, ThreadInv, SupervisedInv, CheckCapture("starter")
  PROVE  SupervisedInv'
<1>1. {"starter", "owner", "adapt", "video"} \subseteq Threads
      /\ ChannelThreads \subseteq Threads
      /\ \A c \in ChannelThreads : c \notin {"starter", "owner", "adapt", "video"}
  BY ChannelThreadsAssumption DEF Threads
<1>2. pc["starter"] = "checkCapture" /\ pc["starter"] \in Starting
  BY DEF CheckCapture, Starting, Building
<1>3. pc["adapt"] = "none" /\ "adapt" \notin joinable /\ isStreaming
  BY <1>1, <1>2 DEF ThreadInv, StarterFirst, SupervisedInv, FirstTime
<1>4. OnStack' = OnStack /\ OnStack["adapt"] = {} /\ OnStack["starter"] = {}
  <2>1. OnStack' = OnStack
    BY DEF CheckCapture, Spawn, OnStack
  <2> QED
    BY <1>1, <1>2, <1>3, <2>1, BodyStack DEF TypeOK, ThreadInv, Procs
<1>5. /\ pc'["starter"] = "toStreaming" /\ pc'["adapt"] = "loop"
      /\ \A u \in Threads \ {"starter", "adapt"} : pc'[u] = pc[u]
  BY <1>1, <1>3 DEF CheckCapture, Spawn, Succeeding, FirstLabel
<1>6. pc'["owner"] = pc["owner"] /\ pc'["video"] = pc["video"]
      /\ \A c \in ChannelThreads : pc'[c] = pc[c]
  BY <1>1, <1>5
<1>7. UNCHANGED <<state, isStreaming, recovering, stopRequested, renegotiating>>
      /\ joinable' = joinable \cup {"adapt"}
  BY DEF CheckCapture
<1>8. StopAsked'
  <2>1. \A u \in Threads : Stopping(u)' => stopRequested'
    <3>1. ASSUME NEW u \in Threads, Stopping(u)'  PROVE Stopping(u)
      <4>1. u \notin {"starter", "adapt"}
        BY <1>4, <1>5, <3>1, NextStoppingSet DEF StopLabels
      <4> QED
        BY <1>4, <1>5, <3>1, <4>1, NextStoppingSet, StoppingSet
    <3> QED
      BY <1>7, <3>1 DEF SupervisedInv, StopAsked
  <2> QED
    BY <1>2, <1>4, <1>5, <1>6, <1>7, <2>1 DEF SupervisedInv, StopAsked
<1>9. FirstTime'
  BY <1>3, <1>5, <1>7 DEF FirstTime, Starting, Opening, Negotiating, Building
<1>10. Watched => Watched'
  <2> SUFFICES ASSUME Watched PROVE Watched'
    OBVIOUS
  <2>1. \A u \in Threads : pc'[u] = "stopMedia" \/ "stopMedia" \in OnStack'[u] => u = "adapt"
    BY <1>4, <1>5 DEF Watched
  <2>2. ~Repairing'
    BY <1>4, <1>5 DEF Repairing, Negotiating
  <2>3. state = "Reconnecting" => recovering
    BY <1>2, <1>3 DEF Watched
  <2>4. \A u \in Threads : pc'[u] \in {"clearFlags", "toReconnecting"} => recovering
    BY <1>2, <1>5 DEF Watched
  <2> QED
    BY <1>3, <1>4, <1>5, <1>7, <2>1, <2>2, <2>3, <2>4
       DEF Watched, Terminated, Negotiating, Building
<1> QED
  BY <1>7, <1>8, <1>9, <1>10 DEF SupervisedInv

LEMMA BuildSupervised ==
  ASSUME TypeOK, ThreadInv, SupervisedInv, NEW t \in Threads,
         Build(t) \/ StartCapture(t) \/ CheckCapture(t)
  PROVE  SupervisedInv'
<1>1. CASE Build(t)
  <2>1. CASE AbandonPipeline(t) /\ UNCHANGED joinable
    BY <1>1, <2>1, AbandonSupervised DEF Build
  <2>2. CASE isStreaming' = TRUE /\ joinable' = joinable \cup {"video"}
             /\ Spawn(t, "startCapture", {"video"})
    <3>1. Advances(t, "startCapture", {})
      BY <1>1, <2>2, SpawnAdvances DEF Build, Procs
    <3> QED
      BY <1>1, <2>2, <3>1, BuildingSupervised DEF Build
  <2> QED
    BY <1>1, <2>1, <2>2 DEF Build
<1>2. CASE StartCapture(t)
  <2>1. CASE AbandonPipeline(t)
    BY <1>2, <2>1, AbandonSupervised DEF StartCapture
  <2>2. CASE Goto(t, "checkCapture") /\ UNCHANGED isStreaming
    <3>1. Advances(t, "checkCapture", {})
      BY <1>2, <2>2, ReachesGoto, ReachesAdvances DEF StartCapture, Procs
    <3>2. isStreaming
      BY <1>2 DEF StartCapture, SupervisedInv, FirstTime
    <3> QED
      BY <1>2, <2>2, <3>1, <3>2, BuildingSupervised DEF StartCapture
  <2> QED
    BY <1>2, <2>1, <2>2 DEF StartCapture
<1>3. CASE CheckCapture(t)
  <2>1. t \in {"starter", "adapt"} /\ pc[t] = "checkCapture"
    BY <1>3 DEF CheckCapture, ThreadInv, Roles, Building
  <2>2. CASE t = "starter"
    BY <1>3, <2>2, HandoverSupervised
  <2>3. CASE t = "adapt"
    <3>1. OnStack["adapt"] = {} /\ OnStack' = OnStack
      <4>1. OnStack' = OnStack
        BY <1>3 DEF CheckCapture, Spawn, OnStack
      <4> QED
        BY <2>1, <2>3, <4>1, BodyStack DEF TypeOK, ThreadInv, Procs
    <3>2. pc'["adapt"] = "recovered" /\ \A u \in Threads \ {"adapt"} : pc'[u] = pc[u]
      BY <1>3, <2>3 DEF CheckCapture, Spawn, Succeeding
    <3>3. Advances("adapt", "recovered", {})
      BY <2>1, <2>3, <3>1, <3>2 DEF Advances, Procs
    <3>4. isStreaming
      BY <2>1 DEF SupervisedInv, FirstTime
    <3> QED
      BY <1>3, <2>1, <2>3, <3>3, <3>4, BuildingSupervised DEF CheckCapture
  <2> QED
    BY <2>1, <2>2, <2>3
<1> QED
  BY <1>1, <1>2, <1>3

LEMMA InitSupervised ==
  ASSUME Init
  PROVE  SupervisedInv
<1>1. {"starter", "owner", "adapt", "video"} \subseteq Threads
      /\ ChannelThreads \subseteq Threads
      /\ \A c \in ChannelThreads : c \notin {"starter", "owner", "adapt", "video"}
  BY ChannelThreadsAssumption DEF Threads
<1>2. /\ pc["starter"] = "start" /\ pc["owner"] = "own" /\ pc["adapt"] = "none"
      /\ pc["video"] = "none"
      /\ \A t \in Threads : pc[t] \in {"start", "own", "none"} /\ stack[t] = <<>>
  BY <1>1 DEF Init
<1>3. \A t \in Threads : OnStack[t] = {}
  BY <1>2 DEF OnStack
<1>4. StopAsked
  <2>1. \A t \in Threads : ~Stopping(t)
    BY <1>2, <1>3, StoppingSet DEF StopLabels
  <2> QED
    BY <1>1, <1>2, <1>3, <2>1 DEF StopAsked, Asking
<1>5. FirstTime
  BY <1>2 DEF Init, FirstTime
<1>6. Watched
  <2>1. ~Repairing
    BY <1>1, <1>2, <1>3 DEF Repairing, Negotiating
  <2> QED
    BY <1>1, <1>2, <1>3, <2>1 DEF Init, Watched, Terminated, Negotiating, Building
<1> QED
  BY <1>4, <1>5, <1>6 DEF SupervisedInv

LEMMA NextSupervised ==
  ASSUME ~EarlyStop, TypeOK, PipelineInv, ThreadInv, ThreadInv', SupervisedInv, [Next]_vars
  PROVE  SupervisedInv'
<1>1. CASE UNCHANGED vars
  BY <1>1, SameSupervised DEF vars
<1>2. CASE Environment
  <2>1. CASE WindowExpires
    BY <2>1, SameSupervised DEF WindowExpires
  <2> QED
    BY <1>2, <2>1, ChannelSupervised, VideoSupervised, OwnerSupervised DEF Environment
<1>3. ASSUME NEW t \in Threads, Step(t)  PROVE SupervisedInv'
  <2>1. CASE NegotiateSteps(t) \/ LockPipeline(t)
    BY <2>1, NegotiateSupervised
  <2>2. CASE Build(t) \/ StartCapture(t) \/ CheckCapture(t)
    BY <2>2, BuildSupervised
  <2>3. CASE ProcStep(t)
    BY <2>3, ProcSupervised
  <2> QED
    BY <1>3, <2>1, <2>2, <2>3, StartSupervised, AdaptSupervised, VideoSupervised,
       OwnerSupervised, ChannelSupervised
       DEF Step, PipelineSteps, ProcStep
<1> QED
  BY <1>1, <1>2, <1>3 DEF Next

(* A session that reports Streaming, and is not being stopped, has its       *)
(* supervisor, provided its owner does not stop it before Start() has begun  *)
(* (Start() would reset the flag of a stop that is under way).               *)
THEOREM SupervisedAlways ==
  ASSUME ~EarlyStop
  PROVE  Spec => []Supervised
<1>1. SupervisedInv => Supervised
  BY DEF SupervisedInv, Watched, Supervised
<1>2. Init => TypeOK /\ PipelineInv /\ ThreadInv /\ SupervisedInv
  BY InitType, InitPipeline, InitThreads, InitSupervised
<1>3. TypeOK /\ PipelineInv /\ ThreadInv /\ SupervisedInv /\ [Next]_vars
        => (TypeOK /\ PipelineInv /\ ThreadInv /\ SupervisedInv)'
  BY NextType, NextPipeline, NextThreads, NextSupervised
<1> QED
  BY <1>1, <1>2, <1>3, PTL DEF Spec

-----------------------------------------------------------------------------
(* What a Stop() that ran leaves behind.                                     *)

(* A label of Stop() is only ever on top of a stack: what it calls calls     *)
(* nothing more.                                                             *)
StopFirst ==
  \A t \in Threads : \A i \in 1..Len(stack[t]) : stack[t][i] \in StopLabels => i = 1

(* Where a stop is, by the label of it that is on the stack; there is one.   *)
OneStop ==
  /\ \A t \in Threads : pc[t] \in StopLabels => OnStack[t] \cap StopLabels = {}
  /\ \A t \in Threads : "joinAdapt" \in OnStack[t] =>
       pc[t] \in {"stopMedia", "joinVideo", "freeMedia"} /\ "resetRecovery" \notin OnStack[t]
  /\ \A t \in Threads : "resetRecovery" \in OnStack[t] =>
       pc[t] \in {"disconnect", "lockChannel", "joinChannel", "notify"}
  /\ \A t, u \in Threads : Stopping(t) /\ Stopping(u) => t = u

LEMMA FirstSame ==
  ASSUME StopFirst, UNCHANGED stack
  PROVE  StopFirst'
BY DEF StopFirst

LEMMA FirstReturn ==
  ASSUME ControlOK, StopFirst, NEW t \in Threads, Return(t)
  PROVE  StopFirst' /\ OnStack'[t] \cap StopLabels = {}
<1>1. /\ stack' = [stack EXCEPT ![t] = Tail(stack[t])]
      /\ stack[t] # <<>> /\ stack \in [Threads -> Seq(Continuations)]
  BY DEF Return, ControlOK
<1> DEFINE s == stack[t]
           r == Tail(s)
<1>2. Len(r) = Len(s) - 1 /\ \A i \in 1..Len(r) : r[i] = s[i + 1] /\ i + 1 \in 1..Len(s)
  BY <1>1, HeadTailProperties
<1>3. \A i \in 1..Len(r) : r[i] \notin StopLabels
  <2> TAKE i \in 1..Len(r)
  <2>1. i + 1 # 1
    OBVIOUS
  <2> QED
    BY <1>2, <2>1 DEF StopFirst
<1>4. stack'[t] = r /\ \A u \in Threads \ {t} : stack'[u] = stack[u]
  BY <1>1
<1>5. StopFirst'
  BY <1>3, <1>4 DEF StopFirst
<1>6. OnStack'[t] = {r[i] : i \in 1..Len(r)}
  BY <1>4 DEF OnStack
<1> QED
  BY <1>3, <1>5, <1>6

LEMMA FirstEnter ==
  ASSUME ControlOK, StackShape, StopFirst, NEW t \in Threads, NEW l,
         NEW after \in Seq(Continuations \ StopLabels), Call(t, l, after), pc[t] \notin Procs
  PROVE  StopFirst'
<1>1. stack' = [stack EXCEPT ![t] = after \o stack[t]]
      /\ stack \in [Threads -> Seq(Continuations)] /\ stack[t] = <<>>
  BY DEF Call, ControlOK, StackShape
<1>2. after \o stack[t] = after
  BY <1>1
<1>3. stack'[t] = after /\ \A u \in Threads \ {t} : stack'[u] = stack[u]
  BY <1>1, <1>2
<1>4. \A i \in 1..Len(after) : after[i] \notin StopLabels
  OBVIOUS
<1> QED
  BY <1>3, <1>4 DEF StopFirst

LEMMA FirstNest ==
  ASSUME ControlOK, StopFirst, NEW t \in Threads, NEW l, NEW x, Call(t, l, <<x>>),
         OnStack[t] \cap StopLabels = {}
  PROVE  StopFirst'
<1> DEFINE s == stack[t]
           r == <<x>> \o s
<1>1. stack' = [stack EXCEPT ![t] = r] /\ s \in Seq(Continuations)
      /\ stack \in [Threads -> Seq(Continuations)]
  BY DEF Call, ControlOK
<1>2. Len(r) = Len(s) + 1 /\ \A i \in 1..Len(r) : i # 1 => r[i] = s[i - 1] /\ i - 1 \in 1..Len(s)
  BY <1>1
<1>3. \A j \in 1..Len(s) : s[j] \notin StopLabels
  BY DEF OnStack
<1>4. \A i \in 1..Len(r) : r[i] \in StopLabels => i = 1
  BY <1>2, <1>3
<1>5. stack'[t] = r /\ \A u \in Threads \ {t} : stack'[u] = stack[u]
  BY <1>1
<1> QED
  BY <1>4, <1>5 DEF StopFirst

LEMMA ProcFirstLabel ==
  ASSUME TypeOK, ThreadInv, StopFirst, OneStop, NEW t \in Threads, ProcStep(t)
  PROVE  StopFirst'
<1>1. ControlOK /\ StackShape
  BY DEF TypeOK, ThreadInv
<1>2. CASE TeardownSteps(t)
  BY <1>1, <1>2, FirstSame, FirstReturn DEF TeardownSteps, StopMedia, JoinVideo, FreeMedia, Goto
<1>3. CASE ToStopping(t) \/ JoinAdapt(t)
  <2>1. pc[t] \in StopLabels
    BY <1>3 DEF ToStopping, JoinAdapt, StopLabels
  <2>2. OnStack[t] \cap StopLabels = {}
    BY <2>1 DEF OneStop
  <2> QED
    BY <1>1, <1>3, <2>2, FirstNest DEF ToStopping, JoinAdapt
<1>4. CASE StopOnce(t) \/ ResetRecovery(t) \/ ToFinal(t)
  BY <1>1, <1>4, FirstSame, FirstReturn DEF StopOnce, ResetRecovery, ToFinal, Goto
<1>5. CASE ReconnectSteps(t)
  BY <1>1, <1>5, FirstSame, FirstReturn
     DEF ReconnectSteps, FailSession, MarkFailed, RequestReconnect, OpenWindow, ClearFlags,
         ToReconnecting, Goto
<1>6. CASE DisconnectSteps(t)
  BY <1>1, <1>6, FirstSame, FirstReturn
     DEF DisconnectSteps, Disconnect, NoChannel, LockChannel, JoinChannel, Notify, Goto
<1> QED
  BY <1>2, <1>3, <1>4, <1>5, <1>6 DEF ProcStep, StopSteps

(* The sequences a body leaves on its stack hold no label of Stop().         *)
LEMMA Lefts ==
  /\ \A x \in Continuations \ StopLabels : <<x>> \in Seq(Continuations \ StopLabels)
  /\ \A x, y \in Continuations \ StopLabels : <<x, y>> \in Seq(Continuations \ StopLabels)
  /\ \A x, y, z \in Continuations \ StopLabels : <<x, y, z>> \in Seq(Continuations \ StopLabels)
OBVIOUS

LEMMA FailFirst ==
  ASSUME TypeOK, ThreadInv, StopFirst, NEW t \in Threads, pc[t] \in Negotiating, Fail(t)
  PROVE  StopFirst'
<1>1. pc[t] \notin Procs
  BY DEF Negotiating, Procs
<1>2. <<"disconnect", "loop">> \in Seq(Continuations \ StopLabels)
  BY Lefts DEF Continuations, StopLabels
<1> QED
  BY <1>1, <1>2, FirstSame, FirstEnter DEF Fail, Goto, TypeOK, ThreadInv

LEMMA AttemptFirst ==
  ASSUME TypeOK, ThreadInv, StopFirst, NEW t \in Threads, NegotiateSteps(t) \/ PipelineSteps(t)
  PROVE  StopFirst'
<1>1. CASE NegotiateSteps(t) \/ LockPipeline(t)
  <2>1. pc[t] \in Negotiating
    BY <1>1 DEF NegotiateSteps, NewChannel, Connect, Connected, Authenticate, Launch, AwaitLaunch,
                SendOffer, AwaitAnswer, LockPipeline, Negotiating
  <2> QED
    BY <1>1, <2>1, FirstSame, FailFirst
       DEF NegotiateSteps, NewChannel, Connect, Connected, Authenticate, Launch, AwaitLaunch,
           SendOffer, AwaitAnswer, LockPipeline, Goto, Spawn
<1>2. ASSUME AbandonPipeline(t), pc[t] \in Building  PROVE StopFirst'
  <2>1. Failing(t) \in Seq(Continuations \ StopLabels)
    BY Lefts DEF Failing, Continuations, StopLabels
  <2>2. pc[t] \notin Procs
    BY <1>2 DEF Building, Procs
  <2> QED
    BY <1>2, <2>1, <2>2, FirstEnter DEF AbandonPipeline, TypeOK, ThreadInv
<1>3. CASE Build(t) \/ StartCapture(t) \/ CheckCapture(t)
  BY <1>2, <1>3, FirstSame DEF Build, StartCapture, CheckCapture, Building, Goto, Spawn
<1> QED
  BY <1>1, <1>3 DEF PipelineSteps

LEMMA BodyFirst ==
  ASSUME TypeOK, ThreadInv, StopFirst,
         StartSteps \/ AdaptSteps \/ EncodeExit \/ SourceLost \/ OwnerSteps \/ OwnerStops
         \/ SetBitrate \/ (\E t \in ChannelThreads : ChannelSteps(t) \/ ChannelEvents(t))
  PROVE  StopFirst'
<1>1. ControlOK /\ StackShape /\ {"starter", "owner", "adapt", "video"} \subseteq Threads
      /\ ChannelThreads \subseteq Threads
  BY DEF TypeOK, ThreadInv, Threads
<1>2. ASSUME NEW t \in Threads, NEW l, NEW x \in Continuations \ StopLabels, Call(t, l, <<x>>),
             pc[t] \notin Procs
      PROVE  StopFirst'
  BY <1>1, <1>2, Lefts, FirstEnter
<1>3. ASSUME NEW t \in Threads, NEW l, NEW x \in Continuations \ StopLabels,
             NEW y \in Continuations \ StopLabels, Call(t, l, <<x, y>>), pc[t] \notin Procs
      PROVE  StopFirst'
  BY <1>1, <1>3, Lefts, FirstEnter
<1> USE DEF Continuations, StopLabels, Procs, Goto
<1>4. CASE StartSteps
  BY <1>1, <1>2, <1>4, FirstSame
     DEF StartSteps, StartBegin, ToConnecting, OpenCapture, AwaitFirstFrame, StartFailed,
         StartSucceeded
<1>5. CASE AdaptSteps
  BY <1>1, <1>2, <1>3, <1>5, FirstSame
     DEF AdaptSteps, Loop, DropMedia, Retry, Backoff, Recovered, Rearm, Resume, Tick
<1>6. CASE EncodeExit \/ SourceLost
  BY <1>1, <1>2, <1>6, FirstSame DEF EncodeExit, SourceLost
<1>7. CASE OwnerSteps \/ OwnerStops \/ SetBitrate
  BY <1>1, <1>2, <1>3, <1>7, FirstSame
     DEF OwnerSteps, OwnerStops, SetBitrate, Release, DestroyAdapt, Destroyed
<1>8. ASSUME NEW t \in ChannelThreads, ChannelSteps(t) \/ ChannelEvents(t)  PROVE StopFirst'
  BY <1>1, <1>2, <1>8, FirstSame
     DEF ChannelSteps, ChannelEvents, ChannelExit, NotifyLost, ReceiverStatus, WebrtcAnswer,
         CloseMessage, ConnectionLost
<1> QED
  BY <1>4, <1>5, <1>6, <1>7, <1>8

LEMMA NextFirst ==
  ASSUME TypeOK, ThreadInv, StopFirst, OneStop, [Next]_vars
  PROVE  StopFirst'
<1>1. CASE WindowExpires \/ UNCHANGED vars
  BY <1>1, FirstSame DEF WindowExpires, vars
<1>2. ASSUME NEW t \in Threads, Step(t)  PROVE StopFirst'
  BY <1>2, ProcFirstLabel, AttemptFirst, BodyFirst DEF Step, ProcStep
<1> QED
  BY <1>1, <1>2, BodyFirst DEF Next, Environment

(* The thread goes on in a procedure, or leaves it; a return leaves no label *)
(* of Stop() behind.                                                         *)
Moved(t, l) == pc'[t] = l /\ OnStack'[t] = OnStack[t]
Returned(t) == pc'[t] \in OnStack[t] /\ OnStack'[t] \subseteq OnStack[t]
               /\ OnStack'[t] \cap StopLabels = {}
Nested(t, l, x) == pc'[t] = l /\ OnStack'[t] = OnStack[t] \cup {x}

(* What each step of Stop() leads to, and of what it calls.                  *)
ClosingEdges(t) ==
  /\ pc[t] = "stop" => \/ Moved(t, "toStopping") /\ ~stopRequested
                       \/ Returned(t) /\ stopRequested
  /\ pc[t] = "toStopping" => Nested(t, "stopMedia", "joinAdapt")
  /\ pc[t] = "joinAdapt" => /\ Nested(t, "disconnect", "resetRecovery")
                            /\ "adapt" \in joinable => t = "adapt" \/ Terminated("adapt")
  /\ pc[t] = "resetRecovery" => Moved(t, "toFinal")
  /\ pc[t] = "toFinal" => Returned(t)
  /\ pc[t] = "stopMedia" => Moved(t, "joinVideo")
  /\ pc[t] = "joinVideo" => Moved(t, "freeMedia")
  /\ pc[t] = "freeMedia" => Returned(t)
  /\ pc[t] = "disconnect" => Moved(t, "lockChannel") \/ (Returned(t) /\ ~channel)
  /\ pc[t] = "lockChannel" => Moved(t, "joinChannel")
  /\ pc[t] = "joinChannel" => /\ Moved(t, "notify")
                              /\ \A c \in ChannelThreads \ {t} : Terminated(c)
  /\ pc[t] = "notify" => Returned(t) \/ (Moved(t, "reconnect") /\ ~stopRequested)
  /\ pc[t] \in {"fail", "markFailed", "reconnect", "openWindow", "clearFlags", "toReconnecting"}
       => Returned(t) \/ \E l \in Procs \ StopLabels : Moved(t, l)

(* What they change.                                                         *)
ClosingState(t) ==
  /\ stopRequested' <=> stopRequested \/ pc[t] = "stop"
  /\ tornDown' <=> tornDown \/ (pc[t] = "freeMedia" /\ stopRequested)
  /\ \/ state' = state
     \/ pc[t] = "toStopping" /\ state' \in {state, "Stopping"} /\ (state # "Idle" => state' = "Stopping")
     \/ pc[t] = "toFinal" /\ state' \in {TransitionTo(state, "Failed"), TransitionTo(state, "Idle")}
     \/ pc[t] = "toReconnecting" /\ state' = "Reconnecting" /\ IsValidTransition(state, "Reconnecting")
  /\ pc[t] = "toStopping" /\ state # "Idle" => state' = "Stopping"
  /\ pc[t] = "toFinal" => state' \in {TransitionTo(state, "Failed"), TransitionTo(state, "Idle")}
  /\ channel' = channel /\ sizeKnown' = sizeKnown
  /\ joinable' \subseteq joinable
  /\ "adapt" \in joinable => "adapt" \in joinable' \/ pc[t] = "joinAdapt"

LEMMA GotoMoved ==
  ASSUME ControlOK, NEW t \in Threads, NEW l, Goto(t, l)
  PROVE  Moved(t, l)
BY GotoStack DEF ControlOK, Moved

LEMMA ReturnReturned ==
  ASSUME ControlOK, StopFirst, NEW t \in Threads, Return(t)
  PROVE  Returned(t)
<1>1. pc'[t] \in OnStack[t] /\ OnStack'[t] \subseteq OnStack[t]
  BY ReturnStack DEF ControlOK
<1> QED
  BY <1>1, FirstReturn DEF Returned

LEMMA CallNested ==
  ASSUME ControlOK, NEW t \in Threads, NEW l, NEW x \in {"joinAdapt", "resetRecovery"},
         Call(t, l, <<x>>)
  PROVE  Nested(t, l, x)
<1> DEFINE after == <<x>>
<1>1. after \in Seq(Continuations)
  BY DEF Continuations
<1>2. /\ pc' = [pc EXCEPT ![t] = l]
      /\ OnStack'[t] = {after[i] : i \in 1..Len(after)} \cup OnStack[t]
  BY <1>1, CallStack
<1>3. {after[i] : i \in 1..Len(after)} = {x}
  BY AfterOne
<1> QED
  BY <1>2, <1>3 DEF Nested, ControlOK

LEMMA TeardownClosing ==
  ASSUME TypeOK, StopFirst, NEW t \in Threads, TeardownSteps(t)
  PROVE  ClosingEdges(t) /\ ClosingState(t)
<1>1. ControlOK
  BY DEF TypeOK
<1>2. CASE StopMedia(t)
  <2>1. Moved(t, "joinVideo") /\ pc[t] = "stopMedia"
    BY <1>1, <1>2, GotoMoved DEF StopMedia
  <2> QED
    BY <1>2, <2>1 DEF StopMedia, ClosingEdges, ClosingState
<1>3. CASE JoinVideo(t)
  <2>1. Moved(t, "freeMedia") /\ pc[t] = "joinVideo"
    BY <1>1, <1>3, GotoMoved DEF JoinVideo
  <2> QED
    BY <1>3, <2>1 DEF JoinVideo, ClosingEdges, ClosingState
<1>4. CASE FreeMedia(t)
  <2>1. Returned(t) /\ pc[t] = "freeMedia"
    BY <1>1, <1>4, ReturnReturned DEF FreeMedia
  <2> QED
    BY <1>4, <2>1 DEF FreeMedia, ClosingEdges, ClosingState
<1> QED
  BY <1>2, <1>3, <1>4 DEF TeardownSteps

LEMMA StopClosing ==
  ASSUME TypeOK, StopFirst, NEW t \in Threads, StopSteps(t)
  PROVE  ClosingEdges(t) /\ ClosingState(t)
<1>1. ControlOK
  BY DEF TypeOK
<1>2. CASE StopOnce(t)
  <2>1. /\ pc[t] = "stop"
        /\ \/ Moved(t, "toStopping") /\ ~stopRequested
           \/ Returned(t) /\ stopRequested
    BY <1>1, <1>2, GotoMoved, ReturnReturned DEF StopOnce
  <2> QED
    BY <1>2, <2>1 DEF StopOnce, ClosingEdges, ClosingState
<1>3. CASE ToStopping(t)
  <2>1. pc[t] = "toStopping" /\ Nested(t, "stopMedia", "joinAdapt")
    BY <1>1, <1>3, CallNested DEF ToStopping
  <2>2. state' \in {state, "Stopping"} /\ (state # "Idle" => state' = "Stopping")
    BY <1>3 DEF ToStopping, TransitionTo, IsValidTransition
  <2> QED
    BY <1>3, <2>1, <2>2 DEF ToStopping, ClosingEdges, ClosingState
<1>4. CASE JoinAdapt(t)
  <2>1. pc[t] = "joinAdapt" /\ Nested(t, "disconnect", "resetRecovery")
    BY <1>1, <1>4, CallNested DEF JoinAdapt
  <2> QED
    BY <1>4, <2>1 DEF JoinAdapt, CanJoin, ClosingEdges, ClosingState
<1>5. CASE ResetRecovery(t)
  <2>1. pc[t] = "resetRecovery" /\ Moved(t, "toFinal")
    BY <1>1, <1>5, GotoMoved DEF ResetRecovery
  <2> QED
    BY <1>5, <2>1 DEF ResetRecovery, ClosingEdges, ClosingState
<1>6. CASE ToFinal(t)
  <2>1. pc[t] = "toFinal" /\ Returned(t)
    BY <1>1, <1>6, ReturnReturned DEF ToFinal
  <2>2. state' \in {TransitionTo(state, "Failed"), TransitionTo(state, "Idle")}
    BY <1>6 DEF ToFinal
  <2> QED
    BY <1>6, <2>1, <2>2 DEF ToFinal, ClosingEdges, ClosingState
<1> QED
  BY <1>2, <1>3, <1>4, <1>5, <1>6 DEF StopSteps

LEMMA ReconnectClosing ==
  ASSUME TypeOK, StopFirst, NEW t \in Threads, ReconnectSteps(t)
  PROVE  ClosingEdges(t) /\ ClosingState(t)
<1>1. ControlOK
  BY DEF TypeOK
<1>2. pc[t] \in {"fail", "markFailed", "reconnect", "openWindow", "clearFlags", "toReconnecting"}
  BY DEF ReconnectSteps, FailSession, MarkFailed, RequestReconnect, OpenWindow, ClearFlags,
         ToReconnecting
<1>3. Returned(t) \/ \E l \in Procs \ StopLabels : Moved(t, l)
  <2>1. Return(t) \/ \E l \in {"markFailed", "stop", "openWindow", "clearFlags", "fail", "toReconnecting"} :
                        Goto(t, l)
    BY DEF ReconnectSteps, FailSession, MarkFailed, RequestReconnect, OpenWindow, ClearFlags,
           ToReconnecting
  <2> QED
    BY <1>1, <2>1, GotoMoved, ReturnReturned DEF Procs, StopLabels
<1>4. /\ stopRequested' = stopRequested /\ tornDown' = tornDown
      /\ channel' = channel /\ sizeKnown' = sizeKnown /\ joinable' = joinable
      /\ \/ state' = state
         \/ pc[t] = "toReconnecting" /\ state' = "Reconnecting"
            /\ IsValidTransition(state, "Reconnecting")
  BY DEF ReconnectSteps, FailSession, MarkFailed, RequestReconnect, OpenWindow, ClearFlags,
         ToReconnecting
<1>5. pc[t] \notin {"stop", "freeMedia", "toStopping", "toFinal", "joinAdapt", "resetRecovery",
                    "stopMedia", "joinVideo", "disconnect", "lockChannel", "joinChannel", "notify"}
  BY <1>2
<1>6. ClosingEdges(t)
  BY <1>3, <1>5 DEF ClosingEdges
<1>7. stopRequested \in BOOLEAN /\ tornDown \in BOOLEAN
  BY DEF TypeOK, FlagsOK
<1>8. ClosingState(t)
  BY <1>4, <1>5, <1>7 DEF ClosingState
<1> QED
  BY <1>6, <1>8

LEMMA DisconnectClosing ==
  ASSUME TypeOK, StopFirst, NEW t \in Threads, DisconnectSteps(t)
  PROVE  ClosingEdges(t) /\ ClosingState(t)
<1>1. ControlOK
  BY DEF TypeOK
<1>2. /\ pc[t] = "disconnect" => Moved(t, "lockChannel") \/ (Returned(t) /\ ~channel)
      /\ pc[t] = "lockChannel" => Moved(t, "joinChannel")
      /\ pc[t] = "joinChannel" => /\ Moved(t, "notify")
                                  /\ \A c \in ChannelThreads \ {t} : Terminated(c)
      /\ pc[t] = "notify" => Returned(t) \/ (Moved(t, "reconnect") /\ ~stopRequested)
      /\ pc[t] \in {"disconnect", "lockChannel", "joinChannel", "notify"}
  <2>1. CASE Disconnect(t) \/ NoChannel(t)
    BY <1>1, <2>1, GotoMoved, ReturnReturned DEF Disconnect, NoChannel
  <2>2. CASE LockChannel(t) \/ JoinChannel(t)
    BY <1>1, <2>2, GotoMoved DEF LockChannel, JoinChannel
  <2>3. CASE Notify(t)
    BY <1>1, <2>3, GotoMoved, ReturnReturned DEF Notify
  <2> QED
    BY <2>1, <2>2, <2>3 DEF DisconnectSteps
<1>3. UNCHANGED <<stopRequested, tornDown, state, channel, sizeKnown, joinable>>
  BY DEF DisconnectSteps, Disconnect, NoChannel, LockChannel, JoinChannel, Notify
<1>4. stopRequested \in BOOLEAN /\ tornDown \in BOOLEAN
  BY DEF TypeOK, FlagsOK
<1>5. ClosingEdges(t)
  BY <1>2 DEF ClosingEdges
<1>6. ClosingState(t)
  BY <1>2, <1>3, <1>4 DEF ClosingState
<1> QED
  BY <1>5, <1>6

LEMMA StepClosing ==
  ASSUME TypeOK, StopFirst, NEW t \in Threads, ProcStep(t)
  PROVE  ClosingEdges(t) /\ ClosingState(t)
BY TeardownClosing, StopClosing, ReconnectClosing, DisconnectClosing DEF ProcStep

LEMMA ProcOne ==
  ASSUME TypeOK, ThreadInv, SupervisedInv, StopFirst, OneStop, NEW t \in Threads, ProcStep(t)
  PROVE  OneStop'
<1>1. ClosingEdges(t) /\ ClosingState(t) /\ ProcMoves(t)
  BY StepClosing, StepMoves DEF TypeOK, ThreadInv
<1>2. \A u \in Threads \ {t} : pc'[u] = pc[u] /\ OnStack'[u] = OnStack[u]
  BY <1>1 DEF ProcMoves
<1>3. \A u \in Threads : Stopping(u) => stopRequested
  BY DEF SupervisedInv, StopAsked
<1>4. \A u \in Threads \ {t} : Stopping(u)' <=> Stopping(u)
  BY <1>2, NextStoppingSet, StoppingSet
<1>5. pc[t] \in Procs
  BY <1>1 DEF ProcMoves
<1>6. Stopping(t) <=> pc[t] \in StopLabels \/ OnStack[t] \cap StopLabels # {}
  BY StoppingSet
<1>7. Stopping(t)' <=> pc'[t] \in StopLabels \/ OnStack'[t] \cap StopLabels # {}
  BY NextStoppingSet
<1> USE DEF StopLabels
<1>8. CASE Returned(t)
  <2>1. Stopping(t)' => Stopping(t)
    BY <1>6, <1>7, <1>8 DEF Returned
  <2>2. \A u, v \in Threads : Stopping(u)' /\ Stopping(v)' => u = v
    BY <1>4, <2>1 DEF OneStop
  <2>3. \A u \in Threads : pc'[u] \in StopLabels => OnStack'[u] \cap StopLabels = {}
    BY <1>2, <1>8 DEF OneStop, Returned
  <2>4. \A u \in Threads : "joinAdapt" \in OnStack'[u] =>
           pc'[u] \in {"stopMedia", "joinVideo", "freeMedia"} /\ "resetRecovery" \notin OnStack'[u]
    BY <1>2, <1>8 DEF OneStop, Returned
  <2>5. \A u \in Threads : "resetRecovery" \in OnStack'[u] =>
           pc'[u] \in {"disconnect", "lockChannel", "joinChannel", "notify"}
    BY <1>2, <1>8 DEF OneStop, Returned
  <2> QED
    BY <2>2, <2>3, <2>4, <2>5 DEF OneStop
<1>9. CASE Moved(t, "toStopping") /\ ~stopRequested
  <2>1. \A u \in Threads : ~Stopping(u)
    BY <1>3, <1>9
  <2>2. \A u \in Threads : OnStack'[u] \cap StopLabels = {}
    BY <1>2, <1>9, <2>1, StoppingSet DEF Moved
  <2>3. \A u, v \in Threads : Stopping(u)' /\ Stopping(v)' => u = v
    BY <1>4, <2>1
  <2> QED
    BY <2>2, <2>3 DEF OneStop
<1>10. CASE pc[t] \in {"toStopping", "joinAdapt"}
  <2>1. OnStack[t] \cap StopLabels = {} /\ Stopping(t)
    BY <1>6, <1>10 DEF OneStop
  <2>2. \A u, v \in Threads : Stopping(u)' /\ Stopping(v)' => u = v
    BY <1>4, <2>1 DEF OneStop
  <2>3. \/ pc'[t] = "stopMedia" /\ OnStack'[t] = OnStack[t] \cup {"joinAdapt"}
        \/ pc'[t] = "disconnect" /\ OnStack'[t] = OnStack[t] \cup {"resetRecovery"}
    BY <1>1, <1>10 DEF ClosingEdges, Nested
  <2> QED
    BY <1>2, <2>1, <2>2, <2>3 DEF OneStop
<1>11. CASE \E l \in Procs \ {"toStopping"} : Moved(t, l)
  <2>1. OnStack'[t] = OnStack[t]
    BY <1>11 DEF Moved
  <2>2. pc'[t] \in StopLabels => pc[t] \in StopLabels
    BY <1>1, <1>5, <1>11 DEF ClosingEdges, Moved, Nested, Procs, Returned
  <2>3. \A u, v \in Threads : Stopping(u)' /\ Stopping(v)' => u = v
    BY <1>4, <1>6, <1>7, <2>1, <2>2 DEF OneStop
  <2>4. \A u \in Threads : pc'[u] \in StopLabels => OnStack'[u] \cap StopLabels = {}
    BY <1>2, <2>1, <2>2 DEF OneStop
  <2>5. "joinAdapt" \in OnStack[t] =>
           pc'[t] \in {"stopMedia", "joinVideo", "freeMedia"} /\ "resetRecovery" \notin OnStack[t]
    BY <1>1, <1>11 DEF OneStop, ClosingEdges, Moved, Returned
  <2>6. "resetRecovery" \in OnStack[t] =>
           pc'[t] \in {"disconnect", "lockChannel", "joinChannel", "notify"}
    BY <1>1, <1>3, <1>6, <1>11 DEF OneStop, ClosingEdges, Moved, Returned
  <2> QED
    BY <1>2, <2>1, <2>3, <2>4, <2>5, <2>6 DEF OneStop
<1> QED
  BY <1>1, <1>5, <1>8, <1>9, <1>10, <1>11 DEF ClosingEdges, Procs

(* How far the stop of a session has come: past the entry into Stopping,     *)
(* past the join of the supervisor, done; and the states it may rest in.     *)
Taken == stopRequested /\ \A t \in Threads : pc[t] # "toStopping"
Joined == stopRequested /\ \A t \in Threads : /\ pc[t] \notin {"toStopping", "joinAdapt"}
                                              /\ "joinAdapt" \notin OnStack[t]
StopDone == stopRequested /\ \A t \in Threads : ~Stopping(t)
Closed == state \in {"Idle", "Failed"}

(* What a stop has joined: past that the supervisor is in no attempt, the    *)
(* media is down, and no channel thread asks for a reconnect.                *)
JoinedInv ==
  /\ pc["adapt"] \in Negotiating => "adapt" \in joinable
  /\ Joined => pc["adapt"] \notin Negotiating
  /\ \A t \in Threads :
       pc[t] \in {"joinAdapt", "resetRecovery", "toFinal"} \/ "resetRecovery" \in OnStack[t]
         => tornDown
  /\ \A t \in Threads :
       pc[t] \in {"resetRecovery", "toFinal"} \/ ("resetRecovery" \in OnStack[t] /\ pc[t] = "notify")
         => \A c \in ChannelThreads : pc[c] \notin Asking
  /\ ~channel => \A c \in ChannelThreads : pc[c] = "none"
  /\ pc["starter"] = "startFailed" \/ "startFailed" \in OnStack["starter"] => pc["adapt"] = "none"
  /\ sizeKnown => pc["starter"] # "awaitFirstFrame"

(* The state machine of a session that is being stopped: in Connecting there *)
(* is only a Start() on its way to failure; when the stop is done, the state *)
(* is closed or such a Start() is still to close it.                         *)
StateInv ==
  /\ ~Taken /\ Closed
       => pc["starter"] \notin Negotiating \cup Building \cup {"openCapture", "awaitFirstFrame"}
  /\ Taken /\ Closed => pc["starter"] \notin Building
  /\ Closed /\ pc["adapt"] # "none" => Joined
  /\ Taken /\ Closed /\ pc["starter"] \in Negotiating
       => \A c \in ChannelThreads : pc[c] \notin Asking
  /\ Taken => Closed \/ state \in {"Stopping", "Connecting"}
  /\ Taken /\ state = "Connecting" =>
       /\ pc["adapt"] = "none" /\ pc["starter"] \notin {"offer", "toStreaming"} \cup Building
       /\ \A t \in Threads : pc[t] \notin Asking
  /\ StopDone => state # "Stopping"
  /\ sizeKnown /\ StopDone =>
       Closed \/ pc["starter"] \in {"toConnecting", "openCapture", "startFailed"} \cup Negotiating

EndInv == StopFirst /\ OneStop /\ JoinedInv /\ StateInv

-----------------------------------------------------------------------------
(* A step of a thread in its own body, as a stop sees it.                    *)
BodyMoves(t) ==
  /\ pc[t] \notin Procs /\ OnStack[t] = {}
  /\ pc'[t] \notin StopLabels \cup Asking /\ OnStack'[t] \cap StopLabels = {}
  /\ \A u \in Threads \ {t} :
       /\ OnStack'[u] = OnStack[u]
       /\ \/ pc'[u] = pc[u]
          \/ pc[u] \notin Procs /\ pc'[u] \in {"encode", "receive", "beat", "loop"}

StarterEdges ==
  /\ pc'["starter"] = "startFailed" \/ "startFailed" \in OnStack'["starter"]
       => pc["starter"] \in Starting
  /\ pc'["starter"] \in {"offer", "build"} => ~stopRequested
  /\ pc'["starter"] = "build" => pc["starter"] = "lockPipeline"
  /\ pc'["starter"] \in {"startCapture", "checkCapture", "toStreaming"} => pc["starter"] \in Building
  /\ pc'["starter"] \in Negotiating
       => pc["starter"] \in Negotiating \cup {"openCapture", "awaitFirstFrame"}
  /\ pc'["starter"] = "awaitFirstFrame" => ~sizeKnown /\ pc["starter"] = "openCapture"
  /\ pc'["starter"] = "openCapture" => state' \notin {"Idle", "Failed"}
  /\ pc["starter"] \in {"toConnecting", "openCapture"} \cup Negotiating
       => pc'["starter"] \in {"openCapture", "awaitFirstFrame", "startFailed", "build"} \cup Negotiating
  /\ pc["starter"] = "startFailed" => state' = "Failed"

StateEdge(t) ==
  \/ state' = state
  \/ /\ state' = "Connecting" /\ state # "Stopping"
     /\ \/ t = "starter" /\ pc["starter"] \in {"toConnecting"} \cup Negotiating
        \/ t = "adapt" /\ pc["adapt"] \in Negotiating
  \/ t = "starter" /\ pc["starter"] = "startFailed" /\ state' = "Failed" /\ pc'["starter"] = "stop"
  \/ /\ state \notin {"Idle", "Failed", "Stopping"} /\ state' \notin {"Idle", "Failed"}
     /\ t = "adapt" \/ (t = "starter" /\ pc["starter"] \in {"offer", "toStreaming"})

BodyEdges(t) ==
  /\ UNCHANGED <<stopRequested, tornDown, sizeKnown>>
  /\ channel => channel'
  /\ \A c \in ChannelThreads : pc'[c] = pc[c] \/ channel
  /\ "adapt" \in joinable => "adapt" \in joinable' \/ Terminated("adapt")
  /\ IF t = "starter" THEN StarterEdges
     ELSE pc'["starter"] = pc["starter"] /\ OnStack'["starter"] = OnStack["starter"]
  /\ pc'["adapt"] # pc["adapt"] =>
       \/ t = "adapt"
       \/ t = "starter" /\ pc["starter"] \in Building /\ pc'["starter"] = "toStreaming"
            /\ OnStack'["starter"] = {} /\ pc'["adapt"] = "loop" /\ state' = state
  /\ t = "adapt" => ~Terminated("adapt")
  /\ pc'["adapt"] \in Negotiating
       => pc["adapt"] \in Negotiating \/ (~stopRequested /\ "adapt" \in joinable)
  /\ StateEdge(t)

LEMMA SameStops ==
  ASSUME TypeOK, ThreadInv, OneStop, NEW t \in Threads, BodyMoves(t), UNCHANGED stopRequested
  PROVE  /\ OneStop'
         /\ Taken' <=> Taken
         /\ Joined' <=> Joined
         /\ StopDone' <=> StopDone
         /\ \A u \in Threads : pc'[u] \in StopLabels \cup Asking \cup {"notify"} /\ u # t => pc'[u] = pc[u]
         /\ \A u \in Threads : pc'[u] \in StopLabels \cup Asking => pc'[u] = pc[u]
         /\ \A u \in Threads : pc[u] \in StopLabels \cup Asking => pc'[u] = pc[u]
         /\ \A u \in Threads : OnStack'[u] \cap StopLabels = OnStack[u] \cap StopLabels
         /\ \A u \in Threads : OnStack'[u] \cap StopLabels # {} => pc'[u] = pc[u]
<1> USE DEF BodyMoves
<1>1. StopLabels \cup Asking \cup {"notify"} \subseteq Procs
  BY DEF StopLabels, Asking, Procs
<1>2. \A u \in Threads : pc'[u] \in StopLabels \cup Asking \cup {"notify"} /\ u # t => pc'[u] = pc[u]
  BY DEF StopLabels, Asking
<1>3. \A u \in Threads : pc'[u] \in StopLabels \cup Asking => pc'[u] = pc[u]
  BY DEF StopLabels, Asking
<1>4. \A u \in Threads : pc[u] \in StopLabels \cup Asking => pc'[u] = pc[u]
  BY <1>1
<1>5. \A u \in Threads : OnStack'[u] \cap StopLabels = OnStack[u] \cap StopLabels
  OBVIOUS
<1>6. \A u \in Threads : OnStack'[u] \cap StopLabels # {} => pc'[u] = pc[u]
  <2> SUFFICES ASSUME NEW u \in Threads, OnStack'[u] \cap StopLabels # {} PROVE pc'[u] = pc[u]
    OBVIOUS
  <2>1. u # t /\ OnStack[u] # {}
    OBVIOUS
  <2>2. pc[u] \in Procs
    BY <2>1, BodyStack DEF TypeOK, ThreadInv
  <2> QED
    BY <2>1, <2>2
<1>7. \A u \in Threads : Stopping(u)' <=> Stopping(u)
  <2> TAKE u \in Threads
  <2>1. pc'[u] \in StopLabels <=> pc[u] \in StopLabels
    BY <1>3, <1>4
  <2> QED
    BY <1>5, <2>1, StoppingSet, NextStoppingSet
<1>8. Taken' <=> Taken
  BY <1>3, <1>4 DEF Taken, StopLabels
<1>9. Joined' <=> Joined
  <2>1. \A u \in Threads : /\ pc'[u] \in {"toStopping", "joinAdapt"} <=> pc[u] \in {"toStopping", "joinAdapt"}
                           /\ "joinAdapt" \in OnStack'[u] <=> "joinAdapt" \in OnStack[u]
    BY <1>3, <1>4, <1>5 DEF StopLabels
  <2> QED
    BY <2>1 DEF Joined
<1>10. StopDone' <=> StopDone
  BY <1>7 DEF StopDone
<1>11. OneStop'
  <2>1. \A u, v \in Threads : Stopping(u)' /\ Stopping(v)' => u = v
    BY <1>7 DEF OneStop
  <2>2. \A u \in Threads : pc'[u] \in StopLabels => OnStack'[u] \cap StopLabels = {}
    BY <1>3, <1>5 DEF OneStop
  <2>3. \A u \in Threads : "joinAdapt" \in OnStack'[u] =>
           /\ pc'[u] \in {"stopMedia", "joinVideo", "freeMedia"} /\ "resetRecovery" \notin OnStack'[u]
    <3> TAKE u \in Threads
    <3>1. /\ "joinAdapt" \in OnStack'[u] => "joinAdapt" \in OnStack[u] /\ pc'[u] = pc[u]
          /\ "resetRecovery" \in OnStack'[u] => "resetRecovery" \in OnStack[u]
      BY <1>5, <1>6 DEF StopLabels
    <3> QED
      BY <3>1 DEF OneStop
  <2>4. \A u \in Threads : "resetRecovery" \in OnStack'[u] =>
           pc'[u] \in {"disconnect", "lockChannel", "joinChannel", "notify"}
    <3> TAKE u \in Threads
    <3>1. "resetRecovery" \in OnStack'[u] => "resetRecovery" \in OnStack[u] /\ pc'[u] = pc[u]
      BY <1>5, <1>6 DEF StopLabels
    <3> QED
      BY <3>1 DEF OneStop
  <2> QED
    BY <2>1, <2>2, <2>3, <2>4 DEF OneStop
<1> QED
  BY <1>2, <1>3, <1>4, <1>5, <1>6, <1>8, <1>9, <1>10, <1>11

LEMMA BodyJoined ==
  ASSUME TypeOK, ThreadInv, OneStop, JoinedInv, NEW t \in Threads, BodyMoves(t), BodyEdges(t)
  PROVE  OneStop' /\ JoinedInv'
<1>1. {"starter", "owner", "adapt", "video"} \subseteq Threads
      /\ ChannelThreads \subseteq Threads
  BY DEF Threads
<1>2. UNCHANGED <<stopRequested, tornDown, sizeKnown>>
  BY DEF BodyEdges
<1>3. OneStop' /\ (Joined' <=> Joined)
  BY <1>2, SameStops
<1>4. /\ \A u \in Threads : pc'[u] \in StopLabels \cup Asking => pc'[u] = pc[u]
      /\ \A u \in Threads : OnStack'[u] \cap StopLabels = OnStack[u] \cap StopLabels
      /\ \A u \in Threads : OnStack'[u] \cap StopLabels # {} => pc'[u] = pc[u]
  BY <1>2, SameStops
<1>5. pc'["adapt"] \in Negotiating => "adapt" \in joinable'
  <2> SUFFICES ASSUME pc'["adapt"] \in Negotiating PROVE "adapt" \in joinable'
    OBVIOUS
  <2>1. "adapt" \in joinable
    BY DEF BodyEdges, JoinedInv
  <2>2. ~Terminated("adapt")
    <3>1. CASE pc["adapt"] \in Negotiating
      BY <3>1 DEF Terminated, Negotiating
    <3>2. CASE pc["adapt"] \notin Negotiating
      <4>1. pc'["adapt"] # pc["adapt"] /\ pc'["adapt"] # "loop"
        BY <3>2 DEF Negotiating
      <4>2. t = "adapt"
        BY <4>1 DEF BodyEdges
      <4> QED
        BY <4>2 DEF BodyEdges
    <3> QED
      BY <3>1, <3>2
  <2> QED
    BY <2>1, <2>2 DEF BodyEdges
<1>6. Joined' => pc'["adapt"] \notin Negotiating
  BY <1>3 DEF BodyEdges, JoinedInv, Joined
<1>7. \A u \in Threads :
        pc'[u] \in {"joinAdapt", "resetRecovery", "toFinal"} \/ "resetRecovery" \in OnStack'[u]
          => tornDown'
  <2> TAKE u \in Threads
  <2>1. /\ pc'[u] \in {"joinAdapt", "resetRecovery", "toFinal"} => pc[u] = pc'[u]
        /\ "resetRecovery" \in OnStack'[u] => "resetRecovery" \in OnStack[u]
    BY <1>4 DEF StopLabels
  <2> QED
    BY <1>2, <2>1 DEF JoinedInv
<1>8. \A u \in Threads :
        pc'[u] \in {"resetRecovery", "toFinal"} \/ ("resetRecovery" \in OnStack'[u] /\ pc'[u] = "notify")
          => \A c \in ChannelThreads : pc'[c] \notin Asking
  <2> TAKE u \in Threads
  <2>1. /\ pc'[u] \in {"resetRecovery", "toFinal"} => pc[u] = pc'[u]
        /\ "resetRecovery" \in OnStack'[u] => "resetRecovery" \in OnStack[u] /\ pc'[u] = pc[u]
    BY <1>4 DEF StopLabels
  <2>2. \A c \in ChannelThreads : pc'[c] \in Asking => pc[c] \in Asking
    BY <1>1, <1>4
  <2> QED
    BY <2>1, <2>2 DEF JoinedInv
<1>9. ~channel' => \A c \in ChannelThreads : pc'[c] = "none"
  BY DEF BodyEdges, JoinedInv
<1>10. pc'["starter"] = "startFailed" \/ "startFailed" \in OnStack'["starter"] => pc'["adapt"] = "none"
  <2> SUFFICES ASSUME pc'["starter"] = "startFailed" \/ "startFailed" \in OnStack'["starter"]
               PROVE  pc'["adapt"] = "none"
    OBVIOUS
  <2>1. pc["adapt"] = "none"
    BY DEF BodyEdges, StarterEdges, JoinedInv, ThreadInv, StarterFirst
  <2>2. pc'["adapt"] = pc["adapt"]
    BY <2>1 DEF BodyEdges, Terminated
  <2> QED
    BY <2>1, <2>2
<1>11. sizeKnown' => pc'["starter"] # "awaitFirstFrame"
  BY <1>2 DEF BodyEdges, StarterEdges, JoinedInv
<1> QED
  BY <1>3, <1>5, <1>6, <1>7, <1>8, <1>9, <1>10, <1>11 DEF JoinedInv

LEMMA BodyState ==
  ASSUME TypeOK, ThreadInv, SupervisedInv, OneStop, JoinedInv, StateInv,
         NEW t \in Threads, BodyMoves(t), BodyEdges(t)
  PROVE  StateInv'
<1>1. {"starter", "owner", "adapt", "video"} \subseteq Threads
      /\ ChannelThreads \subseteq Threads
      /\ \A u \in Threads : u \in {"starter", "owner", "adapt", "video"} \/ u \in ChannelThreads
  BY DEF Threads
<1>2. UNCHANGED <<stopRequested, tornDown, sizeKnown>>
  BY DEF BodyEdges
<1>3. (Taken' <=> Taken) /\ (Joined' <=> Joined) /\ (StopDone' <=> StopDone)
  BY <1>2, SameStops
<1>4. \A u \in Threads : pc'[u] \in Asking <=> pc[u] \in Asking
  <2>1. /\ \A u \in Threads : pc'[u] \in StopLabels \cup Asking => pc'[u] = pc[u]
        /\ \A u \in Threads : pc[u] \in StopLabels \cup Asking => pc'[u] = pc[u]
    BY <1>2, SameStops
  <2> QED
    BY <2>1
<1> HIDE DEF Taken, Joined, StopDone, Closed
<1>5. Taken => stopRequested
  BY DEF Taken
<1>6. StateEdge(t)
  BY DEF BodyEdges
<1>7. /\ pc["starter"] \in Starting => pc["adapt"] = "none"
      /\ pc["starter"] \in Opening => \A c \in ChannelThreads : pc[c] \notin Asking
  BY DEF ThreadInv, StarterFirst, Asking
<1>8. CASE state' = state
  <2>1. Closed' <=> Closed
    BY <1>8 DEF Closed
  <2>2. ~Taken /\ Closed
          => pc'["starter"] \notin Negotiating \cup Building \cup {"openCapture", "awaitFirstFrame"}
    <3>1. CASE pc'["starter"] = pc["starter"]
      BY <3>1 DEF StateInv
    <3>2. CASE t = "starter"
      <4> SUFFICES ASSUME ~Taken, Closed,
                          pc'["starter"] \in Negotiating \cup Building \cup {"openCapture", "awaitFirstFrame"}
                   PROVE  FALSE
        OBVIOUS
      <4>1. pc["starter"] \notin Negotiating \cup Building \cup {"openCapture", "awaitFirstFrame"}
        BY DEF StateInv
      <4>2. pc["starter"] # "lockPipeline"
        BY <4>1 DEF Negotiating
      <4>3. StarterEdges
        BY <3>2 DEF BodyEdges
      <4> QED
        BY <1>8, <4>1, <4>2, <4>3 DEF StarterEdges, Building, Closed
    <3> QED
      BY <3>1, <3>2 DEF BodyEdges
  <2>3. Taken /\ Closed => pc'["starter"] \notin Building
    BY <1>5 DEF BodyEdges, StarterEdges, Building, StateInv
  <2>4. Closed /\ pc'["adapt"] # "none" => Joined
    <3> SUFFICES ASSUME Closed, pc'["adapt"] # "none" PROVE Joined
      OBVIOUS
    <3>1. CASE pc["adapt"] # "none"
      BY <3>1 DEF StateInv
    <3>2. CASE pc["adapt"] = "none"
      <4>1. pc["starter"] \in Building
        BY <3>2 DEF BodyEdges, Terminated
      <4> QED
        BY <4>1 DEF StateInv
    <3> QED
      BY <3>1, <3>2
  <2>5. Taken /\ Closed /\ pc'["starter"] \in Negotiating
          => \A c \in ChannelThreads : pc'[c] \notin Asking
    <3> SUFFICES ASSUME Taken, Closed, pc'["starter"] \in Negotiating
                 PROVE  \A c \in ChannelThreads : pc[c] \notin Asking
      BY <1>1, <1>4
    <3>1. pc["starter"] \in Negotiating \cup {"openCapture", "awaitFirstFrame"}
      BY DEF BodyEdges, StarterEdges
    <3> QED
      BY <1>7, <3>1 DEF StateInv, Opening
  <2>6. Taken => Closed \/ state' \in {"Stopping", "Connecting"}
    BY <1>8 DEF StateInv
  <2>7. Taken /\ state' = "Connecting" =>
          /\ pc'["adapt"] = "none" /\ pc'["starter"] \notin {"offer", "toStreaming"} \cup Building
          /\ \A u \in Threads : pc'[u] \notin Asking
    <3> SUFFICES ASSUME Taken, state' = "Connecting"
                 PROVE  /\ pc'["adapt"] = "none"
                        /\ pc'["starter"] \notin {"offer", "toStreaming"} \cup Building
                        /\ \A u \in Threads : pc'[u] \notin Asking
      OBVIOUS
    <3>1. /\ pc["adapt"] = "none" /\ pc["starter"] \notin {"offer", "toStreaming"} \cup Building
          /\ \A u \in Threads : pc[u] \notin Asking
      BY <1>8 DEF StateInv
    <3>2. pc'["adapt"] = "none"
      BY <3>1 DEF BodyEdges, Terminated
    <3>3. pc'["starter"] \notin {"offer", "toStreaming"} \cup Building
      BY <1>5, <3>1 DEF BodyEdges, StarterEdges, Building
    <3> QED
      BY <1>4, <3>1, <3>2, <3>3
  <2>8. sizeKnown /\ StopDone =>
          Closed \/ pc'["starter"] \in {"toConnecting", "openCapture", "startFailed"} \cup Negotiating
    <3> SUFFICES ASSUME sizeKnown, StopDone, ~Closed
                 PROVE  pc'["starter"] \in {"toConnecting", "openCapture", "startFailed"} \cup Negotiating
      OBVIOUS
    <3>1. pc["starter"] \in {"toConnecting", "openCapture", "startFailed"} \cup Negotiating
      BY DEF StateInv
    <3>2. stopRequested
      BY DEF StopDone
    <3>3. pc["starter"] = "startFailed" => t # "starter"
      BY <1>8 DEF BodyEdges, StarterEdges, Closed
    <3> QED
      BY <3>1, <3>2, <3>3 DEF BodyEdges, StarterEdges
  <2>9. StopDone => state' # "Stopping"
    BY <1>8 DEF StateInv
  <2> QED
    BY <1>2, <1>3, <1>8, <2>1, <2>2, <2>3, <2>4, <2>5, <2>6, <2>7, <2>8, <2>9 DEF StateInv
<1>9. CASE /\ state' = "Connecting" /\ state # "Stopping" /\ state' # state
           /\ \/ t = "starter" /\ pc["starter"] \in {"toConnecting"} \cup Negotiating
              \/ t = "adapt" /\ pc["adapt"] \in Negotiating
  <2>1. ~Closed'
    BY <1>9 DEF Closed
  <2>2. Taken => Closed
    BY <1>9 DEF StateInv
  <2>3. Taken => t = "starter" /\ pc["starter"] \in {"toConnecting"} \cup Negotiating
    <3> SUFFICES ASSUME Taken, t = "adapt", pc["adapt"] \in Negotiating PROVE FALSE
      BY <1>9
    <3>1. pc["adapt"] # "none"
      BY DEF Negotiating
    <3>2. Joined
      BY <2>2, <3>1 DEF StateInv
    <3> QED
      BY <3>2 DEF JoinedInv
  <2>4. Taken =>
          /\ pc'["adapt"] = "none" /\ pc'["starter"] \notin {"offer", "toStreaming"} \cup Building
          /\ \A u \in Threads : pc'[u] \notin Asking
    <3> SUFFICES ASSUME Taken
                 PROVE  /\ pc'["adapt"] = "none"
                        /\ pc'["starter"] \notin {"offer", "toStreaming"} \cup Building
                        /\ \A u \in Threads : pc'[u] \notin Asking
      OBVIOUS
    <3>1. pc["starter"] \in {"toConnecting"} \cup Negotiating /\ t = "starter" /\ stopRequested /\ Closed
      BY <1>5, <2>2, <2>3
    <3>2. pc["starter"] \in Starting /\ pc["starter"] \notin Building
      BY <3>1 DEF Starting, Opening, Negotiating, Building
    <3>3. pc["adapt"] = "none" /\ pc'["adapt"] = "none"
      BY <1>7, <3>1, <3>2 DEF BodyEdges
    <3>4. pc'["starter"] \notin {"offer", "toStreaming"} \cup Building
      BY <3>1, <3>2 DEF BodyEdges, StarterEdges, Building
    <3>5. \A c \in ChannelThreads : pc[c] \notin Asking
      <4>1. CASE pc["starter"] = "toConnecting"
        BY <1>7, <4>1 DEF Opening
      <4>2. CASE pc["starter"] \in Negotiating
        BY <3>1, <4>2 DEF StateInv
      <4> QED
        BY <3>1, <4>1, <4>2
    <3>6. pc["owner"] \notin Asking /\ pc["video"] \notin Asking
      BY <3>2 DEF SupervisedInv, StopAsked, Starting, Opening, Negotiating, Building
    <3>7. pc["starter"] \notin Asking /\ pc["adapt"] \notin Asking
      BY <3>2, <3>3 DEF Starting, Opening, Negotiating, Building, Asking
    <3> QED
      BY <1>1, <1>4, <3>3, <3>4, <3>5, <3>6, <3>7
  <2>5. sizeKnown /\ StopDone =>
          pc'["starter"] \in {"toConnecting", "openCapture", "startFailed"} \cup Negotiating
    <3> SUFFICES ASSUME sizeKnown, StopDone
                 PROVE  pc'["starter"] \in {"toConnecting", "openCapture", "startFailed"} \cup Negotiating
      OBVIOUS
    <3>1. Taken
      BY StoppingSet DEF StopDone, Taken, StopLabels
    <3> QED
      BY <1>5, <2>3, <3>1 DEF BodyEdges, StarterEdges
  <2> QED
    BY <1>2, <1>3, <1>9, <2>1, <2>4, <2>5 DEF StateInv
<1>10. CASE t = "starter" /\ pc["starter"] = "startFailed" /\ state' = "Failed" /\ pc'["starter"] = "stop"
  <2>1. Closed'
    BY <1>10 DEF Closed
  <2>2. pc["adapt"] = "none"
    BY <1>10 DEF JoinedInv
  <2>3. pc'["adapt"] = "none"
    BY <1>10, <2>2 DEF BodyEdges
  <2>4. pc'["starter"] \notin Negotiating \cup Building \cup {"openCapture", "awaitFirstFrame"}
    BY <1>10 DEF Negotiating, Building
  <2> QED
    BY <1>10, <2>1, <2>3, <2>4 DEF StateInv
<1>11. CASE /\ state \notin {"Idle", "Failed", "Stopping"} /\ state' \notin {"Idle", "Failed"}
            /\ t = "adapt" \/ (t = "starter" /\ pc["starter"] \in {"offer", "toStreaming"})
  <2>1. ~Taken
    <3> SUFFICES ASSUME Taken PROVE FALSE
      OBVIOUS
    <3>1. state = "Connecting"
      BY <1>11 DEF StateInv, Closed
    <3>2. pc["adapt"] = "none" /\ pc["starter"] \notin {"offer", "toStreaming"}
      BY <3>1 DEF StateInv
    <3> QED
      BY <1>11, <3>2 DEF BodyEdges, Terminated
  <2>2. ~Closed'
    BY <1>11 DEF Closed
  <2>3. StopDone => Taken
    BY StoppingSet DEF StopDone, Taken, StopLabels
  <2> QED
    BY <1>3, <2>1, <2>2, <2>3 DEF StateInv
<1> QED
  BY <1>6, <1>8, <1>9, <1>10, <1>11 DEF StateEdge

LEMMA AdvancesMoves ==
  ASSUME TypeOK, TypeOK', ThreadInv, ThreadInv', NEW t \in Threads, NEW l, NEW S,
         Advances(t, l, S), l \notin StopLabels \cup Asking, S \cap StopLabels = {}
  PROVE  /\ BodyMoves(t)
         /\ t # "starter" => pc'["starter"] = pc["starter"] /\ OnStack'["starter"] = OnStack["starter"]
         /\ t # "adapt" => pc'["adapt"] = pc["adapt"]
         /\ pc'[t] = l /\ OnStack'[t] = S
<1>1. {"starter", "owner", "adapt", "video"} \subseteq Threads
  BY DEF Threads
<1>2. \A u \in Threads : pc[u] \in Procs => OnStack[u] # {}
  BY BodyOnStack DEF TypeOK, ThreadInv
<1>3. \A u \in Threads : pc'[u] \in {"encode", "receive", "beat"} => OnStack'[u] = {}
  <2> SUFFICES ASSUME NEW u \in Threads, pc'[u] \in {"encode", "receive", "beat"} PROVE OnStack'[u] = {}
    OBVIOUS
  <2>1. pc'[u] \notin Procs
    BY DEF Procs
  <2> QED
    BY <2>1, NextBodyStack DEF TypeOK, ThreadInv
<1>4. \A u \in Threads \ {t} :
         /\ OnStack'[u] = OnStack[u]
         /\ pc'[u] = pc[u] \/ (pc[u] \notin Procs /\ pc'[u] \in {"encode", "receive", "beat", "loop"})
  BY <1>2, <1>3 DEF Advances
<1> QED
  BY <1>1, <1>4 DEF Advances, BodyMoves

(* The owner, the encode thread and the channel's.                           *)
LEMMA OtherEdges ==
  ASSUME TypeOK, TypeOK', ThreadInv, ThreadInv', JoinedInv, NEW t \in Threads, NEW l, NEW S,
         t \notin {"starter", "adapt"}, Reaches(t, l, S),
         l \notin StopLabels \cup Asking, S \cap StopLabels = {},
         UNCHANGED <<state, stopRequested, tornDown, sizeKnown, channel>>,
         "adapt" \in joinable => "adapt" \in joinable' \/ Terminated("adapt"),
         t \in ChannelThreads => pc[t] # "none"
  PROVE  BodyMoves(t) /\ BodyEdges(t)
<1>1. Advances(t, l, S)
  BY ReachesAdvances
<1>2. /\ BodyMoves(t)
      /\ pc'["starter"] = pc["starter"] /\ OnStack'["starter"] = OnStack["starter"]
      /\ pc'["adapt"] = pc["adapt"]
  BY <1>1, AdvancesMoves
<1>3. \A c \in ChannelThreads : pc'[c] = pc[c] \/ channel
  <2>1. ChannelThreads \subseteq Threads
    BY DEF Threads
  <2>2. \A c \in ChannelThreads : c # t => pc'[c] = pc[c]
    BY <2>1 DEF Reaches
  <2> QED
    BY <2>2 DEF JoinedInv
<1>4. StateEdge(t)
  BY DEF StateEdge
<1> QED
  BY <1>2, <1>3, <1>4 DEF BodyEdges

LEMMA OwnerEdges ==
  ASSUME TypeOK, TypeOK', ThreadInv, ThreadInv', JoinedInv, OwnerSteps \/ OwnerStops \/ SetBitrate
  PROVE  BodyMoves("owner") /\ BodyEdges("owner")
<1>1. "owner" \in Threads /\ "owner" \notin ChannelThreads
  BY ChannelThreadsAssumption DEF Threads
<1> USE DEF StopLabels, Asking
<1>2. CASE OwnerStops
  <2>1. Reaches("owner", "stop", {"release"})
    BY <1>1, <1>2, ReachesOne DEF OwnerStops, Procs, Continuations
  <2> QED
    BY <1>1, <1>2, <2>1, OtherEdges DEF OwnerStops
<1>3. CASE SetBitrate
  <2>1. Reaches("owner", "reconnect", {"own"})
    BY <1>1, <1>3, ReachesOne DEF SetBitrate, Procs, Continuations
  <2> QED
    BY <1>1, <1>3, <2>1, OtherEdges DEF SetBitrate
<1>4. CASE Release
  <2>1. Reaches("owner", "stop", {"stopMedia", "destroyAdapt"})
    BY <1>1, <1>4, ReachesTwo DEF Release, Procs, Continuations
  <2> QED
    BY <1>1, <1>4, <2>1, OtherEdges DEF Release
<1>5. CASE DestroyAdapt
  <2>1. Reaches("owner", "disconnect", {"freed"})
    BY <1>1, <1>5, ReachesOne DEF DestroyAdapt, Procs, Continuations
  <2> QED
    BY <1>1, <1>5, <2>1, OtherEdges DEF DestroyAdapt, CanJoin
<1>6. CASE Destroyed
  <2>1. Reaches("owner", "gone", {})
    BY <1>1, <1>6, ReachesGoto DEF Destroyed, Procs
  <2> QED
    BY <1>1, <1>6, <2>1, OtherEdges DEF Destroyed
<1> QED
  BY <1>2, <1>3, <1>4, <1>5, <1>6 DEF OwnerSteps

LEMMA VideoEdges ==
  ASSUME TypeOK, TypeOK', ThreadInv, ThreadInv', JoinedInv, EncodeExit \/ SourceLost
  PROVE  BodyMoves("video") /\ BodyEdges("video")
<1>1. "video" \in Threads /\ "video" \notin ChannelThreads
  BY ChannelThreadsAssumption DEF Threads
<1> USE DEF StopLabels, Asking
<1>2. CASE EncodeExit
  <2>1. Reaches("video", "dead", {})
    BY <1>1, <1>2, ReachesGoto DEF EncodeExit, Procs
  <2> QED
    BY <1>1, <1>2, <2>1, OtherEdges DEF EncodeExit
<1>3. CASE SourceLost
  <2>1. Reaches("video", "fail", {"encode"})
    BY <1>1, <1>3, ReachesOne DEF SourceLost, Procs, Continuations
  <2> QED
    BY <1>1, <1>3, <2>1, OtherEdges DEF SourceLost
<1> QED
  BY <1>2, <1>3

(* A thread of the channel: it moves, or only reads a message.               *)
LEMMA ChannelEdges ==
  ASSUME TypeOK, TypeOK', ThreadInv, ThreadInv', JoinedInv, NEW t \in ChannelThreads,
         ChannelSteps(t) \/ ChannelEvents(t)
  PROVE  \/ BodyMoves(t) /\ BodyEdges(t)
         \/ UNCHANGED <<pc, stack, state, stopRequested, tornDown, sizeKnown, channel, joinable>>
<1>1. t \in Threads /\ t \notin {"starter", "adapt", "video", "owner"}
  BY ChannelThreadsAssumption DEF Threads
<1> USE DEF StopLabels, Asking
<1>2. ASSUME NEW l \in {"dead", "lost"}, Goto(t, l), pc[t] \in {"receive", "beat", "lost"},
             UNCHANGED <<state, stopRequested, tornDown, sizeKnown, channel, joinable>>
      PROVE  BodyMoves(t) /\ BodyEdges(t)
  <2>1. Reaches(t, l, {})
    BY <1>1, <1>2, ReachesGoto DEF Procs
  <2> QED
    BY <1>1, <1>2, <2>1, OtherEdges
<1>3. ASSUME NEW l \in {"fail", "reconnect"}, NEW x \in {"dead", "receive"}, Call(t, l, <<x>>),
             pc[t] \in {"receive", "beat", "lost"},
             UNCHANGED <<state, stopRequested, tornDown, sizeKnown, channel, joinable>>
      PROVE  BodyMoves(t) /\ BodyEdges(t)
  <2>1. Reaches(t, l, {x})
    BY <1>1, <1>3, ReachesOne DEF Procs, Continuations
  <2> QED
    BY <1>1, <1>3, <2>1, OtherEdges
<1>4. CASE ChannelExit(t)
  BY <1>2, <1>4 DEF ChannelExit
<1>5. CASE NotifyLost(t)
  BY <1>2, <1>3, <1>5 DEF NotifyLost
<1>6. CASE CloseMessage(t)
  BY <1>3, <1>6 DEF CloseMessage
<1>7. CASE ConnectionLost(t)
  BY <1>2, <1>7 DEF ConnectionLost
<1>8. CASE ReceiverStatus(t) \/ WebrtcAnswer(t)
  BY <1>8 DEF ReceiverStatus, WebrtcAnswer
<1> QED
  BY <1>4, <1>5, <1>6, <1>7, <1>8 DEF ChannelSteps, ChannelEvents

(* The starter's own steps.                                                  *)
LEMMA StarterBodyEdges ==
  ASSUME TypeOK, TypeOK', ThreadInv, ThreadInv', NEW l, NEW S, Advances("starter", l, S),
         l \notin StopLabels \cup Asking, S \cap StopLabels = {},
         UNCHANGED <<stopRequested, tornDown, sizeKnown>>, channel => channel',
         \A c \in ChannelThreads : pc'[c] = pc[c] \/ channel,
         "adapt" \in joinable => "adapt" \in joinable',
         StarterEdges, StateEdge("starter")
  PROVE  BodyMoves("starter") /\ BodyEdges("starter")
<1>1. "starter" \in Threads
  BY DEF Threads
<1>2. BodyMoves("starter") /\ pc'["adapt"] = pc["adapt"]
  BY <1>1, AdvancesMoves
<1> QED
  BY <1>2 DEF BodyEdges

LEMMA AdaptBodyEdges ==
  ASSUME TypeOK, TypeOK', ThreadInv, ThreadInv', NEW l, NEW S, Advances("adapt", l, S),
         l \notin StopLabels \cup Asking, S \cap StopLabels = {},
         UNCHANGED <<stopRequested, tornDown, sizeKnown>>, channel => channel',
         "adapt" \in joinable => "adapt" \in joinable', ~Terminated("adapt"),
         l \in Negotiating => pc["adapt"] \in Negotiating \/ (~stopRequested /\ "adapt" \in joinable),
         StateEdge("adapt")
  PROVE  BodyMoves("adapt") /\ BodyEdges("adapt")
<1>1. "adapt" \in Threads
  BY DEF Threads
<1>2. /\ BodyMoves("adapt") /\ pc'["adapt"] = l
      /\ pc'["starter"] = pc["starter"] /\ OnStack'["starter"] = OnStack["starter"]
  BY <1>1, AdvancesMoves
<1>3. channel
  BY DEF ThreadInv, LinkGone, Terminated
<1> QED
  BY <1>2, <1>3 DEF BodyEdges

LEMMA StartEdges ==
  ASSUME TypeOK, TypeOK', ThreadInv, ThreadInv', StartSteps, ~StartBegin
  PROVE  BodyMoves("starter") /\ BodyEdges("starter")
<1>1. "starter" \in Threads /\ ChannelThreads \subseteq Threads /\ "starter" \notin ChannelThreads
  BY ChannelThreadsAssumption DEF Threads
<1>2. ASSUME NEW l, NEW S, Reaches("starter", l, S)
      PROVE  /\ Advances("starter", l, S) /\ pc'["starter"] = l /\ OnStack'["starter"] = S
             /\ \A c \in ChannelThreads : pc'[c] = pc[c]
  <2>1. Advances("starter", l, S)
    BY <1>1, <1>2, ReachesAdvances
  <2> QED
    BY <1>1, <1>2, <2>1 DEF Reaches
<1>3. /\ \A l : Goto("starter", l) /\ pc["starter"] \notin Procs => Reaches("starter", l, {})
      /\ Call("starter", "stop", <<"returned">>) /\ pc["starter"] \notin Procs
           => Reaches("starter", "stop", {"returned"})
  BY <1>1, ReachesGoto, ReachesOne DEF Procs, Continuations
<1>4. state \in SessionStates
  BY DEF TypeOK, ObjectsOK
<1> USE DEF StopLabels, Asking, Procs, Starting, Opening, Negotiating, Building
<1>5. CASE ToConnecting
  <2>1. pc["starter"] = "toConnecting" /\ Advances("starter", "openCapture", {})
        /\ pc'["starter"] = "openCapture" /\ OnStack'["starter"] = {}
        /\ \A c \in ChannelThreads : pc'[c] = pc[c]
    BY <1>2, <1>3, <1>5 DEF ToConnecting
  <2>2. state' \notin {"Idle", "Failed"}
    BY <1>5 DEF ToConnecting, TransitionTo, IsValidTransition, Successors
  <2>3. state' = state \/ (state' = "Connecting" /\ state # "Stopping")
    BY <1>5 DEF ToConnecting, TransitionTo, IsValidTransition, Successors
  <2>4. StarterEdges
    BY <2>1, <2>2 DEF StarterEdges
  <2>5. StateEdge("starter")
    BY <2>1, <2>3 DEF StateEdge
  <2> QED
    BY <1>5, <2>1, <2>4, <2>5, StarterBodyEdges DEF ToConnecting
<1>6. CASE OpenCapture
  <2>1. PICK l \in {"newChannel", "awaitFirstFrame", "startFailed"} :
          Goto("starter", l) /\ (l = "awaitFirstFrame" => ~sizeKnown)
    BY <1>6 DEF OpenCapture
  <2>2. pc["starter"] = "openCapture" /\ Advances("starter", l, {})
        /\ pc'["starter"] = l /\ OnStack'["starter"] = {}
        /\ \A c \in ChannelThreads : pc'[c] = pc[c]
    BY <1>2, <1>3, <1>6, <2>1 DEF OpenCapture
  <2>3. StarterEdges
    BY <2>1, <2>2 DEF StarterEdges
  <2>4. StateEdge("starter")
    BY <1>6 DEF OpenCapture, StateEdge
  <2> QED
    BY <1>6, <2>2, <2>3, <2>4, StarterBodyEdges DEF OpenCapture
<1>7. CASE AwaitFirstFrame
  <2>1. StateEdge("starter")
    BY <1>7 DEF AwaitFirstFrame, StateEdge
  <2>2. CASE Call("starter", "stop", <<"returned">>)
    <3>1. StarterEdges
      BY <1>2, <1>3, <1>7, <2>2 DEF AwaitFirstFrame, StarterEdges
    <3> QED
      BY <1>2, <1>3, <1>7, <2>1, <2>2, <3>1, StarterBodyEdges DEF AwaitFirstFrame
  <2>3. ASSUME NEW l \in {"newChannel", "startFailed"}, Goto("starter", l)
        PROVE  BodyMoves("starter") /\ BodyEdges("starter")
    <3>1. StarterEdges
      BY <1>2, <1>3, <1>7, <2>3 DEF AwaitFirstFrame, StarterEdges
    <3> QED
      BY <1>2, <1>3, <1>7, <2>1, <2>3, <3>1, StarterBodyEdges DEF AwaitFirstFrame
  <2> QED
    BY <1>7, <2>2, <2>3 DEF AwaitFirstFrame
<1>8. CASE StartFailed
  <2>1. state' = "Failed" /\ pc["starter"] = "startFailed"
    BY <1>8 DEF StartFailed, TransitionTo, IsValidTransition
  <2>2. StarterEdges
    BY <1>2, <1>3, <1>8, <2>1 DEF StartFailed, StarterEdges
  <2>3. StateEdge("starter")
    BY <1>2, <1>3, <1>8, <2>1 DEF StartFailed, StateEdge
  <2> QED
    BY <1>2, <1>3, <1>8, <2>2, <2>3, StarterBodyEdges DEF StartFailed
<1>9. CASE StartSucceeded
  <2>1. state' = state \/ (state \notin {"Idle", "Failed", "Stopping"} /\ state' = "Streaming")
    BY <1>9 DEF StartSucceeded, TransitionTo, IsValidTransition, Successors
  <2>2. StarterEdges
    BY <1>2, <1>3, <1>9 DEF StartSucceeded, StarterEdges
  <2>3. StateEdge("starter")
    BY <1>9, <2>1 DEF StartSucceeded, StateEdge
  <2> QED
    BY <1>2, <1>3, <1>9, <2>2, <2>3, StarterBodyEdges DEF StartSucceeded
<1> QED
  BY <1>5, <1>6, <1>7, <1>8, <1>9 DEF StartSteps

LEMMA AdaptEdges ==
  ASSUME TypeOK, TypeOK', ThreadInv, ThreadInv', SupervisedInv, AdaptSteps
  PROVE  BodyMoves("adapt") /\ BodyEdges("adapt")
<1>1. "adapt" \in Threads
  BY DEF Threads
<1>2. ASSUME NEW l, Goto("adapt", l), pc["adapt"] \notin Procs  PROVE Advances("adapt", l, {})
  BY <1>1, <1>2, ReachesGoto, ReachesAdvances
<1>3. ASSUME NEW l \in {"fail", "reconnect"}, NEW x \in {"dead", "loop"},
             Call("adapt", l, <<x>>), pc["adapt"] \notin Procs
      PROVE  Advances("adapt", l, {x})
  BY <1>1, <1>3, ReachesOne, ReachesAdvances DEF Procs, Continuations
<1>4. state \in SessionStates
  BY DEF TypeOK, ObjectsOK
<1> USE DEF StopLabels, Asking, Procs, Negotiating, Terminated
<1>5. CASE Loop \/ Tick \/ Recovered \/ Rearm
  <2>1. StateEdge("adapt")
    BY <1>5 DEF Loop, Tick, Recovered, Rearm, StateEdge
  <2>2. CASE \E l \in {"dead", "dropMedia", "tick", "loop", "rearm", "resume"} : Goto("adapt", l)
    BY <1>2, <1>5, <2>1, <2>2, AdaptBodyEdges DEF Loop, Tick, Recovered, Rearm
  <2>3. CASE Call("adapt", "reconnect", <<"loop">>)
    BY <1>3, <1>5, <2>1, <2>3, AdaptBodyEdges DEF Loop, Tick, Recovered, Rearm
  <2> QED
    BY <1>5, <2>2, <2>3 DEF Loop, Tick, Recovered, Rearm
<1>6. CASE DropMedia
  <2>1. StateEdge("adapt")
    BY <1>6 DEF DropMedia, StateEdge
  <2>2. CASE Goto("adapt", "retry")
    BY <1>2, <1>6, <2>1, <2>2, AdaptBodyEdges DEF DropMedia
  <2>3. CASE Call("adapt", "stopMedia", <<"disconnect", "retry">>)
    <3>1. Advances("adapt", "stopMedia", {"disconnect", "retry"})
      BY <1>1, <1>6, <2>3, ReachesTwo, ReachesAdvances DEF DropMedia, Continuations
    <3> QED
      BY <1>6, <2>1, <3>1, AdaptBodyEdges DEF DropMedia
  <2> QED
    BY <1>6, <2>2, <2>3 DEF DropMedia
<1>7. CASE Retry
  <2>1. state' = state \/ (state \notin {"Idle", "Failed", "Stopping"} /\ state' = "Reconnecting")
    BY <1>7 DEF Retry, TransitionTo, IsValidTransition, Successors
  <2>2. StateEdge("adapt")
    BY <2>1 DEF StateEdge
  <2> QED
    BY <1>2, <1>3, <1>7, <2>2, AdaptBodyEdges DEF Retry
<1>8. CASE Backoff
  <2>1. StateEdge("adapt")
    BY <1>8 DEF Backoff, StateEdge
  <2>2. ~stopRequested => "adapt" \in joinable
    BY <1>8 DEF Backoff, SupervisedInv, Watched
  <2> QED
    BY <1>2, <1>8, <2>1, <2>2, AdaptBodyEdges DEF Backoff
<1>9. CASE Resume
  <2>1. state' = state \/ (state \notin {"Idle", "Failed", "Stopping"} /\ state' = "Streaming")
    BY <1>9 DEF Resume, TransitionTo, IsValidTransition, Successors
  <2>2. StateEdge("adapt")
    BY <2>1 DEF StateEdge
  <2> QED
    BY <1>2, <1>9, <2>2, AdaptBodyEdges DEF Resume
<1> QED
  BY <1>5, <1>6, <1>7, <1>8, <1>9 DEF AdaptSteps

(* The next step of an attempt, or its failure, of either caller.            *)
LEMMA AttemptBody ==
  ASSUME TypeOK, TypeOK', ThreadInv, ThreadInv', NEW t \in Threads,
         pc[t] \in Negotiating, NEW l,
         l \in (Negotiating \ {"newChannel"}) \cup {"build"},
         l \in {"offer", "build"} => ~stopRequested,
         l = "build" => pc[t] = "lockPipeline",
         Advances(t, l, {}) \/ (Fail(t) /\ \A c \in ChannelThreads : pc'[c] = pc[c]),
         UNCHANGED <<stopRequested, tornDown, sizeKnown, joinable>>, channel => channel',
         \A c \in ChannelThreads : pc'[c] = pc[c] \/ channel,
         StateEdge(t)
  PROVE  BodyMoves(t) /\ BodyEdges(t)
<1>1. t \in {"starter", "adapt"} /\ pc[t] \notin Procs
  BY DEF ThreadInv, Roles, Negotiating, Procs
<1>2. l \notin StopLabels \cup Asking
  BY DEF Negotiating, StopLabels, Asking
<1>3. CASE t = "starter"
  <2>1. PICK m : /\ Advances("starter", m, {}) /\ (m = l \/ m = "startFailed")
    <3>1. CASE Advances(t, l, {})
      BY <1>3, <3>1
    <3>2. CASE Fail(t)
      BY <1>1, <1>3, <3>2, ReachesGoto, ReachesAdvances DEF Fail
    <3> QED
      BY <3>1, <3>2
  <2>2. pc'["starter"] = m /\ OnStack'["starter"] = {}
    BY <2>1 DEF Advances
  <2>3. pc["starter"] \in Starting
    BY <1>3 DEF Starting
  <2>4. m \in (Negotiating \ {"newChannel"}) \cup {"build", "startFailed"}
    BY <2>1
  <2>5. m \in {"offer", "build"} => ~stopRequested
    BY <2>1
  <2>6. m = "build" => pc["starter"] = "lockPipeline"
    BY <1>3, <2>1
  <2>7. m \notin {"startCapture", "checkCapture", "toStreaming", "awaitFirstFrame", "openCapture"}
        /\ m \notin StopLabels \cup Asking
    BY <2>4 DEF Negotiating, StopLabels, Asking
  <2>8. pc["starter"] \in Negotiating /\ pc["starter"] # "startFailed"
    BY <1>3 DEF Negotiating
  <2>9. StarterEdges
    BY <2>2, <2>3, <2>4, <2>5, <2>6, <2>7, <2>8 DEF StarterEdges
  <2> QED
    BY <1>3, <2>1, <2>7, <2>9, StarterBodyEdges
<1>4. CASE t = "adapt"
  <2>1. ~Terminated("adapt")
    BY <1>4 DEF Terminated, Negotiating
  <2>2. CASE Advances(t, l, {})
    BY <1>2, <1>4, <2>1, <2>2, AdaptBodyEdges
  <2>3. CASE Fail(t)
    <3>1. Advances("adapt", "stopMedia", {"disconnect", "loop"})
      BY <1>1, <1>4, <2>3, ReachesTwo, ReachesAdvances DEF Fail, Procs, Continuations
    <3> QED
      BY <1>4, <2>1, <3>1, AdaptBodyEdges DEF StopLabels, Asking, Negotiating
  <2> QED
    BY <2>2, <2>3
<1> QED
  BY <1>1, <1>3, <1>4

(* What an attempt reports never reopens a closed session but as             *)
(* "Connecting".                                                             *)
LEMMA AttemptReports ==
  ASSUME TypeOK, ThreadInv, SupervisedInv, NEW t \in Threads, pc[t] \in Negotiating,
         NEW p \in {"Connecting", "Negotiating", "Reconnecting"},
         state' = TransitionTo(state, p),
         t = "starter" => p = "Connecting" \/ pc["starter"] = "offer"
                            \/ (p = "Reconnecting" /\ state = "Reconnecting")
  PROVE  StateEdge(t)
<1>1. t \in {"starter", "adapt"}
  BY DEF ThreadInv, Roles
<1>2. \/ state' = state
      \/ state' = p /\ p = "Connecting" /\ state # "Stopping"
      \/ state' = p /\ p # "Connecting" /\ state \notin {"Idle", "Failed", "Stopping"}
  BY DEF TypeOK, ObjectsOK, TransitionTo, IsValidTransition, Successors, SessionStates
<1> QED
  BY <1>1, <1>2 DEF StateEdge, Negotiating

LEMMA NegotiateEdges ==
  ASSUME TypeOK, TypeOK', ThreadInv, ThreadInv', SupervisedInv, NEW t \in Threads,
         NegotiateSteps(t) \/ LockPipeline(t)
  PROVE  BodyMoves(t) /\ BodyEdges(t)
<1>1. pc[t] \in Negotiating /\ t \in {"starter", "adapt"} /\ pc[t] \notin Procs
      /\ ChannelThreads \subseteq Threads
      /\ \A c \in ChannelThreads : c \notin {"starter", "adapt"}
  <2>1. pc[t] \in Negotiating
    BY DEF NegotiateSteps, NewChannel, Connect, Connected, Authenticate, Launch, AwaitLaunch,
           SendOffer, AwaitAnswer, LockPipeline, Negotiating
  <2>2. ChannelThreads \subseteq Threads /\ \A c \in ChannelThreads : c \notin {"starter", "adapt"}
    BY ChannelThreadsAssumption DEF Threads
  <2> QED
    BY <2>1, <2>2 DEF ThreadInv, Roles, Negotiating, Procs
<1>2. ASSUME NEW l, Goto(t, l)
      PROVE  Advances(t, l, {}) /\ \A c \in ChannelThreads : pc'[c] = pc[c]
  <2>1. Reaches(t, l, {})
    BY <1>1, <1>2, ReachesGoto
  <2>2. Advances(t, l, {})
    BY <2>1, ReachesAdvances
  <2> QED
    BY <1>1, <2>1, <2>2 DEF Reaches
<1>3. Fail(t) => \A c \in ChannelThreads : pc'[c] = pc[c]
  BY <1>1 DEF Fail, Goto, Call, TypeOK, ControlOK
<1>4. pc[t] # "newChannel" => channel
  BY <1>1 DEF ThreadInv, LinkGone, Negotiating
<1>5. t = "starter" => ~renegotiating
  BY <1>1 DEF SupervisedInv, FirstTime, Starting
<1>6. UNCHANGED <<stopRequested, tornDown, sizeKnown, joinable>>
  BY DEF NegotiateSteps, NewChannel, Connect, Connected, Authenticate, Launch, AwaitLaunch,
         SendOffer, AwaitAnswer, LockPipeline
<1>7. ASSUME NEW l, l \in (Negotiating \ {"newChannel"}) \cup {"build"},
             l \in {"offer", "build"} => ~stopRequested,
             l = "build" => pc[t] = "lockPipeline",
             Goto(t, l) \/ Fail(t),
             channel => channel', StateEdge(t)
      PROVE  BodyMoves(t) /\ BodyEdges(t)
  BY <1>1, <1>2, <1>3, <1>6, <1>7, AttemptBody
<1>8. state' = state => StateEdge(t)
  BY DEF StateEdge
<1>9. CASE NewChannel(t)
  <2>1. StateEdge(t)
    <3>1. CASE state = "Reconnecting"
      BY <1>1, <1>9, <3>1, AttemptReports DEF NewChannel
    <3>2. CASE state # "Reconnecting"
      BY <1>1, <1>9, <3>2, AttemptReports DEF NewChannel
    <3> QED
      BY <3>1, <3>2
  <2> QED
    BY <1>7, <1>9, <2>1 DEF NewChannel, Negotiating
<1>10. CASE Connect(t)
  BY <1>7, <1>8, <1>10 DEF Connect, Negotiating
<1>11. CASE Connected(t)
  <2>1. CASE Fail(t)
    <3>1. "launch" \in (Negotiating \ {"newChannel"}) \cup {"build"}
      BY DEF Negotiating
    <3> QED
      BY <1>7, <1>8, <1>11, <2>1, <3>1 DEF Connected
  <2>2. CASE Spawn(t, "authenticate", ChannelThreads)
    <3>1. Advances(t, "authenticate", {})
      BY <1>1, <2>2, SpawnAdvances, ChannelThreadsAssumption
    <3>2. "authenticate" \in (Negotiating \ {"newChannel"}) \cup {"build"}
      BY DEF Negotiating
    <3>3. channel' = channel /\ state' = state /\ channel
      BY <1>4, <1>11 DEF Connected
    <3> QED
      BY <1>1, <1>6, <1>8, <3>1, <3>2, <3>3, AttemptBody
  <2> QED
    BY <1>11, <2>1, <2>2 DEF Connected
<1>12. CASE Authenticate(t) \/ Launch(t)
  <2>1. StateEdge(t)
    BY <1>1, <1>5, <1>12, AttemptReports DEF Authenticate, Launch, Phase
  <2> QED
    BY <1>7, <1>12, <2>1 DEF Authenticate, Launch, Negotiating
<1>13. CASE AwaitLaunch(t) \/ AwaitAnswer(t)
  <2>1. \/ ~stopRequested /\ Goto(t, "offer")
        \/ Goto(t, "lockPipeline")
        \/ Fail(t)
    BY <1>13 DEF AwaitLaunch, AwaitAnswer
  <2>2. state' = state /\ channel' = channel
    BY <1>13 DEF AwaitLaunch, AwaitAnswer
  <2>3. {"offer", "lockPipeline"} \subseteq (Negotiating \ {"newChannel"}) \cup {"build"}
    BY DEF Negotiating
  <2> QED
    BY <1>7, <1>8, <2>1, <2>2, <2>3
<1>14. CASE SendOffer(t)
  <2>1. StateEdge(t)
    BY <1>1, <1>5, <1>14, AttemptReports DEF SendOffer, Phase
  <2> QED
    BY <1>7, <1>14, <2>1 DEF SendOffer, Negotiating
<1>15. CASE LockPipeline(t)
  <2>1. \/ ~stopRequested /\ Goto(t, "build")
        \/ Fail(t)
    BY <1>15 DEF LockPipeline
  <2>2. state' = state /\ channel' = channel /\ pc[t] = "lockPipeline"
    BY <1>15 DEF LockPipeline
  <2>3. {"build", "launch"} \subseteq (Negotiating \ {"newChannel"}) \cup {"build"}
    BY DEF Negotiating
  <2> QED
    BY <1>7, <1>8, <2>1, <2>2, <2>3
<1> QED
  BY <1>9, <1>10, <1>11, <1>12, <1>13, <1>14, <1>15 DEF NegotiateSteps

(* The pipeline is built, or given up.                                       *)
LEMMA BuildEdges ==
  ASSUME TypeOK, TypeOK', ThreadInv, ThreadInv', SupervisedInv, NEW t \in Threads,
         Build(t) \/ StartCapture(t) \/ CheckCapture(t)
  PROVE  BodyMoves(t) /\ BodyEdges(t)
<1>1. pc[t] \in Building /\ t \in {"starter", "adapt"} /\ pc[t] \notin Procs
      /\ {"starter", "adapt"} \subseteq Threads /\ ChannelThreads \subseteq Threads
      /\ \A c \in ChannelThreads : c \notin {"starter", "adapt", "video"}
  <2>1. pc[t] \in Building
    BY DEF Build, StartCapture, CheckCapture, Building
  <2>2. {"starter", "adapt"} \subseteq Threads /\ ChannelThreads \subseteq Threads
        /\ \A c \in ChannelThreads : c \notin {"starter", "adapt", "video"}
    BY ChannelThreadsAssumption DEF Threads
  <2> QED
    BY <2>1, <2>2 DEF ThreadInv, Roles, Building, Procs
<1>2. UNCHANGED <<state, stopRequested, tornDown, sizeKnown, channel>>
      /\ ("adapt" \in joinable => "adapt" \in joinable')
  BY DEF Build, StartCapture, CheckCapture
<1>3. StateEdge(t)
  BY <1>2 DEF StateEdge
<1>4. channel
  BY <1>1 DEF ThreadInv, LinkGone, Building
<1>5. ASSUME NEW l \in {"startCapture", "checkCapture"}, Advances(t, l, {})
      PROVE  BodyMoves(t) /\ BodyEdges(t)
  <2>1. l \notin StopLabels \cup Asking \cup Negotiating
    BY DEF StopLabels, Asking, Negotiating
  <2>2. CASE t = "starter"
    <3>1. pc'["starter"] = l /\ OnStack'["starter"] = {}
      BY <1>5, <2>2 DEF Advances
    <3>2. pc["starter"] \in Building /\ pc["starter"] \notin Negotiating \cup {"startFailed", "toConnecting", "openCapture"}
      BY <1>1, <2>2 DEF Building, Negotiating
    <3>3. StarterEdges
      BY <2>1, <3>1, <3>2 DEF StarterEdges, Negotiating
    <3> QED
      BY <1>2, <1>3, <1>4, <1>5, <2>1, <2>2, <3>3, StarterBodyEdges
  <2>3. CASE t = "adapt"
    <3>1. ~Terminated("adapt")
      BY <1>1, <2>3 DEF Building, Terminated
    <3> QED
      BY <1>2, <1>3, <1>5, <2>1, <2>3, <3>1, AdaptBodyEdges
  <2> QED
    BY <1>1, <2>2, <2>3
<1>6. ASSUME AbandonPipeline(t)
      PROVE  BodyMoves(t) /\ BodyEdges(t)
  <2>1. "joinVideo" \notin StopLabels \cup Asking \cup Negotiating
    BY DEF StopLabels, Asking, Negotiating
  <2>2. CASE t = "starter"
    <3>1. Reaches("starter", "joinVideo", {"startFailed"})
      BY <1>1, <1>6, <2>2, ReachesOne DEF AbandonPipeline, Failing, Procs, Continuations
    <3>2. Advances("starter", "joinVideo", {"startFailed"})
          /\ pc'["starter"] = "joinVideo" /\ OnStack'["starter"] = {"startFailed"}
      BY <1>1, <3>1, ReachesAdvances DEF Reaches
    <3>3. pc["starter"] \in Building /\ pc["starter"] \in Starting
          /\ pc["starter"] \notin Negotiating \cup {"startFailed", "toConnecting", "openCapture"}
      BY <1>1, <2>2 DEF Building, Negotiating, Starting
    <3>4. StarterEdges
      BY <2>1, <3>2, <3>3 DEF StarterEdges
    <3>5. {"startFailed"} \cap StopLabels = {}
      BY DEF StopLabels
    <3> QED
      BY <1>2, <1>3, <1>4, <2>1, <2>2, <3>2, <3>4, <3>5, StarterBodyEdges
  <2>3. CASE t = "adapt"
    <3>1. Call("adapt", "joinVideo", <<"stopMedia", "disconnect", "loop">>)
      BY <1>6, <2>3 DEF AbandonPipeline, Failing
    <3>2. Reaches("adapt", "joinVideo", {"stopMedia", "disconnect", "loop"})
      BY <1>1, <2>3, <3>1, ReachesThree DEF Procs, Continuations
    <3>3. Advances("adapt", "joinVideo", {"stopMedia", "disconnect", "loop"})
      BY <1>1, <3>2, ReachesAdvances
    <3>4. ~Terminated("adapt") /\ {"stopMedia", "disconnect", "loop"} \cap StopLabels = {}
      BY <1>1, <2>3 DEF Building, Terminated, StopLabels
    <3> QED
      BY <1>2, <1>3, <2>1, <2>3, <3>3, <3>4, AdaptBodyEdges
  <2> QED
    BY <1>1, <2>2, <2>3
<1>7. CASE Build(t)
  <2>1. CASE Spawn(t, "startCapture", {"video"})
    <3>1. Advances(t, "startCapture", {})
      BY <1>1, <2>1, SpawnAdvances
    <3> QED
      BY <1>5, <3>1
  <2> QED
    BY <1>6, <1>7, <2>1 DEF Build
<1>8. CASE StartCapture(t)
  <2>1. CASE Goto(t, "checkCapture")
    <3>1. Advances(t, "checkCapture", {})
      BY <1>1, <2>1, ReachesGoto, ReachesAdvances
    <3> QED
      BY <1>5, <3>1
  <2> QED
    BY <1>6, <1>8, <2>1 DEF StartCapture
<1>9. CASE CheckCapture(t)
  <2>1. Spawn(t, Succeeding(t), {"adapt"} \ joinable) /\ OnStack' = OnStack /\ OnStack[t] = {}
    <3>1. Spawn(t, Succeeding(t), {"adapt"} \ joinable)
      BY <1>9 DEF CheckCapture
    <3>2. OnStack' = OnStack
      BY <3>1 DEF Spawn, OnStack
    <3> QED
      BY <1>1, <3>1, <3>2, BodyStack DEF TypeOK, ThreadInv
  <2>2. CASE t = "adapt"
    <3>1. pc'["adapt"] = "recovered" /\ \A u \in Threads \ {"adapt"} : pc'[u] = pc[u]
      BY <1>1, <2>1, <2>2 DEF Spawn, Succeeding
    <3>2. Advances("adapt", "recovered", {})
      BY <1>1, <2>1, <2>2, <3>1 DEF Advances
    <3>3. ~Terminated("adapt") /\ "recovered" \notin StopLabels \cup Asking \cup Negotiating
      BY <1>1, <2>2 DEF Building, Terminated, StopLabels, Asking, Negotiating
    <3> QED
      BY <1>2, <1>3, <2>2, <3>2, <3>3, AdaptBodyEdges
  <2>3. CASE t = "starter"
    <3>1. pc["adapt"] = "none" /\ "adapt" \notin joinable
      BY <1>1, <2>3 DEF ThreadInv, StarterFirst, Starting
    <3>2. /\ pc'["starter"] = "toStreaming" /\ pc'["adapt"] = "loop"
          /\ \A u \in Threads \ {"starter", "adapt"} : pc'[u] = pc[u]
      BY <1>1, <2>1, <2>3, <3>1 DEF Spawn, Succeeding, FirstLabel
    <3>3. "toStreaming" \notin StopLabels \cup Asking /\ pc["adapt"] \notin Procs
      BY <3>1 DEF StopLabels, Asking, Procs
    <3>4. BodyMoves("starter")
      BY <1>1, <2>1, <2>3, <3>2, <3>3 DEF BodyMoves
    <3>5. StarterEdges
      <4>1. pc["starter"] \in Building /\ pc["starter"] \notin Negotiating \cup {"startFailed", "toConnecting", "openCapture"}
        BY <1>1, <2>3 DEF Building, Negotiating
      <4>2. OnStack'["starter"] = {}
        BY <2>1, <2>3
      <4> QED
        BY <3>2, <4>1, <4>2 DEF StarterEdges, Negotiating
    <3>6. \A c \in ChannelThreads : pc'[c] = pc[c]
      BY <1>1, <3>2
    <3>7. pc'["adapt"] \notin Negotiating
      BY <3>2 DEF Negotiating
    <3>8. OnStack'["starter"] = {}
      BY <2>1, <2>3
    <3> QED
      BY <1>1, <1>2, <1>3, <2>3, <3>1, <3>2, <3>4, <3>5, <3>6, <3>7, <3>8 DEF BodyEdges
  <2> QED
    BY <1>1, <2>2, <2>3
<1> QED
  BY <1>7, <1>8, <1>9

(* Inside a procedure: nobody asks anew once a stop was requested, and no    *)
(* thread gets back into its attempt.                                        *)
LEMMA ProcAsks ==
  ASSUME TypeOK, ThreadInv, SupervisedInv, NEW t \in Threads, ProcStep(t)
  PROVE  /\ \A u \in Threads : pc'[u] \in Asking => pc[u] \in Asking \/ ~stopRequested
         /\ \A u \in Threads : pc'[u] \in Starting \cup {"toStreaming", "none", "startFailed"}
                                 => pc'[u] = pc[u] \/ (pc'[u] = "startFailed" /\ "startFailed" \in OnStack[u])
         /\ \A u \in Threads : pc[u] \notin Procs => pc'[u] = pc[u]
<1>1. ProcMoves(t) /\ ProcEdges(t)
  BY StepMoves, StepEdges DEF TypeOK, ThreadInv
<1>2. \A u \in Threads \ {t} : pc'[u] = pc[u]
  BY <1>1 DEF ProcMoves
<1>3. pc'[t] \in Asking => pc[t] \in Asking \/ ~stopRequested
  BY <1>1 DEF ProcEdges, Asking
<1>4. pc'[t] \in Procs \/ (pc'[t] \in OnStack[t] /\ pc'[t] \in Continuations)
  BY <1>1 DEF ProcMoves
<1>5. pc'[t] \in Starting \cup {"toStreaming", "none", "startFailed"}
        => pc'[t] = "startFailed" /\ "startFailed" \in OnStack[t]
  BY <1>4 DEF Procs, Continuations, Starting, Opening, Negotiating, Building
<1>6. pc[t] \in Procs
  BY <1>1 DEF ProcMoves
<1> QED
  BY <1>2, <1>3, <1>5, <1>6

LEMMA ProcJoined ==
  ASSUME TypeOK, ThreadInv, SupervisedInv, OneStop, StopFirst, JoinedInv,
         NEW t \in Threads, ProcStep(t)
  PROVE  JoinedInv'
<1>1. {"starter", "owner", "adapt", "video"} \subseteq Threads
      /\ ChannelThreads \subseteq Threads
  BY DEF Threads
<1>2. ClosingEdges(t) /\ ClosingState(t) /\ ProcMoves(t) /\ ProcEdges(t)
  BY StepClosing, StepMoves, StepEdges DEF TypeOK, ThreadInv
<1>3. \A u \in Threads \ {t} : pc'[u] = pc[u] /\ OnStack'[u] = OnStack[u]
  BY <1>2 DEF ProcMoves
<1>4. /\ \A u \in Threads : pc'[u] \in Asking => pc[u] \in Asking \/ ~stopRequested
      /\ \A u \in Threads : pc'[u] \in Starting \cup {"toStreaming", "none", "startFailed"}
                              => pc'[u] = pc[u] \/ (pc'[u] = "startFailed" /\ "startFailed" \in OnStack[u])
      /\ \A u \in Threads : pc[u] \notin Procs => pc'[u] = pc[u]
  BY ProcAsks
<1>5. \A u \in Threads : Stopping(u) => stopRequested
  BY DEF SupervisedInv, StopAsked
<1>6. (tornDown => tornDown') /\ (tornDown' <=> tornDown \/ (pc[t] = "freeMedia" /\ stopRequested))
  BY <1>2 DEF ClosingState
<1>7. pc'["adapt"] \in Negotiating => pc["adapt"] \in Negotiating /\ t # "adapt"
  <2>1. Negotiating \subseteq Starting /\ "startFailed" \notin Negotiating
        /\ Negotiating \cap Procs = {}
    BY DEF Starting, Negotiating, Procs
  <2>2. pc[t] \in Procs
    BY <1>2 DEF ProcMoves
  <2> QED
    BY <1>1, <1>4, <2>1, <2>2
<1>8. pc'["adapt"] \in Negotiating => "adapt" \in joinable'
  <2>1. pc["adapt"] \in Negotiating => ~Terminated("adapt") /\ "adapt" \in joinable
    BY DEF JoinedInv, Negotiating, Terminated
  <2> QED
    BY <1>2, <1>7, <2>1 DEF ClosingState, ClosingEdges
<1>9. Joined' => pc'["adapt"] \notin Negotiating
  <2> SUFFICES ASSUME Joined', pc'["adapt"] \in Negotiating PROVE FALSE
    OBVIOUS
  <2>1. pc["adapt"] \in Negotiating /\ t # "adapt" /\ "adapt" \in joinable /\ ~Terminated("adapt")
        /\ ~Joined
    BY <1>7 DEF JoinedInv, Negotiating, Terminated
  <2>2. stopRequested' /\ \A u \in Threads : /\ pc'[u] \notin {"toStopping", "joinAdapt"}
                                             /\ "joinAdapt" \notin OnStack'[u]
    BY DEF Joined
  <2>3. stopRequested
    BY <1>2, <2>2 DEF ClosingState, ClosingEdges, Moved
  <2>4. pc[t] \in {"toStopping", "joinAdapt"} \/ "joinAdapt" \in OnStack[t]
    BY <1>3, <2>1, <2>2, <2>3 DEF Joined
  <2>5. "joinAdapt" \notin OnStack[t]
    BY <1>2, <2>2 DEF ProcMoves
  <2>6. pc[t] # "toStopping"
    BY <1>2, <2>2 DEF ClosingEdges, Nested
  <2>7. pc[t] # "joinAdapt"
    BY <1>2, <2>1 DEF ClosingEdges
  <2> QED
    BY <2>4, <2>5, <2>6, <2>7
<1>10. \A u \in Threads :
        pc'[u] \in {"joinAdapt", "resetRecovery", "toFinal"} \/ "resetRecovery" \in OnStack'[u]
          => tornDown'
  <2>1. ASSUME pc'[t] = "joinAdapt"  PROVE tornDown'
    <3>1. "joinAdapt" \in OnStack[t]
      BY <1>2, <2>1 DEF ProcEdges
    <3>2. pc[t] \in {"stopMedia", "joinVideo", "freeMedia"} /\ stopRequested
      BY <1>5, <3>1, StoppingSet DEF OneStop, StopLabels
    <3>3. pc[t] = "freeMedia"
      BY <1>2, <2>1, <3>2 DEF ClosingEdges, Moved
    <3> QED
      BY <1>6, <3>2, <3>3
  <2>2. ASSUME pc'[t] \in {"resetRecovery", "toFinal"}  PROVE tornDown'
    BY <1>2, <1>6, <2>2 DEF ProcEdges, JoinedInv
  <2>3. ASSUME "resetRecovery" \in OnStack'[t]  PROVE tornDown'
    <3>1. "resetRecovery" \in OnStack[t] \/ pc[t] = "joinAdapt"
      BY <1>2, <2>3 DEF ProcEdges, ClosingEdges, Nested
    <3> QED
      BY <1>6, <3>1 DEF JoinedInv
  <2> QED
    BY <1>3, <1>6, <2>1, <2>2, <2>3 DEF JoinedInv
<1>11. \A u \in Threads :
        pc'[u] \in {"resetRecovery", "toFinal"} \/ ("resetRecovery" \in OnStack'[u] /\ pc'[u] = "notify")
          => \A c \in ChannelThreads : pc'[c] \notin Asking
  <2> SUFFICES ASSUME NEW u \in Threads,
                      \/ pc'[u] \in {"resetRecovery", "toFinal"}
                      \/ "resetRecovery" \in OnStack'[u] /\ pc'[u] = "notify"
               PROVE  \A c \in ChannelThreads : pc'[c] \notin Asking
    OBVIOUS
  <2>1. CASE u # t
    <3>1. pc'[u] = pc[u] /\ OnStack'[u] = OnStack[u]
      BY <1>3, <2>1
    <3>2. \A c \in ChannelThreads : pc[c] \notin Asking
      BY <3>1 DEF JoinedInv
    <3>3. pc[u] \in StopLabels \/ OnStack[u] \cap StopLabels # {}
      BY <3>1 DEF StopLabels
    <3>4. stopRequested
      BY <1>5, <3>3, StoppingSet
    <3> QED
      BY <1>1, <1>4, <3>2, <3>4
  <2>2. CASE u = t
    <3>1. CASE \A c \in ChannelThreads : pc[c] \notin Asking
      <4>1. pc'[t] \notin Asking
        BY <2>2 DEF Asking
      <4> QED
        BY <1>1, <1>3, <3>1, <4>1
    <3>2. CASE pc'[t] = "toFinal"
      <4>1. pc[t] = "resetRecovery"
        BY <1>2, <3>2 DEF ProcEdges
      <4>2. \A c \in ChannelThreads : pc[c] \notin Asking
        BY <4>1 DEF JoinedInv
      <4> QED
        BY <3>1, <4>2
    <3>5. /\ pc[t] = "disconnect" => pc'[t] = "lockChannel" \/ (Returned(t) /\ ~channel)
          /\ pc[t] = "lockChannel" => pc'[t] = "joinChannel"
          /\ pc[t] = "joinChannel" => pc'[t] = "notify"
          /\ pc[t] = "notify" => Returned(t) \/ pc'[t] = "reconnect"
      BY <1>2 DEF ClosingEdges, Moved
    <3>3. CASE pc'[t] = "resetRecovery"
      <4>1. "resetRecovery" \in OnStack[t]
        BY <1>2, <3>3 DEF ProcEdges
      <4>2. pc[t] \in {"disconnect", "lockChannel", "joinChannel", "notify"}
        BY <4>1 DEF OneStop
      <4>3. pc[t] = "notify" \/ (pc[t] = "disconnect" /\ ~channel)
        BY <3>3, <3>5, <4>2
      <4>4. \A c \in ChannelThreads : pc[c] \notin Asking
        BY <4>1, <4>3 DEF JoinedInv, Asking
      <4> QED
        BY <3>1, <4>4
    <3>4. CASE "resetRecovery" \in OnStack'[t] /\ pc'[t] = "notify"
      <4>1. ~Returned(t)
        BY <3>4 DEF Returned, StopLabels
      <4>2. "resetRecovery" \in OnStack[t]
        BY <1>2, <3>4 DEF ProcEdges, ClosingEdges, Nested
      <4>3. pc[t] \in {"disconnect", "lockChannel", "joinChannel", "notify"}
        BY <4>2 DEF OneStop
      <4>4. pc[t] = "joinChannel"
        BY <3>4, <3>5, <4>1, <4>3
      <4>5. \A c \in ChannelThreads \ {t} : Terminated(c)
        BY <1>2, <4>4 DEF ClosingEdges
      <4>6. \A c \in ChannelThreads : pc[c] \notin Asking
        BY <4>4, <4>5 DEF Terminated, Asking
      <4> QED
        BY <3>1, <4>6
    <3> QED
      BY <2>2, <3>2, <3>3, <3>4
  <2> QED
    BY <2>1, <2>2
<1>12. ~channel' => \A c \in ChannelThreads : pc'[c] = "none"
  <2>1. channel' = channel
    BY <1>2 DEF ClosingState
  <2> QED
    BY <1>1, <1>4, <2>1 DEF JoinedInv, Procs
<1>13. pc'["starter"] = "startFailed" \/ "startFailed" \in OnStack'["starter"] => pc'["adapt"] = "none"
  <2>1. pc["adapt"] = "none" => pc'["adapt"] = "none"
    BY <1>1, <1>4 DEF Procs
  <2>2. "startFailed" \in OnStack'["starter"] => "startFailed" \in OnStack["starter"]
    BY <1>1, <1>2, <1>3 DEF ProcMoves
  <2>3. pc'["starter"] = "startFailed" => pc["starter"] = "startFailed" \/ "startFailed" \in OnStack["starter"]
    BY <1>1, <1>4
  <2> QED
    BY <2>1, <2>2, <2>3 DEF JoinedInv
<1>14. sizeKnown' => pc'["starter"] # "awaitFirstFrame"
  <2>1. sizeKnown' = sizeKnown
    BY <1>2 DEF ClosingState
  <2>2. "awaitFirstFrame" \in Starting
    BY DEF Starting, Opening
  <2>3. pc'["starter"] = "awaitFirstFrame" => pc["starter"] = "awaitFirstFrame"
    BY <1>1, <1>4, <2>2
  <2> QED
    BY <2>1, <2>3 DEF JoinedInv
<1> QED
  BY <1>8, <1>9, <1>10, <1>11, <1>12, <1>13, <1>14 DEF JoinedInv

(* How far a stop has come after a step of a procedure.                      *)
LEMMA ProcStops ==
  ASSUME TypeOK, ThreadInv, SupervisedInv, OneStop, StopFirst, JoinedInv,
         NEW t \in Threads, ProcStep(t)
  PROVE  /\ Taken => Taken'
         /\ Taken' => Taken \/ pc[t] = "toStopping"
         /\ Joined => Joined'
         /\ StopDone' => StopDone \/ pc[t] = "toFinal"
         /\ pc[t] = "toFinal" => Taken /\ Joined' /\ tornDown
         /\ stopRequested => stopRequested'
         /\ pc[t] = "toStopping" => ~Taken
<1>1. ClosingEdges(t) /\ ClosingState(t) /\ ProcMoves(t) /\ ProcEdges(t)
  BY StepClosing, StepMoves, StepEdges DEF TypeOK, ThreadInv
<1>2. \A u \in Threads \ {t} : pc'[u] = pc[u] /\ OnStack'[u] = OnStack[u]
  BY <1>1 DEF ProcMoves
<1>3. \A u \in Threads : Stopping(u) => stopRequested
  BY DEF SupervisedInv, StopAsked
<1>4. (stopRequested => stopRequested') /\ (stopRequested' => stopRequested \/ pc[t] = "stop")
  BY <1>1 DEF ClosingState
<1>5. pc[t] = "stop" /\ ~stopRequested => pc'[t] = "toStopping"
  BY <1>1 DEF ClosingEdges, Moved
<1>6. pc'[t] = "toStopping" => ~stopRequested
  <2>1. pc'[t] = "toStopping" => pc[t] = "stop"
    BY <1>1 DEF ProcEdges
  <2>2. Returned(t) => pc'[t] # "toStopping"
    <3>1. "toStopping" \notin Continuations
      BY DEF Continuations
    <3>2. "toStopping" \in OnStack[t] => FALSE
      BY <3>1, StackTypes DEF TypeOK
    <3> QED
      BY <3>2 DEF Returned
  <2> QED
    BY <1>1, <2>1, <2>2 DEF ClosingEdges
<1>7. Taken => Taken'
  BY <1>2, <1>4, <1>6 DEF Taken
<1>8. Taken' => Taken \/ pc[t] = "toStopping"
  BY <1>2, <1>4, <1>5 DEF Taken
<1>9. Joined => Joined'
  <2> SUFFICES ASSUME Joined PROVE Joined'
    OBVIOUS
  <2>1. stopRequested' /\ \A u \in Threads : /\ pc[u] \notin {"toStopping", "joinAdapt"}
                                             /\ "joinAdapt" \notin OnStack[u]
    BY <1>4 DEF Joined
  <2>2. pc'[t] # "joinAdapt"
    BY <1>1, <2>1 DEF ProcEdges
  <2>3. pc'[t] # "toStopping"
    BY <1>6 DEF Joined
  <2>4. "joinAdapt" \notin OnStack'[t]
    BY <1>1, <2>1 DEF ProcEdges, ClosingEdges, Nested
  <2> QED
    BY <1>2, <2>1, <2>2, <2>3, <2>4 DEF Joined
<1>10. StopDone' => StopDone \/ pc[t] = "toFinal"
  <2> SUFFICES ASSUME StopDone', ~StopDone PROVE pc[t] = "toFinal"
    OBVIOUS
  <2>1. stopRequested' /\ \A u \in Threads : pc'[u] \notin StopLabels /\ OnStack'[u] \cap StopLabels = {}
    BY NextStoppingSet DEF StopDone
  <2>2. stopRequested
    BY <1>4, <1>5, <2>1 DEF StopLabels
  <2>3. PICK u \in Threads : pc[u] \in StopLabels \/ OnStack[u] \cap StopLabels # {}
    BY <2>2, StoppingSet DEF StopDone
  <2>4. u = t
    BY <1>2, <2>1, <2>3
  <2>5. OnStack[t] \cap StopLabels = {}
    BY <1>1, <2>1 DEF ProcMoves
  <2>6. pc[t] \in StopLabels
    BY <2>3, <2>4, <2>5
  <2>7. pc[t] \notin {"toStopping", "joinAdapt", "resetRecovery"}
    BY <1>1, <2>1 DEF ClosingEdges, Nested, Moved, StopLabels
  <2> QED
    BY <2>6, <2>7 DEF StopLabels
<1>11. ASSUME pc[t] = "toFinal"  PROVE Taken /\ Joined' /\ tornDown
  <2>1. Stopping(t) /\ OnStack[t] \cap StopLabels = {} /\ tornDown
    BY <1>11, StoppingSet DEF OneStop, StopLabels, JoinedInv
  <2>2. stopRequested
    BY <1>3, <2>1
  <2>3. \A u \in Threads : u # t => ~Stopping(u)
    BY <2>1 DEF OneStop
  <2>4. \A u \in Threads : /\ pc[u] \notin {"toStopping", "joinAdapt"}
                           /\ "joinAdapt" \notin OnStack[u]
    BY <1>11, <2>1, <2>3, StoppingSet DEF StopLabels
  <2>5. Taken /\ Joined
    BY <2>2, <2>4 DEF Taken, Joined
  <2> QED
    BY <1>9, <2>1, <2>5
<1> QED
  BY <1>4, <1>7, <1>8, <1>9, <1>10, <1>11 DEF Taken

LEMMA ProcReports ==
  ASSUME TypeOK, ThreadInv, SupervisedInv, StopFirst, OneStop, JoinedInv, StateInv,
         NEW t \in Threads, ProcStep(t)
  PROVE  /\ Taken => state' = state \/ (pc[t] = "toFinal" /\ state' \in {"Idle", "Failed"})
         /\ ~Taken => \/ state' = state
                      \/ pc[t] = "toStopping" /\ state' = "Stopping"
                      \/ pc[t] = "toReconnecting" /\ state' = "Reconnecting"
                           /\ state \notin {"Idle", "Failed"}
         /\ pc[t] = "toFinal" => state' \in {"Idle", "Failed"}
         /\ pc[t] = "toStopping" => state' = "Stopping" \/ state = "Idle"
<1>1. ClosingState(t)
  BY StepClosing
<1>2. /\ Taken => pc[t] # "toStopping"
      /\ pc[t] = "toFinal" => Taken
  BY ProcStops
<1>3. Taken => state \in {"Idle", "Failed", "Stopping", "Connecting"}
  BY DEF StateInv, Closed
<1>4. ASSUME pc[t] = "toFinal"  PROVE state' \in {"Idle", "Failed"}
  <2>1. state' \in {TransitionTo(state, "Failed"), TransitionTo(state, "Idle")}
    BY <1>1, <1>4 DEF ClosingState
  <2>2. TransitionTo(state, "Failed") = "Failed"
    BY DEF TransitionTo, IsValidTransition
  <2>3. TransitionTo(state, "Idle") = "Idle"
    BY <1>2, <1>3, <1>4 DEF TransitionTo, IsValidTransition, Successors
  <2> QED
    BY <2>1, <2>2, <2>3
<1>5. ASSUME Taken, pc[t] = "toReconnecting", IsValidTransition(state, "Reconnecting")
      PROVE  FALSE
  <2>1. state # "Connecting"
    BY <1>5 DEF StateInv, Asking
  <2> QED
    BY <1>3, <1>5, <2>1 DEF IsValidTransition, Successors
<1>6. IsValidTransition(state, "Reconnecting") => state \notin {"Idle", "Failed"}
  BY DEF IsValidTransition, Successors
<1> QED
  BY <1>1, <1>2, <1>4, <1>5, <1>6 DEF ClosingState

LEMMA ProcSettles ==
  ASSUME TypeOK, PipelineInv, ThreadInv, SupervisedInv, StopFirst, OneStop, JoinedInv, StateInv,
         NEW t \in Threads, ProcStep(t)
  PROVE  StateInv'
<1>1. {"starter", "owner", "adapt", "video"} \subseteq Threads
      /\ ChannelThreads \subseteq Threads
  BY DEF Threads
<1>2. /\ Taken => Taken'
      /\ Taken' => Taken \/ pc[t] = "toStopping"
      /\ Joined => Joined'
      /\ StopDone' => StopDone \/ pc[t] = "toFinal"
      /\ pc[t] = "toFinal" => Taken /\ Joined' /\ tornDown
      /\ pc[t] = "toStopping" => ~Taken
  BY ProcStops
<1>3. /\ Taken => state' = state \/ (pc[t] = "toFinal" /\ state' \in {"Idle", "Failed"})
      /\ ~Taken => \/ state' = state
                   \/ pc[t] = "toStopping" /\ state' = "Stopping"
                   \/ pc[t] = "toReconnecting" /\ state' = "Reconnecting"
                        /\ state \notin {"Idle", "Failed"}
      /\ pc[t] = "toFinal" => state' \in {"Idle", "Failed"}
      /\ pc[t] = "toStopping" => state' = "Stopping" \/ state = "Idle"
  BY ProcReports
<1>4. Taken => stopRequested
  BY DEF Taken
<1>5. StopDone => Taken
  BY StoppingSet DEF StopDone, Taken, StopLabels
<1>6. /\ \A u \in Threads : pc'[u] \in Asking => pc[u] \in Asking \/ ~stopRequested
      /\ \A u \in Threads : pc'[u] \in Starting \cup {"toStreaming", "none", "startFailed"}
                              => pc'[u] = pc[u] \/ (pc'[u] = "startFailed" /\ "startFailed" \in OnStack[u])
      /\ \A u \in Threads : pc[u] \notin Procs => pc'[u] = pc[u]
  BY ProcAsks
<1>7. pc'["starter"] \in Negotiating \cup Building
                          \cup {"openCapture", "awaitFirstFrame", "offer", "toStreaming"}
        => pc'["starter"] = pc["starter"]
  BY <1>1, <1>6 DEF Starting, Opening, Negotiating, Building
<1>8. pc["starter"] \in {"toConnecting", "openCapture", "startFailed"} \cup Negotiating
        => pc'["starter"] = pc["starter"]
  BY <1>1, <1>6 DEF Procs, Negotiating
<1>9. pc'["adapt"] = "none" <=> pc["adapt"] = "none"
  BY <1>1, <1>6 DEF Procs
<1>10. sizeKnown' = sizeKnown
  BY StepClosing DEF ClosingState
<1>11. Closed' <=> \/ Closed /\ pc[t] # "toStopping"
                   \/ Closed /\ state' = state
                   \/ pc[t] = "toFinal"
  BY <1>2, <1>3 DEF Closed
<1> HIDE DEF Taken, Joined, StopDone, Closed
<1>12. tornDown => pc["starter"] \notin Building
  BY <1>1 DEF PipelineInv, NoBuildOnceTornDown
<1>13. ~Taken' /\ Closed'
         => pc'["starter"] \notin Negotiating \cup Building \cup {"openCapture", "awaitFirstFrame"}
  BY <1>2, <1>7, <1>11 DEF StateInv
<1>14. Taken' /\ Closed' => pc'["starter"] \notin Building
  <2>1. CASE Taken
    BY <1>2, <1>7, <1>11, <1>12, <2>1 DEF StateInv
  <2>2. CASE ~Taken
    BY <1>2, <1>7, <1>11, <2>2 DEF StateInv
  <2> QED
    BY <2>1, <2>2
<1>15. Closed' /\ pc'["adapt"] # "none" => Joined'
  BY <1>2, <1>9, <1>11 DEF StateInv
<1>16. Taken' /\ Closed' /\ pc'["starter"] \in Negotiating
         => \A c \in ChannelThreads : pc'[c] \notin Asking
  <2> SUFFICES ASSUME Taken', Closed', pc'["starter"] \in Negotiating
               PROVE  \A c \in ChannelThreads : pc'[c] \notin Asking
    OBVIOUS
  <2>1. pc["starter"] \in Negotiating
    BY <1>7
  <2>2. Taken
    BY <1>2, <1>11, <2>1 DEF StateInv
  <2>3. pc[t] = "toFinal" => \A c \in ChannelThreads : pc[c] \notin Asking
    BY DEF JoinedInv
  <2>4. \A c \in ChannelThreads : pc[c] \notin Asking
    BY <1>11, <2>1, <2>2, <2>3 DEF StateInv
  <2> QED
    BY <1>1, <1>4, <1>6, <2>2, <2>4
<1>17. Taken' => Closed' \/ state' \in {"Stopping", "Connecting"}
  <2>1. CASE Taken
    BY <1>2, <1>3, <1>11, <2>1 DEF StateInv
  <2>2. CASE ~Taken
    BY <1>2, <1>3, <2>2 DEF Closed
  <2> QED
    BY <2>1, <2>2
<1>18. Taken' /\ state' = "Connecting" =>
         /\ pc'["adapt"] = "none" /\ pc'["starter"] \notin {"offer", "toStreaming"} \cup Building
         /\ \A u \in Threads : pc'[u] \notin Asking
  <2> SUFFICES ASSUME Taken', state' = "Connecting"
               PROVE  /\ pc'["adapt"] = "none"
                      /\ pc'["starter"] \notin {"offer", "toStreaming"} \cup Building
                      /\ \A u \in Threads : pc'[u] \notin Asking
    OBVIOUS
  <2>1. Taken /\ state = "Connecting"
    BY <1>2, <1>3
  <2>2. /\ pc["adapt"] = "none" /\ pc["starter"] \notin {"offer", "toStreaming"} \cup Building
        /\ \A u \in Threads : pc[u] \notin Asking
    BY <2>1 DEF StateInv
  <2> QED
    BY <1>4, <1>6, <1>7, <1>9, <2>1, <2>2
<1>18a. StopDone' => state' # "Stopping"
  BY <1>2, <1>3, <1>5 DEF StateInv
<1>19. sizeKnown' /\ StopDone' =>
         Closed' \/ pc'["starter"] \in {"toConnecting", "openCapture", "startFailed"} \cup Negotiating
  <2>1. CASE pc[t] = "toFinal"
    BY <1>11, <2>1
  <2>2. CASE pc[t] # "toFinal"
    BY <1>2, <1>5, <1>8, <1>10, <1>11, <2>2 DEF StateInv
  <2> QED
    BY <2>1, <2>2
<1> QED
  BY <1>13, <1>14, <1>15, <1>16, <1>17, <1>18, <1>18a, <1>19 DEF StateInv

(* Nobody moves, and nothing the invariant speaks of changes.                *)
LEMMA SameEnds ==
  ASSUME EndInv, UNCHANGED <<pc, stack, state, stopRequested, tornDown, sizeKnown, channel, joinable>>
  PROVE  EndInv'
<1>1. OnStack' = OnStack
  BY DEF OnStack
<1>2. \A t \in Threads : Stopping(t)' <=> Stopping(t)
  BY DEF Stopping
<1>3. StopFirst' /\ OneStop'
  BY <1>1, <1>2 DEF EndInv, StopFirst, OneStop
<1>4. /\ Taken' <=> Taken
      /\ Joined' <=> Joined
      /\ StopDone' <=> StopDone
      /\ Closed' <=> Closed
  BY <1>1, <1>2 DEF Taken, Joined, StopDone, Closed
<1>5. JoinedInv'
  BY <1>1, <1>4 DEF EndInv, JoinedInv
<1>6. StateInv'
  BY <1>4 DEF EndInv, StateInv
<1> QED
  BY <1>3, <1>5, <1>6 DEF EndInv

(* Before Start() has begun nothing has happened.                            *)
LEMMA StartBeginEnds ==
  ASSUME TypeOK, ThreadInv, SupervisedInv, EndInv, StartBegin
  PROVE  OneStop' /\ JoinedInv' /\ StateInv'
<1>1. {"starter", "owner", "adapt", "video"} \subseteq Threads
      /\ ChannelThreads \subseteq Threads
      /\ \A c \in ChannelThreads : c \notin {"starter", "owner", "adapt", "video"}
  BY ChannelThreadsAssumption DEF Threads
<1>2. Reaches("starter", "toConnecting", {})
  BY <1>1, ReachesGoto DEF StartBegin, Procs
<1>3. /\ pc["owner"] = "own" /\ pc["adapt"] = "none" /\ pc["video"] = "none"
      /\ \A c \in ChannelThreads : pc[c] = "none"
  BY DEF StartBegin, ThreadInv, StarterFirst, SupervisedInv, StopAsked, Starting, Opening
<1>4. \A u \in Threads : pc[u] \in {"start", "own", "none"}
  BY <1>3 DEF Threads, StartBegin
<1>5. \A u \in Threads : pc'[u] \in {"toConnecting", "own", "none"} /\ OnStack'[u] = {}
  <2>1. \A u \in Threads : OnStack[u] = {}
    BY <1>4, BodyStack DEF TypeOK, ThreadInv, Procs
  <2> QED
    BY <1>2, <1>4, <2>1, <1>3, <1>1 DEF Reaches, Threads
<1>6. /\ pc'["starter"] = "toConnecting" /\ pc'["adapt"] = "none"
      /\ \A c \in ChannelThreads : pc'[c] = "none"
  BY <1>1, <1>2, <1>3 DEF Reaches
<1>7. \A u \in Threads : ~Stopping(u)' /\ pc'[u] \notin StopLabels \cup Asking
  BY <1>5, NextStoppingSet DEF StopLabels, Asking
<1>8. OneStop'
  BY <1>5, <1>7 DEF OneStop
<1>9. JoinedInv'
  BY <1>1, <1>5, <1>6, <1>7 DEF JoinedInv, StopLabels, Negotiating
<1>10. ~stopRequested'
  BY DEF StartBegin
<1>11. StateInv'
  BY <1>6, <1>10 DEF StateInv, Taken, StopDone, Negotiating, Building
<1> QED
  BY <1>8, <1>9, <1>11

LEMMA InitEnds ==
  ASSUME Init
  PROVE  EndInv
<1>1. {"starter", "owner", "adapt", "video"} \subseteq Threads
      /\ ChannelThreads \subseteq Threads
      /\ \A c \in ChannelThreads : c \notin {"starter", "owner", "adapt", "video"}
  BY ChannelThreadsAssumption DEF Threads
<1>2. /\ pc["starter"] = "start" /\ pc["adapt"] = "none"
      /\ \A c \in ChannelThreads : pc[c] = "none"
      /\ \A t \in Threads : pc[t] \in {"start", "own", "none"} /\ stack[t] = <<>>
  BY <1>1 DEF Init
<1>3. \A t \in Threads : OnStack[t] = {}
  BY <1>2 DEF OnStack
<1>4. \A t \in Threads : ~Stopping(t) /\ pc[t] \notin StopLabels \cup Asking
  BY <1>2, <1>3, StoppingSet DEF StopLabels, Asking
<1>5. StopFirst
  BY <1>2 DEF StopFirst
<1>6. OneStop
  BY <1>3, <1>4 DEF OneStop
<1>7. JoinedInv
  BY <1>1, <1>2, <1>3, <1>4 DEF JoinedInv, StopLabels, Negotiating
<1>8. ~stopRequested
  BY DEF Init
<1>9. StateInv
  BY <1>2, <1>8 DEF StateInv, Taken, StopDone, Negotiating, Building
<1> QED
  BY <1>5, <1>6, <1>7, <1>9 DEF EndInv

LEMMA NextEnds ==
  ASSUME TypeOK, PipelineInv, ThreadInv, ThreadInv', SupervisedInv, EndInv, [Next]_vars
  PROVE  EndInv'
<1>1. TypeOK'
  BY NextType
<1>2. StopFirst /\ OneStop /\ JoinedInv /\ StateInv
  BY DEF EndInv
<1>3. StopFirst'
  BY <1>2, NextFirst
<1>4. CASE WindowExpires \/ UNCHANGED vars
  BY <1>4, SameEnds DEF WindowExpires, vars
<1>5. ASSUME NEW t \in Threads, BodyMoves(t), BodyEdges(t)  PROVE EndInv'
  BY <1>2, <1>3, <1>5, BodyJoined, BodyState DEF EndInv
<1>6. ASSUME NEW t \in ChannelThreads, ChannelSteps(t) \/ ChannelEvents(t)  PROVE EndInv'
  <2>1. t \in Threads
    BY DEF Threads
  <2> QED
    BY <1>1, <1>2, <1>5, <1>6, <2>1, ChannelEdges, SameEnds
<1>7. CASE EncodeExit \/ SourceLost
  BY <1>1, <1>2, <1>5, <1>7, VideoEdges DEF Threads
<1>8. CASE OwnerSteps \/ OwnerStops \/ SetBitrate
  BY <1>1, <1>2, <1>5, <1>8, OwnerEdges DEF Threads
<1>9. CASE StartSteps
  <2>1. CASE StartBegin
    BY <1>3, <2>1, StartBeginEnds DEF EndInv
  <2>2. CASE ~StartBegin
    BY <1>1, <1>5, <1>9, <2>2, StartEdges DEF Threads
  <2> QED
    BY <2>1, <2>2
<1>10. CASE AdaptSteps
  BY <1>1, <1>5, <1>10, AdaptEdges DEF Threads
<1>11. ASSUME NEW t \in Threads, NegotiateSteps(t) \/ PipelineSteps(t)  PROVE EndInv'
  BY <1>1, <1>5, <1>11, NegotiateEdges, BuildEdges DEF PipelineSteps
<1>12. ASSUME NEW t \in Threads, ProcStep(t)  PROVE EndInv'
  BY <1>2, <1>3, <1>12, ProcOne, ProcJoined, ProcSettles DEF EndInv
<1>13. CASE Environment
  BY <1>4, <1>6, <1>7, <1>8, <1>13 DEF Environment
<1>14. ASSUME NEW t \in Threads, Step(t)  PROVE EndInv'
  BY <1>6, <1>7, <1>8, <1>9, <1>10, <1>11, <1>12, <1>14 DEF Step, ProcStep
<1> QED
  BY <1>4, <1>13, <1>14 DEF Next

(* When Start() has returned and Stop() has run, the state machine rests in  *)
(* Idle or Failed, whichever thread transitioned last: the next cast is not  *)
(* refused.  A stop that is under way when Start() begins is forgotten by it *)
(* (it resets the flag), so the owner stops no session before that.          *)
THEOREM SettledAlways ==
  ASSUME ~EarlyStop
  PROVE  Spec => []Settled
<1>1. TypeOK /\ EndInv => Settled
  BY StoppingSet DEF EndInv, StateInv, StopDone, Taken, StopLabels, Closed, Settled, Negotiating
<1>2. Init => TypeOK /\ PipelineInv /\ ThreadInv /\ SupervisedInv /\ EndInv
  BY InitType, InitPipeline, InitThreads, InitSupervised, InitEnds
<1>3. TypeOK /\ PipelineInv /\ ThreadInv /\ SupervisedInv /\ EndInv /\ [Next]_vars
        => (TypeOK /\ PipelineInv /\ ThreadInv /\ SupervisedInv /\ EndInv)'
  BY NextType, NextPipeline, NextThreads, NextSupervised, NextEnds
<1> QED
  BY <1>1, <1>2, <1>3, PTL DEF Spec

(* After the teardown of a stop no thread brings the session back to life in *)
(* the eyes of the UI: a late reconnect, the end of Start() or an answer     *)
(* finds the state machine closed.                                           *)
THEOREM NoLateRevivalAlways ==
  ASSUME ~EarlyStop
  PROVE  Spec => NoLateRevival
<1>1. TypeOK /\ PipelineInv /\ EndInv /\ Condemned => state \notin Live
  BY DEF PipelineInv, NoBuildOnceTornDown, Condemned, EndInv, StateInv, Taken, Closed, Live
<1>2. Init => TypeOK /\ PipelineInv /\ ThreadInv /\ SupervisedInv /\ EndInv
  BY InitType, InitPipeline, InitThreads, InitSupervised, InitEnds
<1>3. TypeOK /\ PipelineInv /\ ThreadInv /\ SupervisedInv /\ EndInv /\ [Next]_vars
        => (TypeOK /\ PipelineInv /\ ThreadInv /\ SupervisedInv /\ EndInv)'
  BY NextType, NextPipeline, NextThreads, NextSupervised, NextEnds
<1>4. (TypeOK /\ PipelineInv /\ EndInv)'
        => [Condemned /\ Condemned' /\ state' \in Live => state \in Live]_vars
  BY <1>1 DEF PipelineInv, NoBuildOnceTornDown, Condemned, EndInv, StateInv, Taken, Closed, Live
<1> QED
  BY <1>2, <1>3, <1>4, PTL DEF Spec, NoLateRevival
=============================================================================
