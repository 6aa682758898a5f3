----------------------------- MODULE CastEngine -----------------------------
(***************************************************************************)
(* CastEngine (cast_engine.cc): StartCasting and StopCasting, called by    *)
(* any thread of an application, over CastSession objects that all move    *)
(* the engine's one state machine.  A session is reduced to what the       *)
(* engine and the applications see of it (CastSession.tla has the whole    *)
(* of it): the steps of Start with the failures a TV can cause, Stop with  *)
(* its once-only flag, and one thread that stands for the session's own    *)
(* (adaptation and channel).  A shared_ptr is a reference: what nothing    *)
(* refers to any more is destroyed, and the destructor stops it.           *)
(***************************************************************************)
EXTENDS StateMachine, Naturals, Sequences, FiniteSets, SequencesExt

CONSTANTS
  Sessions,     \* CastSession objects; one that was destroyed is used again
  Callers,      \* the application's threads
  None

ASSUME EngineAssumption == Sessions \cap Callers = {} /\ None \notin Sessions \cup Callers \cup SessionStates

\* A session's own thread bears its name.
Threads == Callers \cup Sessions

VARIABLES
  state,        \* state_machine_.current_state_
  active,       \* active_session_
  session,      \* the CastSession objects
  pc, stack,    \* where a thread is, and where its calls return to
  refs,         \* the sessions a thread's calls hold; the first is the one at work
  said,         \* the transition a thread has made and not yet announced
  ok            \* what a thread's last StartCasting returned

control == <<pc, stack, refs, ok>>
engineVars == <<state, active, session, control, said>>

Labels == {"idle", "retire", "retired", "register", "start", "connect", "launch", "answer",
           "media", "stream", "startFailed", "unregister", "drop", "return",
           "detach", "detached", "stop", "teardown", "settle", "toIdle",
           "watch", "retry", "recovered", "ended"}

Session == [made : BOOLEAN,        \* the object exists
            stop : BOOLEAN,        \* stop_requested_
            fail : BOOLEAN,        \* fail_requested_
            media : BOOLEAN,       \* the pipeline is built and capture runs
            recovering : BOOLEAN,  \* recovery_.IsRecovering()
            frozen : BOOLEAN]      \* is_frozen_

NoSession == [made |-> FALSE, stop |-> FALSE, fail |-> FALSE, media |-> FALSE,
              recovering |-> FALSE, frozen |-> FALSE]
NewSession == [NoSession EXCEPT !.made = TRUE]

EngineTypeOK ==
  /\ state \in SessionStates /\ active \in Sessions \cup {None}
  /\ session \in [Sessions -> Session]
  /\ pc \in [Threads -> Labels]
  /\ \A t \in Threads : Range(stack[t]) \subseteq Labels /\ Range(refs[t]) \subseteq Sessions
  /\ said \in [Threads -> SessionStates \cup {None}]
  /\ ok \in [Threads -> BOOLEAN]

EngineInit ==
  /\ state = "Idle" /\ active = None
  /\ session = [s \in Sessions |-> NoSession]
  /\ pc = [t \in Threads |-> "idle"] /\ stack = [t \in Threads |-> <<>>]
  /\ refs = [t \in Threads |-> <<>>]
  /\ said = [t \in Threads |-> None] /\ ok = [t \in Threads |-> FALSE]

-----------------------------------------------------------------------------
\* A thread's control.  It announces a transition before it goes on.

At(t, l) == pc[t] = l /\ said[t] = None
Goto(t, l) == pc' = [pc EXCEPT ![t] = l] /\ UNCHANGED stack
Call(t, l, after) == /\ pc' = [pc EXCEPT ![t] = l]
                     /\ stack' = [stack EXCEPT ![t] = <<after>> \o @]
Return(t) == /\ pc' = [pc EXCEPT ![t] = Head(stack[t])]
             /\ stack' = [stack EXCEPT ![t] = Tail(@)]
This(t) == refs[t][1]
Hold(t, s) == refs' = [refs EXCEPT ![t] = <<s>> \o @]
LetGo(t) == refs' = [refs EXCEPT ![t] = Tail(@)]

\* StateMachine::TransitionTo: the state at once, the callbacks after the lock.
\* A session that stands still in its state announces it again.
Transition(t, to) ==
  IF IsValidTransition(state, to)
    THEN state' = to /\ said' = [said EXCEPT ![t] = to]
    ELSE UNCHANGED <<state, said>>

Quietly == UNCHANGED <<state, said>>
KeepSessions == UNCHANGED <<session, active>>

\* Nothing but the first reference of t refers to s.
OnlyRef(t, s) ==
  /\ active # s
  /\ \A u \in Callers \ {t} : s \notin Range(refs[u])
  /\ Cardinality({i \in DOMAIN refs[t] : refs[t][i] = s}) = 1

-----------------------------------------------------------------------------
\* CastSession::Stop of the session at work.
StopOnce(t) ==
  /\ At(t, "stop")
  /\ IF session[This(t)].stop
       THEN Return(t) /\ Quietly /\ UNCHANGED session
       ELSE /\ session' = [session EXCEPT ![This(t)].stop = TRUE, ![This(t)].frozen = FALSE]
            /\ Goto(t, "teardown")
            /\ IF state \in {"Idle", "Stopping"} THEN Quietly ELSE Transition(t, "Stopping")
  /\ UNCHANGED <<active, refs, ok>>

\* StopMediaPipeline; JoinOrDetach waits for the session's thread, however long
\* it takes, unless it is the one that stops.
Teardown(t) ==
  /\ At(t, "teardown")
  /\ pc[This(t)] = "idle" \/ t = This(t)
  /\ session' = [session EXCEPT ![This(t)].media = FALSE, ![This(t)].recovering = FALSE]
  /\ Goto(t, "settle") /\ Quietly
  /\ UNCHANGED <<active, refs, ok>>

\* The last transition: Failed after a failure, else Idle, by Stopping when
\* the state is Failed.
Settle(t) ==
  /\ At(t, "settle")
  /\ IF session[This(t)].fail THEN Transition(t, "Failed") /\ Return(t)
     ELSE IF state = "Failed" THEN Transition(t, "Stopping") /\ Goto(t, "toIdle")
     ELSE Transition(t, "Idle") /\ Return(t)
  /\ KeepSessions /\ UNCHANGED <<refs, ok>>

ToIdle(t) ==
  /\ At(t, "toIdle")
  /\ Transition(t, "Idle") /\ Return(t)
  /\ KeepSessions /\ UNCHANGED <<refs, ok>>

StopSteps(t) == StopOnce(t) \/ Teardown(t) \/ Settle(t) \/ ToIdle(t)

\* A reference is dropped: the destructor stops a session that nobody stopped,
\* and tears down what a start that overtook its Stop has built.
Drop(t) ==
  /\ At(t, "drop")
  /\ LET s == This(t)
     IN  IF OnlyRef(t, s) /\ ~session[s].stop
           THEN Call(t, "stop", "drop") /\ UNCHANGED <<refs, session>>
           ELSE /\ OnlyRef(t, s) => pc[s] = "idle"
                /\ session' = IF OnlyRef(t, s) THEN [session EXCEPT ![s] = NoSession] ELSE session
                /\ LetGo(t) /\ Return(t)
  /\ Quietly /\ UNCHANGED <<active, ok>>

-----------------------------------------------------------------------------
\* StartCasting, once its device was found and its choices were saved.

\* The registered session is taken out under the lock and stopped without it.
Retire(t) ==
  /\ At(t, "retire")
  /\ IF active = None THEN Goto(t, "register") /\ UNCHANGED <<active, refs>>
     ELSE /\ active' = None /\ Hold(t, active)
          /\ pc' = [pc EXCEPT ![t] = "stop"]
          /\ stack' = [stack EXCEPT ![t] = <<"drop", "register">> \o @]
  /\ Quietly /\ UNCHANGED <<session, ok>>

\* The new session is made and registered, over one that another thread may
\* have registered meanwhile.
Register(t) ==
  /\ At(t, "register")
  /\ \E s \in Sessions :
       /\ ~session[s].made
       /\ session' = [session EXCEPT ![s] = NewSession]
       /\ active' = s
       /\ IF active # None /\ \A u \in Callers : active \notin Range(refs[u])
            THEN refs' = [refs EXCEPT ![t] = <<active, s>> \o @] /\ Call(t, "drop", "start")
            ELSE Hold(t, s) /\ Goto(t, "start")
  /\ Quietly /\ UNCHANGED ok

\* Start refuses while the state machine is active; otherwise it forgets any
\* Stop that came before it.
Begin(t) ==
  /\ At(t, "start")
  /\ IF IsActive(state)
       THEN Goto(t, "unregister") /\ Quietly /\ UNCHANGED session
       ELSE /\ session' = [session EXCEPT ![This(t)] = NewSession]
            /\ Transition(t, "Connecting") /\ Goto(t, "connect")
  /\ UNCHANGED <<active, refs, ok>>

\* Connect, authenticate, launch: each announces itself, and each may fail.
\* From the connection on the session's own thread can lose the TV.
Connect(t) ==
  /\ At(t, "connect")
  /\ \/ /\ Transition(t, "Connecting")
        /\ pc' = [pc EXCEPT ![t] = "launch", ![This(t)] = "watch"] /\ UNCHANGED stack
     \/ Goto(t, "startFailed") /\ Quietly
  /\ KeepSessions /\ UNCHANGED <<refs, ok>>

Wanted(s) == ~session[s].stop /\ ~session[s].fail

\* RECEIVER_STATUS, a timeout, or somebody else's stop.
Launched(t) ==
  /\ At(t, "launch")
  /\ \/ Wanted(This(t)) /\ Transition(t, "Negotiating") /\ Goto(t, "answer")
     \/ Goto(t, "startFailed") /\ Quietly
  /\ KeepSessions /\ UNCHANGED <<refs, ok>>

Answered(t) ==
  /\ At(t, "answer")
  /\ \/ Wanted(This(t)) /\ Goto(t, "media")
     \/ Goto(t, "startFailed")
  /\ Quietly /\ KeepSessions /\ UNCHANGED <<refs, ok>>

\* Faulty StartMedia: a session that was stopped builds its pipeline all the
\* same.
StartMediaAnyway(t) ==
  /\ At(t, "media")
  /\ session' = [session EXCEPT ![This(t)].media = TRUE]
  /\ Goto(t, "stream")
  /\ Quietly /\ UNCHANGED <<active, refs, ok>>

\* StartStreamingMedia, under the lock that StopMediaPipeline takes.
StartMedia(t) ==
  /\ At(t, "media")
  /\ \/ /\ ~session[This(t)].stop
        /\ session' = [session EXCEPT ![This(t)].media = TRUE]
        /\ Goto(t, "stream")
     \/ Goto(t, "startFailed") /\ UNCHANGED session
  /\ Quietly /\ UNCHANGED <<active, refs, ok>>

Streaming(t) ==
  /\ At(t, "stream")
  /\ Transition(t, "Streaming")
  /\ ok' = [ok EXCEPT ![t] = TRUE]
  /\ pc' = [pc EXCEPT ![t] = "drop"] /\ stack' = [stack EXCEPT ![t] = <<"return">> \o @]
  /\ KeepSessions /\ UNCHANGED refs

StartFailed(t) ==
  /\ At(t, "startFailed")
  /\ Transition(t, "Failed") /\ Call(t, "stop", "unregister")
  /\ KeepSessions /\ UNCHANGED <<refs, ok>>

\* Start returned false.
Unregister(t) ==
  /\ At(t, "unregister")
  /\ ok' = [ok EXCEPT ![t] = FALSE]
  /\ active' = IF active = This(t) THEN None ELSE active
  /\ Call(t, "drop", "return")
  /\ Quietly /\ UNCHANGED <<session, refs>>

StartSteps(t) ==
  \/ Retire(t) \/ Register(t) \/ Begin(t) \/ Connect(t) \/ Launched(t) \/ Answered(t)
  \/ StartMedia(t) \/ Streaming(t) \/ StartFailed(t) \/ Unregister(t)

\* The first part of StartCasting: a device it cannot find ends it, with an
\* error and no session.
StartCasting(t) ==
  /\ ok' = [ok EXCEPT ![t] = FALSE]
  /\ pc' = [pc EXCEPT ![t] = "retire"]
  /\ UNCHANGED <<state, active, session, stack, refs, said>>

NotFound(t) ==
  /\ At(t, "retire")
  /\ Goto(t, "return")
  /\ Quietly /\ KeepSessions /\ UNCHANGED <<refs, ok>>

-----------------------------------------------------------------------------
\* StopCasting.
Detach(t) ==
  /\ At(t, "detach")
  /\ IF active = None THEN Goto(t, "detached") /\ UNCHANGED <<active, refs>>
     ELSE /\ active' = None /\ Hold(t, active)
          /\ pc' = [pc EXCEPT ![t] = "stop"]
          /\ stack' = [stack EXCEPT ![t] = <<"drop", "detached">> \o @]
  /\ Quietly /\ UNCHANGED <<session, ok>>

Detached(t) ==
  /\ At(t, "detached")
  /\ Return(t)
  /\ Quietly /\ KeepSessions /\ UNCHANGED <<refs, ok>>

EngineSteps(t) == StartSteps(t) \/ NotFound(t) \/ Detach(t) \/ Detached(t) \/ Drop(t) \/ StopSteps(t)

\* SetFreezeStream reaches the session that is registered.
SetFreezeStream(value) ==
  /\ session' = IF active = None THEN session ELSE [session EXCEPT ![active].frozen = value]
  /\ UNCHANGED <<state, active, control, stack, said>>

-----------------------------------------------------------------------------
\* The session's own thread.

\* RequestReconnect, when the TV is lost; before the first frame already.
Lose(s) ==
  /\ At(s, "watch") /\ ~session[s].stop /\ ~session[s].recovering
  /\ session' = [session EXCEPT ![s].recovering = TRUE, ![s].fail = FALSE]
  /\ IF IsValidTransition(state, "Reconnecting")
       THEN Transition(s, "Reconnecting") /\ Goto(s, "retry")
       ELSE Quietly /\ Goto(s, "ended")
  /\ UNCHANGED <<active, refs, ok>>

Starting(s) == \E t \in Callers : pc[t] \in {"connect", "launch", "answer", "media", "stream"} /\ This(t) = s

\* An attempt of the adaptation loop, which StartStreamingMedia starts: it
\* drops the pipeline, and builds a new one if the TV answers.
Retry(s) ==
  /\ At(s, "retry") /\ ~session[s].stop /\ ~Starting(s)
  /\ \/ /\ session' = [session EXCEPT ![s].recovering = FALSE, ![s].media = TRUE]
        /\ Goto(s, "recovered")
     \/ /\ session' = [session EXCEPT ![s].media = FALSE] /\ session[s].media
        /\ UNCHANGED <<pc, stack>>
  /\ Quietly /\ UNCHANGED <<active, refs, ok>>

Recovered(s) ==
  /\ At(s, "recovered")
  /\ Transition(s, "Streaming") /\ Goto(s, "watch")
  /\ KeepSessions /\ UNCHANGED <<refs, ok>>

\* FailSession: the window closed, the mirroring app was closed on the TV, or
\* the source is gone.
Fail(s) ==
  /\ pc[s] \in {"watch", "retry", "ended"} /\ said[s] = None
  /\ ~session[s].stop
  /\ session' = [session EXCEPT ![s].fail = TRUE]
  /\ Hold(s, s) /\ Call(s, "stop", "ended")
  /\ Quietly /\ UNCHANGED <<active, ok>>

\* It leaves its loop when the session stops.
End(s) ==
  /\ pc[s] \in {"watch", "retry", "ended"} /\ said[s] = None /\ session[s].stop
  /\ Goto(s, "idle") /\ refs' = [refs EXCEPT ![s] = <<>>]
  /\ Quietly /\ KeepSessions /\ UNCHANGED ok

OwnSteps(s) == Retry(s) \/ Recovered(s) \/ Fail(s) \/ End(s) \/ StopSteps(s)
=============================================================================
