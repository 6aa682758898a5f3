---------------------------- MODULE StateMachine ----------------------------
(* The session state machine of core/src/state_machine.cc: the states, the   *)
(* transition matrix and the two questions the session asks of it.  The      *)
(* matrix is the whole of the component's logic; the mutex makes every       *)
(* TransitionTo one atomic step, and the callbacks it runs after unlocking   *)
(* are modelled by StateCallbacks.                                           *)

SessionStates == {"Idle", "Discovering", "Ready", "Connecting", "Negotiating",
                  "Streaming", "Reconnecting", "Stopping", "Failed"}

(* The rows of the switch in IsValidTransition.                              *)
Successors ==
  [ Idle         |-> {"Discovering", "Ready", "Connecting"},
    Discovering  |-> {"Ready", "Idle", "Connecting"},
    Ready        |-> {"Connecting", "Discovering", "Idle"},
    Connecting   |-> {"Negotiating", "Reconnecting", "Idle"},
    Negotiating  |-> {"Streaming", "Reconnecting", "Idle"},
    Streaming    |-> {"Reconnecting", "Idle"},
    Reconnecting |-> {"Streaming", "Idle"},
    Stopping     |-> {"Idle"},
    Failed       |-> {"Idle", "Discovering", "Ready", "Connecting"} ]

(* Faulty: a row that lets Stopping resume.                                  *)
StoppingResumes(from, to) ==
  \/ from = to
  \/ to = "Failed"
  \/ to = "Stopping" /\ from # "Idle"
  \/ from = "Stopping" /\ to \in {"Streaming", "Reconnecting"}
  \/ to \in Successors[from]

(* Failure and stopping are decided before the matrix row is read.           *)
IsValidTransition(from, to) ==
  \/ from = to
  \/ to = "Failed"
  \/ to = "Stopping" /\ from # "Idle"
  \/ to \in Successors[from]

(* The state after TransitionTo(to): an invalid request changes nothing.     *)
TransitionTo(s, to) == IF IsValidTransition(s, to) THEN to ELSE s

IsActive(s) == s \in {"Connecting", "Negotiating", "Streaming", "Reconnecting"}
=============================================================================
