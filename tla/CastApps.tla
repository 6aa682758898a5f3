------------------------------ MODULE CastApps ------------------------------
(***************************************************************************)
(* The three programs over CastEngine.  The WinUI window                   *)
(* (MainViewModel.cs) starts and stops a cast on a pool thread and hears   *)
(* of transitions through the C API (c_api.cc), which calls it on the      *)
(* thread that made the transition; it posts them to its own.  The GTK     *)
(* window (gui_app.cc) stops on its main thread, starts on detached ones,  *)
(* and starts the last cast on the tray's thread (tray.cc); a transition   *)
(* that its main thread makes is shown at once, the others are posted.     *)
(* The command line (cli/main.cc) does everything on its main thread.      *)
(***************************************************************************)
EXTENDS CastEngine

CONSTANTS
  Programs,     \* the programs considered
  Starters,     \* the threads of StartCastAsync's pool, or of TriggerCastAction
  Toggles,      \* whether the live toggles are used
  MaxStarts,    \* bound: the starts of the GTK program that overlap
  MaxPosts      \* bound, for each program: with more calls waiting for the UI
                \* thread, neither the user clicks nor a TV is lost

ASSUME AppsAssumption ==
  /\ Programs \subseteq {"winui", "gtk", "cli"} /\ Programs # {}
  /\ Callers = Starters \cup {"ui", "tray"} /\ Starters \cap {"ui", "tray"} = {}
  /\ MaxPosts \in [Programs -> Nat] /\ MaxStarts \in Nat \ {0} /\ Toggles \in BOOLEAN

VARIABLES
  program,
  posts,        \* what is posted to the UI thread, first in first out
  shown,        \* _lastState, current_state_
  pending,      \* CastPending (WinUI)
  toggle,       \* FreezeStream, freeze_active_
  alert,        \* modal_action_block_count_ of the failure alert (GTK)
  registered,   \* the C API's client callbacks are registered
  inside,       \* the threads in a client callback; callbacks_in_flight
  gaveUp,       \* castmirror_shutdown's two seconds were over
  quitting      \* "no", "tray", "stop", "clear", "wait", "engine", "gone"

apiVars == <<registered, inside, gaveUp, quitting>>
appVars == <<program, posts, shown, pending, toggle, alert, apiVars>>
vars == <<engineVars, appVars>>

Posted == SessionStates \cup {"returned", "failed"}

TypeOK ==
  /\ EngineTypeOK
  /\ program \in Programs
  /\ Range(posts) \subseteq Posted
  /\ shown \in SessionStates
  /\ pending \in BOOLEAN /\ toggle \in BOOLEAN /\ alert \in BOOLEAN
  /\ registered \in BOOLEAN /\ inside \subseteq Threads /\ gaveUp \in BOOLEAN
  /\ quitting \in {"no", "tray", "stop", "clear", "wait", "engine", "gone"}

Init ==
  /\ EngineInit
  /\ program \in Programs
  /\ posts = <<>> /\ shown = "Idle" /\ pending = FALSE /\ toggle = FALSE /\ alert = FALSE
  /\ registered = TRUE /\ inside = {} /\ gaveUp = FALSE /\ quitting = "no"

Win == program = "winui"
Gtk == program = "gtk"
Cli == program = "cli"

\* IsSessionActive of both windows.
ShownActive == shown \in {"Connecting", "Negotiating", "Streaming", "Reconnecting", "Stopping"}

Post(call) == posts' = Append(posts, call)
Room == Len(posts) <= MaxPosts[program]

-----------------------------------------------------------------------------
\* A transition reaches the program.

Told(t) == said' = [said EXCEPT ![t] = None] /\ UNCHANGED <<state, active, session, control>>

\* The state callback of castmirror_init reads and counts the client's under
\* one lock, and the client's posts the state.  Nothing but the end of the
\* program can come between the two.
WinTold(t) ==
  /\ Win /\ said[t] # None /\ quitting = "no"
  /\ Told(t) /\ Post(said[t])
  /\ UNCHANGED <<program, shown, pending, toggle, alert, apiVars>>

Entering(t) ==
  /\ Win /\ said[t] # None /\ quitting # "no" /\ t \notin inside
  /\ IF registered THEN inside' = inside \cup {t} /\ UNCHANGED engineVars
                   ELSE Told(t) /\ UNCHANGED inside
  /\ UNCHANGED <<program, posts, shown, pending, toggle, alert, registered, gaveUp, quitting>>

\* The window is disposed: the client's callback posts nothing.
Leaving(t) ==
  /\ t \in inside
  /\ Told(t) /\ inside' = inside \ {t}
  /\ UNCHANGED <<program, posts, shown, pending, toggle, alert, registered, gaveUp, quitting>>

\* UpdateStateUi, ApplyState: what both do with a state they show.
Show(st) ==
  /\ shown' = st
  /\ toggle' = (toggle /\ st \in {"Connecting", "Negotiating", "Streaming", "Reconnecting", "Stopping"})

\* PostToMain: the main thread is its own context's owner, so its transitions
\* overtake what is posted.
GtkTold(t) ==
  /\ Gtk /\ said[t] # None
  /\ Told(t)
  /\ IF quitting # "no" THEN UNCHANGED <<posts, shown, toggle>>
     ELSE IF t = "ui" THEN Show(said[t]) /\ UNCHANGED posts
     ELSE Post(said[t]) /\ UNCHANGED <<shown, toggle>>
  /\ UNCHANGED <<program, pending, alert, apiVars>>

\* The command line asks for the state itself.
CliTold(t) == Cli /\ said[t] # None /\ Told(t) /\ UNCHANGED appVars

Heard(t) == WinTold(t) \/ Entering(t) \/ Leaving(t) \/ GtkTold(t) \/ CliTold(t)

-----------------------------------------------------------------------------
\* The UI thread.

UiIdle == pc["ui"] = "idle" /\ said["ui"] = None /\ quitting = "no"

\* Faulty ApplyPosted: the toggles are kept from one session to the next.
ApplyKeepsToggles ==
  /\ UiIdle /\ posts # <<>>
  /\ posts' = Tail(posts)
  /\ IF Head(posts) \in SessionStates THEN shown' = Head(posts) ELSE UNCHANGED shown
  /\ pending' = (pending /\ Head(posts) # "returned")
  /\ alert' = (alert \/ Head(posts) = "failed")
  /\ UNCHANGED <<engineVars, program, toggle, apiVars>>

\* ApplyState and the continuation of StartCastAsync and StopCastAsync;
\* UpdateStateUi and the alert of a start that failed.
ApplyPosted ==
  /\ UiIdle /\ posts # <<>>
  /\ posts' = Tail(posts)
  /\ IF Head(posts) \in SessionStates THEN Show(Head(posts)) ELSE UNCHANGED <<shown, toggle>>
  /\ pending' = (pending /\ Head(posts) # "returned")
  /\ alert' = (alert \/ Head(posts) = "failed")
  /\ UNCHANGED <<engineVars, program, apiVars>>

StopCasting(t, after) == Call(t, "detach", after) /\ UNCHANGED <<state, active, session, refs, ok, said>>

\* Faulty WinToggle: a click while a call is pending starts another one.
WinToggleAgain ==
  /\ Win /\ UiIdle /\ Room
  /\ \E t \in Starters :
       /\ pc[t] = "idle"
       /\ IF ShownActive THEN StopCasting(t, "return") ELSE StartCasting(t)
  /\ pending' = TRUE
  /\ UNCHANGED <<program, posts, shown, toggle, alert, apiVars>>

\* ToggleCast.
WinToggle ==
  /\ Win /\ UiIdle /\ Room /\ ~pending
  /\ \E t \in Starters :
       /\ pc[t] = "idle"
       /\ IF ShownActive THEN StopCasting(t, "return") ELSE StartCasting(t)
  /\ pending' = TRUE
  /\ UNCHANGED <<program, posts, shown, toggle, alert, apiVars>>

MayStart(t) ==
  /\ pc[t] = "idle" /\ said[t] = None
  /\ Cardinality({u \in Callers \ {"ui"} : pc[u] # "idle"}) < MaxStarts

\* TriggerCastAction.
GtkToggle ==
  /\ Gtk /\ UiIdle /\ Room /\ ~alert
  /\ IF ShownActive THEN shown # "Stopping" /\ StopCasting("ui", "idle")
     ELSE \E t \in Starters : MayStart(t) /\ StartCasting(t)
  /\ UNCHANGED appVars

\* The tray's Stop and Cast last; the latter joins the one before it.
GtkTray ==
  /\ Gtk /\ UiIdle /\ Room
  /\ \/ ShownActive /\ shown # "Stopping" /\ StopCasting("ui", "idle")
     \/ (~ShownActive \/ shown = "Stopping") /\ MayStart("tray") /\ StartCasting("tray")
  /\ UNCHANGED appVars

CloseAlert ==
  /\ UiIdle /\ alert
  /\ alert' = FALSE
  /\ UNCHANGED <<engineVars, program, posts, shown, pending, toggle, apiVars>>

\* The FreezeStream setter; SyncFreeze.
Freeze ==
  /\ UiIdle /\ ~Cli /\ Toggles
  /\ shown = "Streaming"
  /\ toggle' = ~toggle /\ SetFreezeStream(toggle')
  /\ UNCHANGED <<program, posts, shown, pending, alert, apiVars>>

\* The command line casts, and stops when the state it polls is not Streaming
\* any more or the user says so.
CliCasts == Cli /\ UiIdle /\ active = None /\ StartCasting("ui") /\ UNCHANGED appVars
CliStops == Cli /\ UiIdle /\ active # None /\ StopCasting("ui", "idle") /\ UNCHANGED appVars

UiSteps == ApplyPosted \/ WinToggle \/ GtkToggle \/ GtkTray \/ CloseAlert \/ Freeze \/ CliCasts \/ CliStops

\* A call returns to its thread: the pool's continuation is posted, and the
\* detached thread posts its failure unless the window is gone.
Returns(t) ==
  /\ At(t, "return")
  /\ pc' = [pc EXCEPT ![t] = "idle"] /\ stack' = [stack EXCEPT ![t] = <<>>]
  /\ IF Win /\ quitting = "no" THEN Post("returned")
     ELSE IF Gtk /\ quitting = "no" /\ t \in Starters /\ ~ok[t] THEN Post("failed")
     ELSE UNCHANGED posts
  /\ ok' = [ok EXCEPT ![t] = FALSE]
  /\ UNCHANGED <<state, active, session, refs, said, program, shown, pending, toggle, alert, apiVars>>

-----------------------------------------------------------------------------
\* The end of the program.

Quits(from, to) == quitting = from /\ pc["ui"] = "idle" /\ said["ui"] = None /\ quitting' = to

\* is_quitting_, _disposed: nothing that is posted is shown any more.
\* GuiApp::Shutdown joins the tray's thread first.
Quit ==
  /\ Quits("no", IF Gtk THEN "tray" ELSE "stop")
  /\ posts' = <<>> /\ shown' = "Idle" /\ pending' = FALSE /\ toggle' = FALSE /\ alert' = FALSE
  /\ UNCHANGED <<engineVars, program, registered, inside, gaveUp>>

\* Faulty TrayJoined: the engine is stopped without waiting for the thread.
TrayLeft ==
  /\ Quits("tray", "stop")
  /\ UNCHANGED <<engineVars, program, posts, shown, pending, toggle, alert, registered, inside, gaveUp>>

TrayJoined ==
  /\ Quits("tray", "stop") /\ pc["tray"] = "idle" /\ said["tray"] = None
  /\ UNCHANGED <<engineVars, program, posts, shown, pending, toggle, alert, registered, inside, gaveUp>>

\* StopCasting, of the program and of castmirror_shutdown.
QuitStops ==
  /\ Quits("stop", IF Win THEN "clear" ELSE "engine")
  /\ StopCasting("ui", "idle")
  /\ UNCHANGED <<program, posts, shown, pending, toggle, alert, registered, inside, gaveUp>>

\* castmirror_shutdown drops the client's callbacks and waits for those that
\* run, two seconds at most.
Cleared ==
  /\ Quits("clear", "wait")
  /\ registered' = FALSE
  /\ UNCHANGED <<engineVars, program, posts, shown, pending, toggle, alert, inside, gaveUp>>

\* Faulty Waited: the wait is for new callbacks only.
NotWaited ==
  /\ Quits("wait", "engine") /\ ~registered
  /\ gaveUp' = FALSE
  /\ UNCHANGED <<engineVars, program, posts, shown, pending, toggle, alert, registered, inside>>

Waited ==
  /\ Quits("wait", "engine")
  /\ gaveUp' = (inside # {})
  /\ UNCHANGED <<engineVars, program, posts, shown, pending, toggle, alert, registered, inside>>

\* CastEngine::Shutdown.
EngineShutdown ==
  /\ Quits("engine", "gone")
  /\ StopCasting("ui", "idle")
  /\ UNCHANGED <<program, posts, shown, pending, toggle, alert, registered, inside, gaveUp>>

QuitSteps == Quit \/ TrayJoined \/ QuitStops \/ Cleared \/ Waited \/ EngineShutdown

-----------------------------------------------------------------------------

Engine(t) == (EngineSteps(t) /\ UNCHANGED appVars) \/ Returns(t) \/ Heard(t)
Own(s) == (OwnSteps(s) /\ UNCHANGED appVars) \/ Heard(s)
Lost(s) == Lose(s) /\ Room /\ UNCHANGED appVars

Next ==
  \/ \E t \in Callers : Engine(t)
  \/ \E s \in Sessions : Own(s) \/ Lost(s)
  \/ UiSteps \/ QuitSteps

Spec == Init /\ [][Next]_vars

-----------------------------------------------------------------------------

\* Nobody is in a call, nothing is being announced and nothing is posted.
Settled ==
  /\ \A t \in Callers : pc[t] = "idle" /\ said[t] = None
  /\ \A s \in Sessions : pc[s] \in {"idle", "watch", "retry"} /\ said[s] = None
  /\ posts = <<>> /\ quitting = "no"

Live(s) == session[s].media

\* Whatever the TV, the user and the threads do, two casts never stream at
\* once (StartCasting retires the session before).
OneStream == quitting = "no" => \A s, r \in Sessions : Live(s) /\ Live(r) => s = r

\* A session that streams is one the window shows, with a button that stops it,
\* although the window hears of transitions late and from several threads.
LiveIsShown == Settled /\ (\E s \in Sessions : Live(s)) /\ ~Cli => ShownActive /\ active # None

\* "UI binds strictly to this state machine." (docs/ARCHITECTURE.md:255)
WindowAgrees == Settled /\ ~Cli => shown = state

\* "A new one must not start with the switches showing On while the engine has
\* them off." (MainViewModel.cs:980)
TogglesAgree ==
  Settled /\ active # None /\ Live(active) /\ ~Cli => toggle = session[active].frozen

\* "castmirror_shutdown() waits for this to reach zero, because a client frees
\* the user_data it registered" (c_api.cc:41): once it has waited, no client
\* callback runs and none begins, except after the two seconds were over.
CallbacksQuiet == quitting \in {"engine", "gone"} /\ ~gaveUp => inside = {}

\* GuiApp::Shutdown joins the tray's worker "so it cannot race the engine
\* teardown below" (gui_app.cc:513).
TrayQuiet == quitting \in {"stop", "engine", "gone"} => pc["tray"] = "idle"
=============================================================================
