--------------------------- MODULE CastAppsProofs ---------------------------
(***************************************************************************)
(* The programs over the engine, for any number of sessions and of threads *)
(* that start casts: no thread uses a session that is gone, the programs   *)
(* whose calls follow one another never stream twice, the end of a program *)
(* waits for the tray's thread and for the client's callbacks, and once    *)
(* all is applied the WinUI window shows the cast and its switches.        *)
(***************************************************************************)
EXTENDS CastApps, SequenceTheorems, FiniteSetTheorems, TLAPS

USE EngineAssumption, AppsAssumption

\* Places of a start that holds its session, and of CastSession::Stop.
Begun == {"start", "connect", "launch", "answer", "media", "stream", "startFailed", "unregister"}
Stops == {"stop", "teardown", "settle", "toIdle"}

One(r) == \E s \in Sessions : r = <<s>>
Two(r) == \E o, s \in Sessions : o # s /\ r = <<o, s>>

\* Where a thread of the application may be, with what its calls return to and
\* the sessions they hold.
Dropping(k, r) ==
  \/ k \in {<<"register">>, <<"return">>, <<"detached", "idle">>, <<"detached", "return">>} /\ One(r)
  \/ k = <<"start">> /\ Two(r)

Stopping(k, r) ==
  \/ k = <<"unregister">> /\ One(r)
  \/ k \in {<<"drop", "register">>, <<"drop", "return">>,
            <<"drop", "detached", "idle">>, <<"drop", "detached", "return">>} /\ One(r)
  \/ k = <<"drop", "start">> /\ Two(r)

CallerShape(p, k, r) ==
  \/ p \in {"idle", "retire", "register", "return"} /\ k = <<>> /\ r = <<>>
  \/ p \in {"detach", "detached"} /\ k \in {<<"idle">>, <<"return">>} /\ r = <<>>
  \/ p \in Begun /\ k = <<>> /\ One(r)
  \/ p = "drop" /\ Dropping(k, r)
  \/ p \in Stops /\ Stopping(k, r)

\* And where a session's own thread may be.
OwnShape(s, p, k, r) ==
  /\ r \in Seq({s})
  /\ \/ p \in {"idle", "watch", "retry", "recovered", "ended"} /\ k = <<>>
     \/ p \in Stops /\ k = <<"ended">> /\ r # <<>>

Control ==
  /\ pc \in [Threads -> Labels]
  /\ stack \in [Threads -> Seq(Labels)]
  /\ refs \in [Threads -> Seq(Sessions)]
  /\ \A t \in Callers : CallerShape(pc[t], stack[t], refs[t])
  /\ \A s \in Sessions : OwnShape(s, pc[s], stack[s], refs[s])

\* Nothing refers to a session that does not exist, and only one that exists has
\* a thread or a pipeline.
Exists ==
  /\ \A t \in Callers : \A i \in DOMAIN refs[t] : session[refs[t][i]].made
  /\ active # None => session[active].made
  /\ \A s \in Sessions : pc[s] # "idle" \/ session[s].media => session[s].made

\* The session a thread is about to begin has no thread of its own yet, and
\* nobody else is about to begin it.
Begins(t, s) ==
  \/ pc[t] \in {"start", "connect"} /\ refs[t] = <<s>>
  \/ stack[t] \in {<<"start">>, <<"drop", "start">>} /\ \E o \in Sessions : refs[t] = <<o, s>>

Fresh ==
  \A t \in Callers, s \in Sessions :
    Begins(t, s) => pc[s] = "idle" /\ \A u \in Callers \ {t} : ~Begins(u, s)

EngineInv == EngineTypeOK /\ Control /\ Exists /\ Fresh

-----------------------------------------------------------------------------
(* Sequences.                                                                *)

\* What is put before a sequence of one or two.
LEMMA PushOne == ASSUME NEW a, NEW b PROVE <<a>> \o <<b>> = <<a, b>>
<1> DEFINE S == {a, b}
           s == <<a>> \o <<b>>
           q == <<a, b>>
<1>1. <<a>> \in Seq(S) /\ <<b>> \in Seq(S)
  OBVIOUS
<1>2. s \in Seq(S) /\ Len(s) = 2 /\ s[1] = a /\ s[2] = b
  BY <1>1
<1>3. q \in Seq(S) /\ Len(q) = 2 /\ q[1] = a /\ q[2] = b
  OBVIOUS
<1> HIDE DEF s, q, S
<1>4. \A i \in 1..Len(s) : s[i] = q[i]
  BY <1>2, <1>3
<1>5. s = q
  BY <1>2, <1>3, <1>4, SeqEqual
<1> QED
  BY <1>5 DEF s, q

\* One before two.
LEMMA PushOneOfTwo == ASSUME NEW a, NEW b, NEW c PROVE <<a>> \o <<b, c>> = <<a, b, c>>
<1> DEFINE S == {a, b, c}
           s == <<a>> \o <<b, c>>
           q == <<a, b, c>>
<1>1. <<a>> \in Seq(S) /\ <<b, c>> \in Seq(S)
  OBVIOUS
<1>2. s \in Seq(S) /\ Len(s) = 3 /\ s[1] = a /\ s[2] = b /\ s[3] = c
  BY <1>1
<1>3. q \in Seq(S) /\ Len(q) = 3 /\ q[1] = a /\ q[2] = b /\ q[3] = c
  OBVIOUS
<1> HIDE DEF s, q, S
<1>4. \A i \in 1..Len(s) : s[i] = q[i]
  BY <1>2, <1>3
<1>5. s = q
  BY <1>2, <1>3, <1>4, SeqEqual
<1> QED
  BY <1>5 DEF s, q

\* Two before one.
LEMMA PushTwo == ASSUME NEW a, NEW b, NEW c PROVE <<a, b>> \o <<c>> = <<a, b, c>>
<1> DEFINE S == {a, b, c}
           s == <<a, b>> \o <<c>>
           q == <<a, b, c>>
<1>1. <<a, b>> \in Seq(S) /\ <<c>> \in Seq(S)
  OBVIOUS
<1>2. s \in Seq(S) /\ Len(s) = 3 /\ s[1] = a /\ s[2] = b /\ s[3] = c
  BY <1>1
<1>3. q \in Seq(S) /\ Len(q) = 3 /\ q[1] = a /\ q[2] = b /\ q[3] = c
  OBVIOUS
<1> HIDE DEF s, q, S
<1>4. \A i \in 1..Len(s) : s[i] = q[i]
  BY <1>2, <1>3
<1>5. s = q
  BY <1>2, <1>3, <1>4, SeqEqual
<1> QED
  BY <1>5 DEF s, q

-----------------------------------------------------------------------------
(* Control.                                                                  *)

\* The sequences of a shape.
LEMMA ShapeTypes ==
  ASSUME NEW p, NEW k, NEW r, CallerShape(p, k, r)
  PROVE  p \in Labels /\ k \in Seq(Labels) /\ r \in Seq(Sessions)
<1>1. One(r) \/ Two(r) \/ r = <<>>
  BY DEF CallerShape, Dropping, Stopping
<1>2. r \in Seq(Sessions)
  <2>1. ASSUME NEW s \in Sessions PROVE <<s>> \in Seq(Sessions)
    OBVIOUS
  <2>2. ASSUME NEW o \in Sessions, NEW s \in Sessions PROVE <<o, s>> \in Seq(Sessions)
    OBVIOUS
  <2>3. <<>> \in Seq(Sessions)
    OBVIOUS
  <2>4. CASE One(r)
    <3>1. PICK s \in Sessions : r = <<s>>
      BY <2>4 DEF One
    <3> QED
      BY <3>1, <2>1
  <2>5. CASE Two(r)
    <3>1. PICK o \in Sessions, s \in Sessions : r = <<o, s>>
      BY <2>5 DEF Two
    <3> QED
      BY <3>1, <2>2
  <2> QED
    BY <1>1, <2>3, <2>4, <2>5
<1>3. p \in Labels
  BY DEF CallerShape, Labels, Begun, Stops
<1>4. k \in Seq(Labels)
  <2>1. ASSUME NEW a \in Labels PROVE <<a>> \in Seq(Labels)
    OBVIOUS
  <2>2. ASSUME NEW a \in Labels, NEW b \in Labels PROVE <<a, b>> \in Seq(Labels)
    OBVIOUS
  <2>3. ASSUME NEW a \in Labels, NEW b \in Labels, NEW c \in Labels PROVE <<a, b, c>> \in Seq(Labels)
    OBVIOUS
  <2>4. /\ "register" \in Labels /\ "return" \in Labels /\ "detached" \in Labels /\ "idle" \in Labels
        /\ "start" \in Labels /\ "unregister" \in Labels /\ "drop" \in Labels
    BY DEF Labels
  <2>5. <<>> \in Seq(Labels)
    OBVIOUS
  <2>6. \/ k = <<>>
        \/ \E a \in Labels : k = <<a>>
        \/ \E a, b \in Labels : k = <<a, b>>
        \/ \E a, b, c \in Labels : k = <<a, b, c>>
    <3>1. k \in {<<>>} \cup {<<a>> : a \in Labels} \cup {<<a, b>> : a, b \in Labels}
               \cup {<<a, b, c>> : a, b, c \in Labels}
      <4>1. CASE k = <<>>
        BY <4>1
      <4>2. CASE k \in {<<"idle">>, <<"return">>, <<"register">>, <<"start">>, <<"unregister">>}
        BY <4>2, <2>4
      <4>3. CASE k \in {<<"detached", "idle">>, <<"detached", "return">>, <<"drop", "register">>,
                        <<"drop", "return">>, <<"drop", "start">>}
        BY <4>3, <2>4
      <4>4. CASE k \in {<<"drop", "detached", "idle">>, <<"drop", "detached", "return">>}
        BY <4>4, <2>4
      <4> QED
        BY <4>1, <4>2, <4>3, <4>4 DEF CallerShape, Dropping, Stopping
    <3> QED
      BY <3>1
  <2>7. CASE \E a \in Labels : k = <<a>>
    BY <2>7, <2>1
  <2>8. CASE \E a, b \in Labels : k = <<a, b>>
    BY <2>8, <2>2
  <2>9. CASE \E a, b, c \in Labels : k = <<a, b, c>>
    BY <2>9, <2>3
  <2> QED
    BY <2>5, <2>6, <2>7, <2>8, <2>9
<1> QED
  BY <1>2, <1>3, <1>4

\* A thread of the application goes on.
LEMMA CallerGoes ==
  ASSUME Control, NEW t \in Callers, NEW p, NEW k, NEW r, CallerShape(p, k, r),
         pc' = [pc EXCEPT ![t] = p], stack' = [stack EXCEPT ![t] = k], refs' = [refs EXCEPT ![t] = r]
  PROVE  Control'
<1>1. p \in Labels /\ k \in Seq(Labels) /\ r \in Seq(Sessions)
  BY ShapeTypes
<1>2. /\ pc' \in [Threads -> Labels] /\ stack' \in [Threads -> Seq(Labels)]
      /\ refs' \in [Threads -> Seq(Sessions)]
  BY <1>1 DEF Control
<1>3. /\ pc'[t] = p /\ stack'[t] = k /\ refs'[t] = r
      /\ \A u \in Threads \ {t} : pc'[u] = pc[u] /\ stack'[u] = stack[u] /\ refs'[u] = refs[u]
  BY DEF Control, Threads
<1>4. \A u \in Callers : CallerShape(pc'[u], stack'[u], refs'[u])
  BY <1>3 DEF Control, Threads
<1>5. \A s \in Sessions : OwnShape(s, pc'[s], stack'[s], refs'[s])
  BY <1>3 DEF Control, Threads
<1> QED
  BY <1>2, <1>4, <1>5 DEF Control

\* A session's own thread goes on.
LEMMA OwnGoes ==
  ASSUME Control, NEW s \in Sessions, NEW p \in Labels, NEW k \in Seq(Labels), NEW r, OwnShape(s, p, k, r),
         pc' = [pc EXCEPT ![s] = p], stack' = [stack EXCEPT ![s] = k], refs' = [refs EXCEPT ![s] = r]
  PROVE  Control'
<1>1. r \in Seq(Sessions)
  BY DEF OwnShape
<1>2. /\ pc' \in [Threads -> Labels] /\ stack' \in [Threads -> Seq(Labels)]
      /\ refs' \in [Threads -> Seq(Sessions)]
  BY <1>1 DEF Control
<1>3. /\ pc'[s] = p /\ stack'[s] = k /\ refs'[s] = r
      /\ \A u \in Threads \ {s} : pc'[u] = pc[u] /\ stack'[u] = stack[u] /\ refs'[u] = refs[u]
  BY DEF Control, Threads
<1>4. \A u \in Callers : CallerShape(pc'[u], stack'[u], refs'[u])
  BY <1>3 DEF Control, Threads
<1>5. \A u \in Sessions : OwnShape(u, pc'[u], stack'[u], refs'[u])
  BY <1>3 DEF Control, Threads
<1> QED
  BY <1>2, <1>4, <1>5 DEF Control

\* What does not change may be said to change to what it was.
LEMMA Stays ==
  ASSUME Control, NEW t \in Threads
  PROVE  /\ pc' = pc => pc' = [pc EXCEPT ![t] = pc[t]]
         /\ stack' = stack => stack' = [stack EXCEPT ![t] = stack[t]]
         /\ refs' = refs => refs' = [refs EXCEPT ![t] = refs[t]]
BY DEF Control

\* What a place of an application's thread says about its calls and sessions.
LEMMA CallerAt ==
  ASSUME Control, NEW t \in Callers
  PROVE  /\ pc[t] \in {"idle", "retire", "register", "return"} => stack[t] = <<>> /\ refs[t] = <<>>
         /\ pc[t] \in Begun => stack[t] = <<>> /\ One(refs[t])
         /\ pc[t] \in {"detach", "detached"} => stack[t] \in {<<"idle">>, <<"return">>} /\ refs[t] = <<>>
         /\ pc[t] = "drop" => Dropping(stack[t], refs[t])
         /\ pc[t] \in Stops => Stopping(stack[t], refs[t])
         /\ t \in Threads /\ t \notin Sessions
<1>1. CallerShape(pc[t], stack[t], refs[t])
  BY DEF Control
<1> QED
  BY <1>1 DEF CallerShape, Begun, Stops, Threads

\* A call that returns from CastSession::Stop is at a place that goes with what
\* it holds.
LEMMA StopReturns ==
  ASSUME NEW k, NEW r, Stopping(k, r)
  PROVE  CallerShape(Head(k), Tail(k), r)
<1>1. CASE k = <<"unregister">> /\ One(r)
  BY <1>1 DEF CallerShape, Begun
<1>2. CASE k = <<"drop", "register">> /\ One(r)
  BY <1>2 DEF CallerShape, Dropping
<1>3. CASE k = <<"drop", "return">> /\ One(r)
  BY <1>3 DEF CallerShape, Dropping
<1>4. CASE k = <<"drop", "detached", "idle">> /\ One(r)
  <2>1. Head(k) = "drop" /\ Tail(k) = <<"detached", "idle">>
    BY <1>4
  <2> QED
    BY <2>1, <1>4 DEF CallerShape, Dropping
<1>5. CASE k = <<"drop", "detached", "return">> /\ One(r)
  <2>1. Head(k) = "drop" /\ Tail(k) = <<"detached", "return">>
    BY <1>5
  <2> QED
    BY <2>1, <1>5 DEF CallerShape, Dropping
<1>6. CASE k = <<"drop", "start">> /\ Two(r)
  BY <1>6 DEF CallerShape, Dropping
<1> QED
  BY <1>1, <1>2, <1>3, <1>4, <1>5, <1>6 DEF Stopping

\* So is one that has dropped its first session.
LEMMA DropReturns ==
  ASSUME NEW k, NEW r, Dropping(k, r)
  PROVE  CallerShape(Head(k), Tail(k), Tail(r))
<1>1. One(r) => Tail(r) = <<>>
  BY DEF One
<1>2. Two(r) => One(Tail(r))
  BY DEF One, Two
<1>3. CASE k = <<"register">> /\ One(r)
  BY <1>1, <1>3 DEF CallerShape
<1>4. CASE k = <<"return">> /\ One(r)
  BY <1>1, <1>4 DEF CallerShape
<1>5. CASE k = <<"detached", "idle">> /\ One(r)
  BY <1>1, <1>5 DEF CallerShape
<1>6. CASE k = <<"detached", "return">> /\ One(r)
  BY <1>1, <1>6 DEF CallerShape
<1>7. CASE k = <<"start">> /\ Two(r)
  BY <1>2, <1>7 DEF CallerShape, Begun
<1> QED
  BY <1>3, <1>4, <1>5, <1>6, <1>7 DEF Dropping

\* The session at work is the first that is held.
LEMMA Holds ==
  ASSUME NEW r, One(r) \/ Two(r)
  PROVE  /\ r[1] \in Sessions /\ 1 \in DOMAIN r /\ r \in Seq(Sessions)
         /\ \A i \in DOMAIN Tail(r) : Tail(r)[i] # r[1] /\ i + 1 \in DOMAIN r /\ Tail(r)[i] = r[i + 1]
<1>1. CASE One(r)
  BY <1>1 DEF One
<1>2. CASE Two(r)
  BY <1>2 DEF Two
<1> QED
  BY <1>1, <1>2

\* A start between its steps.
LEMMA BegunGoes ==
  ASSUME Control, NEW t \in Callers, pc[t] \in Begun, NEW p \in Begun,
         pc' = [pc EXCEPT ![t] = p], UNCHANGED <<stack, refs>>
  PROVE  Control'
<1>1. CallerShape(p, stack[t], refs[t])
  BY CallerAt DEF CallerShape
<1>2. stack' = [stack EXCEPT ![t] = stack[t]] /\ refs' = [refs EXCEPT ![t] = refs[t]]
  BY CallerAt, Stays
<1> QED
  BY <1>1, <1>2, CallerGoes

\* A step that makes nothing begin and starts no session's thread.
LEMMA FreshStays ==
  ASSUME Fresh, NEW t \in Callers,
         \A u \in Callers \ {t} : pc'[u] = pc[u] /\ stack'[u] = stack[u] /\ refs'[u] = refs[u],
         \A s \in Sessions : Begins(t, s)' => Begins(t, s),
         \A s \in Sessions : pc'[s] = pc[s] \/ (Begins(t, s) /\ ~Begins(t, s)')
  PROVE  Fresh'
<1>1. \A u \in Callers \ {t}, s \in Sessions : Begins(u, s)' <=> Begins(u, s)
  BY DEF Begins
<1>2. SUFFICES ASSUME NEW a \in Callers, NEW s \in Sessions, Begins(a, s)'
              PROVE  pc'[s] = "idle" /\ \A u \in Callers \ {a} : ~Begins(u, s)'
  BY <1>2, Zenon DEF Fresh
<1>3. Begins(a, s)
  BY <1>1, <1>2
<1>4. pc[s] = "idle" /\ \A u \in Callers \ {a} : ~Begins(u, s)
  BY <1>3 DEF Fresh
<1>5. \A u \in Callers \ {a} : ~Begins(u, s)'
  BY <1>1, <1>4
<1>6. pc'[s] = pc[s]
  <2> SUFFICES ASSUME pc'[s] # pc[s] PROVE FALSE
    OBVIOUS
  <2>1. Begins(t, s) /\ ~Begins(t, s)'
    OBVIOUS
  <2>2. a # t
    BY <1>2, <2>1
  <2> QED
    BY <2>1, <2>2, <1>4
<1> QED
  BY <1>4, <1>5, <1>6

-----------------------------------------------------------------------------
(* The steps of a start.                                                     *)

Kept == Control /\ Exists /\ Fresh

\* The sessions that are made stay so, and only they stream.
Spared == \A s \in Sessions : /\ session[s].made => session'[s].made
                              /\ session'[s].media => session'[s].made

\* A start between its steps keeps all of it.
LEMMA BegunKeeps ==
  ASSUME Kept, active \in Sessions \cup {None}, NEW t \in Callers, pc[t] \in Begun, NEW p \in Begun,
         p \in {"start", "connect"} => pc[t] \in {"start", "connect"},
         pc' = [pc EXCEPT ![t] = p], UNCHANGED <<stack, refs, active>>, Spared
  PROVE  Kept'
<1>1. Control'
  BY BegunGoes DEF Kept
<1>2. /\ \A u \in Threads \ {t} : pc'[u] = pc[u]
      /\ pc'[t] = p /\ t \in Threads /\ t \notin Sessions
      /\ stack[t] = <<>> /\ \A u \in Callers : refs[u] \in Seq(Sessions)
  BY CallerAt DEF Kept, Control, Threads
<1>3. \A u \in Callers, i \in Nat : i \in DOMAIN refs[u] => refs[u][i] \in Sessions
  BY <1>2
<1>4. \A u \in Callers : \A i \in DOMAIN refs[u] : session'[refs[u][i]].made
  BY <1>2, <1>3 DEF Kept, Exists, Spared
<1>5. Exists'
  BY <1>2, <1>4 DEF Kept, Exists, Spared, Threads
<1>6. \A s \in Sessions : Begins(t, s)' => Begins(t, s)
  BY <1>2 DEF Begins
<1>7. Fresh'
  BY <1>2, <1>6, FreshStays DEF Kept, Threads
<1> QED
  BY <1>1, <1>5, <1>7 DEF Kept

LEMMA BeginKeeps == ASSUME EngineInv, NEW t \in Callers, Begin(t) PROVE Kept'
<1>1. pc[t] = "start" /\ One(refs[t]) /\ This(t) \in Sessions
  BY CallerAt, Holds DEF EngineInv, Begin, At, Begun, This
<1>2. Spared
  BY <1>1 DEF EngineInv, EngineTypeOK, Begin, Session, NewSession, NoSession, Spared, Exists
<1>3. \E p \in {"unregister", "connect"} : pc' = [pc EXCEPT ![t] = p] /\ UNCHANGED <<stack, refs, active>>
  BY DEF Begin, Goto
<1> QED
  BY <1>1, <1>2, <1>3, BegunKeeps DEF Kept, EngineInv, EngineTypeOK, Begun

LEMMA LaunchedKeeps == ASSUME EngineInv, NEW t \in Callers, Launched(t) \/ Answered(t) PROVE Kept'
<1>1. pc[t] \in {"launch", "answer"}
  BY DEF Launched, Answered, At
<1>2. Spared
  BY DEF EngineInv, Launched, Answered, KeepSessions, Spared, Exists
<1>3. \E p \in {"answer", "media", "startFailed"} :
        pc' = [pc EXCEPT ![t] = p] /\ UNCHANGED <<stack, refs, active>>
  BY DEF Launched, Answered, Goto, KeepSessions
<1> QED
  BY <1>1, <1>2, <1>3, BegunKeeps DEF Kept, EngineInv, EngineTypeOK, Begun

LEMMA StartMediaKeeps == ASSUME EngineInv, NEW t \in Callers, StartMedia(t) PROVE Kept'
<1>1. pc[t] = "media" /\ One(refs[t]) /\ This(t) \in Sessions /\ session[This(t)].made
  BY CallerAt, Holds DEF EngineInv, StartMedia, At, Begun, This, Exists
<1>2. session' = [session EXCEPT ![This(t)].media = TRUE] \/ session' = session
  BY DEF StartMedia
<1>3. Spared
  BY <1>1, <1>2 DEF EngineInv, EngineTypeOK, Session, Spared, Exists
<1>4. \E p \in {"stream", "startFailed"} : pc' = [pc EXCEPT ![t] = p] /\ UNCHANGED <<stack, refs, active>>
  BY DEF StartMedia, Goto
<1> QED
  BY <1>1, <1>3, <1>4, BegunKeeps DEF Kept, EngineInv, EngineTypeOK, Begun

\* The connection starts the session's thread: the session was not begun before.
LEMMA ConnectKeeps == ASSUME EngineInv, NEW t \in Callers, Connect(t) PROVE Kept'
<1>1. pc[t] = "connect" /\ One(refs[t]) /\ This(t) \in Sessions /\ session[This(t)].made
  BY CallerAt, Holds DEF EngineInv, Connect, At, Begun, This, Exists
<1>2. UNCHANGED <<stack, refs, active, session>>
  BY DEF Connect, KeepSessions, Goto
<1>3. CASE Goto(t, "startFailed")
  <2>1. Spared
    BY <1>2 DEF EngineInv, Spared, Exists
  <2> QED
    BY <1>1, <1>2, <1>3, <2>1, BegunKeeps DEF Kept, EngineInv, EngineTypeOK, Begun, Goto
<1>4. CASE pc' = [pc EXCEPT ![t] = "launch", ![This(t)] = "watch"]
  <2> DEFINE s == This(t)
  <2>1. t \in Threads /\ t \notin Sessions /\ s \in Threads /\ s # t /\ refs[t] = <<s>>
    BY <1>1, CallerAt DEF Threads, EngineInv, This, One
  <2>2. /\ pc'[t] = "launch" /\ pc'[s] = "watch" /\ \A u \in Threads \ {t, s} : pc'[u] = pc[u]
        /\ pc' \in [Threads -> Labels]
    BY <1>4, <2>1 DEF EngineInv, Control, Labels
  <2>3. Begins(t, s) /\ pc[s] = "idle"
    BY <1>1, <2>1 DEF Begins, EngineInv, Fresh
  <2>4. \A u \in Callers : CallerShape(pc'[u], stack[u], refs[u])
    <3>1. CallerShape("launch", stack[t], refs[t])
      BY <1>1, CallerAt DEF CallerShape, Begun, EngineInv
    <3>2. \A u \in Callers \ {t} : pc'[u] = pc[u]
      BY <1>1, <2>1, <2>2 DEF Threads
    <3> QED
      BY <2>2, <3>1, <3>2 DEF EngineInv, Control
  <2>5. \A r \in Sessions : OwnShape(r, pc'[r], stack[r], refs[r])
    <3>1. OwnShape(s, pc[s], stack[s], refs[s])
      BY <1>1 DEF EngineInv, Control
    <3>2. OwnShape(s, "watch", stack[s], refs[s])
      BY <2>3, <3>1 DEF OwnShape, Stops
    <3>3. \A r \in Sessions \ {s} : pc'[r] = pc[r]
      BY <2>1, <2>2 DEF Threads
    <3> QED
      BY <2>2, <3>2, <3>3 DEF EngineInv, Control
  <2>6. Control'
    BY <1>2, <2>2, <2>4, <2>5 DEF EngineInv, Control
  <2>7. Exists'
    BY <1>1, <1>2, <2>1, <2>2 DEF EngineInv, Exists, Threads
  <2>8. Fresh'
    <3>1. \A r \in Sessions : ~Begins(t, r)'
      <4>1. stack[t] = <<>>
        BY <1>1, CallerAt DEF EngineInv, Begun
      <4> QED
        BY <1>2, <2>2, <4>1 DEF Begins
    <3>2. \A u \in Callers \ {t} : pc'[u] = pc[u] /\ stack'[u] = stack[u] /\ refs'[u] = refs[u]
      BY <1>1, <1>2, <2>1, <2>2 DEF Threads
    <3>3. \A r \in Sessions : pc'[r] = pc[r] \/ (Begins(t, r) /\ ~Begins(t, r)')
      BY <2>1, <2>2, <2>3, <3>1 DEF Threads
    <3> HIDE DEF s
    <3> QED
      BY <3>1, <3>2, <3>3, FreshStays DEF EngineInv
  <2> QED
    BY <2>6, <2>7, <2>8 DEF Kept
<1> QED
  BY <1>3, <1>4 DEF Connect

\* Any step of an application's thread that destroys nothing, makes nothing and
\* begins nothing keeps all of it.
LEMMA CallerKeeps ==
  ASSUME Kept, active \in Sessions \cup {None}, NEW t \in Callers, NEW p, NEW k, NEW r,
         CallerShape(p, k, r),
         pc' = [pc EXCEPT ![t] = p], stack' = [stack EXCEPT ![t] = k], refs' = [refs EXCEPT ![t] = r],
         Spared, \A i \in DOMAIN r : session[r[i]].made, active' \in {active, None},
         \A s \in Sessions : Begins(t, s)' => Begins(t, s)
  PROVE  Kept'
<1>1. Control'
  BY CallerGoes DEF Kept
<1>2. /\ \A u \in Threads \ {t} : pc'[u] = pc[u] /\ stack'[u] = stack[u] /\ refs'[u] = refs[u]
      /\ pc'[t] = p /\ refs'[t] = r /\ t \in Threads /\ t \notin Sessions
  BY CallerAt DEF Kept, Control, Threads
<1>3. \A u \in Callers \ {t} : pc'[u] = pc[u] /\ stack'[u] = stack[u] /\ refs'[u] = refs[u]
  BY <1>2 DEF Threads
<1>4. \A u \in Callers : refs'[u] \in Seq(Sessions)
  BY <1>1 DEF Control, Threads
<1>5. \A u \in Callers : \A i \in DOMAIN refs'[u] : session'[refs'[u][i]].made
  <2> SUFFICES ASSUME NEW u \in Callers, NEW i \in DOMAIN refs'[u] PROVE session'[refs'[u][i]].made
    OBVIOUS
  <2>1. refs'[u][i] \in Sessions
    BY <1>4
  <2>2. session[refs'[u][i]].made
    BY <1>2, <1>3 DEF Kept, Exists
  <2> QED
    BY <2>1, <2>2 DEF Spared
<1>6. Exists'
  <2>1. \A s \in Sessions : pc'[s] = pc[s]
    BY <1>2 DEF Threads
  <2>2. active' # None => session'[active'].made
    BY DEF Kept, Exists, Spared
  <2>3. \A s \in Sessions : pc'[s] # "idle" \/ session'[s].media => session'[s].made
    BY <2>1 DEF Kept, Exists, Spared
  <2> QED
    BY <1>5, <2>2, <2>3 DEF Exists
<1>7. Fresh'
  BY <1>2, <1>3, FreshStays DEF Kept, Threads
<1> QED
  BY <1>1, <1>6, <1>7 DEF Kept

\* Places that begin nothing.
Beginnings == {"start", "connect"}
BeginsBelow == {<<"start">>, <<"drop", "start">>}

LEMMA NothingBegins ==
  ASSUME Control, NEW t \in Callers, NEW p, NEW k, p \notin Beginnings, k \notin BeginsBelow,
         pc' = [pc EXCEPT ![t] = p], stack' = [stack EXCEPT ![t] = k]
  PROVE  \A s \in Sessions : ~Begins(t, s)'
<1>1. pc'[t] = p /\ stack'[t] = k
  BY DEF Control, Threads
<1> QED
  BY <1>1 DEF Begins, Beginnings, BeginsBelow

\* Steps that leave the sessions alone.
LEMMA SameSpared == ASSUME Exists, session' = session PROVE Spared
BY DEF Exists, Spared

\* A thread goes where it holds nothing.
LEMMA FreeKeeps ==
  ASSUME Kept, active \in Sessions \cup {None}, NEW t \in Callers, NEW p, NEW k, CallerShape(p, k, <<>>),
         p \notin Beginnings, k \notin BeginsBelow,
         pc' = [pc EXCEPT ![t] = p], stack' = [stack EXCEPT ![t] = k], refs' = [refs EXCEPT ![t] = <<>>],
         session' = session, active' = active
  PROVE  Kept'
<1>1. \A s \in Sessions : ~Begins(t, s)'
  BY NothingBegins DEF Kept
<1>2. Spared
  BY SameSpared DEF Kept
<1> DEFINE r == <<>>
<1>3. \A i \in DOMAIN r : session[r[i]].made
  OBVIOUS
<1>4. CallerShape(p, k, r) /\ refs' = [refs EXCEPT ![t] = r]
  OBVIOUS
<1> HIDE DEF r
<1> QED
  BY <1>1, <1>2, <1>3, <1>4, CallerKeeps

\* A thread goes on with the sessions it holds.
LEMMA SameKeeps ==
  ASSUME Kept, active \in Sessions \cup {None}, NEW t \in Callers, NEW p, NEW k, CallerShape(p, k, refs[t]),
         p \notin Beginnings, k \in BeginsBelow => stack[t] \in BeginsBelow,
         pc' = [pc EXCEPT ![t] = p], stack' = [stack EXCEPT ![t] = k], refs' = refs,
         Spared, active' \in {active, None}
  PROVE  Kept'
<1>1. \A s \in Sessions : Begins(t, s)' => Begins(t, s)
  <2>1. pc'[t] = p /\ stack'[t] = k
    BY DEF Kept, Control, Threads
  <2> QED
    BY <2>1 DEF Begins, Beginnings, BeginsBelow
<1>2. \A i \in DOMAIN refs[t] : session[refs[t][i]].made
  BY DEF Kept, Exists
<1>3. refs' = [refs EXCEPT ![t] = refs[t]]
  BY CallerAt, Stays DEF Kept
<1> QED
  BY <1>1, <1>2, <1>3, CallerKeeps

\* The registered session is taken out to be stopped.
LEMMA TakenKeeps ==
  ASSUME EngineInv, NEW t \in Callers, refs[t] = <<>>, active # None, NEW k,
         k \in {<<"drop", "register">>, <<"drop", "detached", "idle">>, <<"drop", "detached", "return">>},
         pc' = [pc EXCEPT ![t] = "stop"], stack' = [stack EXCEPT ![t] = k], Hold(t, active),
         active' = None, session' = session
  PROVE  Kept'
<1>1. active \in Sessions /\ refs' = [refs EXCEPT ![t] = <<active>>]
  BY DEF EngineInv, EngineTypeOK, Hold
<1>2. CallerShape("stop", k, <<active>>)
  BY <1>1 DEF CallerShape, Stops, Stopping, One
<1>3. \A s \in Sessions : ~Begins(t, s)'
  <2>1. "stop" \notin Beginnings /\ k \notin BeginsBelow
    BY DEF Beginnings, BeginsBelow
  <2> QED
    BY <2>1, NothingBegins DEF EngineInv
<1> DEFINE r == <<active>>
<1>4. \A i \in DOMAIN r : session[r[i]].made
  BY DEF EngineInv, Exists
<1>5. Spared
  BY SameSpared DEF EngineInv
<1>6. CallerShape("stop", k, r) /\ refs' = [refs EXCEPT ![t] = r]
  BY <1>1, <1>2
<1> HIDE DEF r
<1> QED
  BY <1>1, <1>3, <1>4, <1>5, <1>6, CallerKeeps DEF EngineInv, Kept

LEMMA RetireKeeps == ASSUME EngineInv, NEW t \in Callers, Retire(t) PROVE Kept'
<1>1. pc[t] = "retire" /\ stack[t] = <<>> /\ refs[t] = <<>>
  BY CallerAt DEF EngineInv, Retire, At
<1>2. session' = session
  BY DEF Retire
<1>3. CASE active = None
  <2>1. pc' = [pc EXCEPT ![t] = "register"] /\ UNCHANGED <<stack, refs, active>>
    BY <1>3 DEF Retire, Goto
  <2>2. stack' = [stack EXCEPT ![t] = <<>>] /\ refs' = [refs EXCEPT ![t] = <<>>]
    BY <1>1, <2>1, Stays, CallerAt DEF EngineInv
  <2>3. CallerShape("register", <<>>, <<>>)
    BY DEF CallerShape
  <2>4. "register" \notin Beginnings /\ <<>> \notin BeginsBelow
    BY DEF Beginnings, BeginsBelow
  <2> DEFINE k == <<>>
  <2>5. CallerShape("register", k, <<>>) /\ stack' = [stack EXCEPT ![t] = k] /\ k \notin BeginsBelow
    BY <2>2, <2>3, <2>4
  <2> HIDE DEF k
  <2> QED
    BY <1>2, <2>1, <2>2, <2>4, <2>5, FreeKeeps DEF EngineInv, EngineTypeOK, Kept
<1>4. CASE active # None
  <2>1. /\ pc' = [pc EXCEPT ![t] = "stop"] /\ active' = None /\ Hold(t, active)
        /\ stack' = [stack EXCEPT ![t] = <<"drop", "register">>]
    BY <1>1, <1>4 DEF Retire
  <2> QED
    BY <1>1, <1>2, <1>4, <2>1, TakenKeeps
<1> QED
  BY <1>3, <1>4

LEMMA DetachKeeps == ASSUME EngineInv, NEW t \in Callers, Detach(t) PROVE Kept'
<1>1. pc[t] = "detach" /\ stack[t] \in {<<"idle">>, <<"return">>} /\ refs[t] = <<>>
  BY CallerAt DEF EngineInv, Detach, At
<1>2. session' = session
  BY DEF Detach
<1>3. CASE active = None
  <2>1. pc' = [pc EXCEPT ![t] = "detached"] /\ UNCHANGED <<stack, refs, active>>
    BY <1>3 DEF Detach, Goto
  <2>2. stack' = [stack EXCEPT ![t] = stack[t]] /\ refs' = [refs EXCEPT ![t] = <<>>]
    BY <1>1, <2>1, Stays, CallerAt DEF EngineInv
  <2>3. CallerShape("detached", stack[t], <<>>)
    BY <1>1 DEF CallerShape
  <2>4. "detached" \notin Beginnings /\ stack[t] \notin BeginsBelow
    BY <1>1 DEF Beginnings, BeginsBelow
  <2> QED
    BY <1>2, <2>1, <2>2, <2>3, <2>4, FreeKeeps DEF EngineInv, EngineTypeOK, Kept
<1>4. CASE active # None
  <2>1. /\ pc' = [pc EXCEPT ![t] = "stop"] /\ active' = None /\ Hold(t, active)
        /\ stack' = [stack EXCEPT ![t] = <<"drop", "detached">> \o stack[t]]
    BY <1>4 DEF Detach
  <2>2. <<"drop", "detached">> \o stack[t] \in {<<"drop", "detached", "idle">>, <<"drop", "detached", "return">>}
    BY <1>1, PushTwo
  <2> DEFINE k == <<"drop", "detached">> \o stack[t]
  <2> HIDE DEF k
  <2>3. k \in {<<"drop", "detached", "idle">>, <<"drop", "detached", "return">>} /\ stack' = [stack EXCEPT ![t] = k]
    BY <2>1, <2>2 DEF k
  <2> QED
    BY <1>1, <1>2, <1>4, <2>1, <2>3, TakenKeeps
<1> QED
  BY <1>3, <1>4

LEMMA DetachedKeeps == ASSUME EngineInv, NEW t \in Callers, Detached(t) PROVE Kept'
<1>1. pc[t] = "detached" /\ stack[t] \in {<<"idle">>, <<"return">>} /\ refs[t] = <<>>
  BY CallerAt DEF EngineInv, Detached, At
<1>2. /\ pc' = [pc EXCEPT ![t] = Head(stack[t])] /\ stack' = [stack EXCEPT ![t] = Tail(stack[t])]
      /\ UNCHANGED <<refs, active, session>>
  BY DEF Detached, Return, KeepSessions
<1>3. refs' = [refs EXCEPT ![t] = <<>>]
  BY <1>1, <1>2, Stays, CallerAt DEF EngineInv
<1> DEFINE p == Head(stack[t])
           k == Tail(stack[t])
<1>4. p \in {"idle", "return"} /\ k = <<>>
  <2>1. CASE stack[t] = <<"idle">>
    BY <2>1
  <2>2. CASE stack[t] = <<"return">>
    BY <2>2
  <2> QED
    BY <1>1, <2>1, <2>2
<1>5. CallerShape(p, k, <<>>) /\ p \notin Beginnings /\ k \notin BeginsBelow
  <2> HIDE DEF p, k
  <2> QED
    BY <1>4 DEF CallerShape, Beginnings, BeginsBelow
<1>6. pc' = [pc EXCEPT ![t] = p] /\ stack' = [stack EXCEPT ![t] = k]
  BY <1>2
<1> HIDE DEF p, k
<1> QED
  BY <1>2, <1>3, <1>5, <1>6, FreeKeeps DEF EngineInv, EngineTypeOK, Kept

LEMMA NotFoundKeeps == ASSUME EngineInv, NEW t \in Callers, NotFound(t) PROVE Kept'
<1>1. pc[t] = "retire" /\ stack[t] = <<>> /\ refs[t] = <<>>
  BY CallerAt DEF EngineInv, NotFound, At
<1>2. pc' = [pc EXCEPT ![t] = "return"] /\ UNCHANGED <<stack, refs, active, session>>
  BY DEF NotFound, Goto, KeepSessions
<1>3. stack' = [stack EXCEPT ![t] = stack[t]] /\ refs' = [refs EXCEPT ![t] = <<>>]
  BY <1>1, <1>2, Stays, CallerAt DEF EngineInv
<1>4. CallerShape("return", stack[t], <<>>) /\ "return" \notin Beginnings /\ stack[t] \notin BeginsBelow
  BY <1>1 DEF CallerShape, Beginnings, BeginsBelow
<1> QED
  BY <1>2, <1>3, <1>4, FreeKeeps DEF EngineInv, EngineTypeOK, Kept

\* A start that is at its end, or has failed, calls on.
LEMMA BegunCalls ==
  ASSUME EngineInv, NEW t \in Callers, pc[t] \in Begun,
         \/ pc' = [pc EXCEPT ![t] = "drop"] /\ stack' = [stack EXCEPT ![t] = <<"return">> \o @]
         \/ pc' = [pc EXCEPT ![t] = "stop"] /\ stack' = [stack EXCEPT ![t] = <<"unregister">> \o @],
         UNCHANGED <<refs, session>>, active' \in {active, None}
  PROVE  Kept'
<1>1. stack[t] = <<>> /\ One(refs[t])
  BY CallerAt DEF EngineInv
<1>2. PICK p, k : /\ \/ p = "drop" /\ k = <<"return">>
                     \/ p = "stop" /\ k = <<"unregister">>
                  /\ pc' = [pc EXCEPT ![t] = p] /\ stack' = [stack EXCEPT ![t] = k]
  <2>1. <<"return">> \o stack[t] = <<"return">> /\ <<"unregister">> \o stack[t] = <<"unregister">>
    BY <1>1
  <2> QED
    BY <2>1
<1>3. CallerShape(p, k, refs[t]) /\ p \notin Beginnings /\ k \notin BeginsBelow
  BY <1>1, <1>2 DEF CallerShape, Dropping, Stops, Stopping, Beginnings, BeginsBelow
<1>4. Spared
  BY SameSpared DEF EngineInv
<1> QED
  BY <1>2, <1>3, <1>4, SameKeeps DEF EngineInv, EngineTypeOK, Kept

LEMMA StreamingKeeps == ASSUME EngineInv, NEW t \in Callers, Streaming(t) PROVE Kept'
<1>1. /\ pc[t] \in Begun /\ UNCHANGED <<refs, session, active>>
      /\ pc' = [pc EXCEPT ![t] = "drop"] /\ stack' = [stack EXCEPT ![t] = <<"return">> \o @]
  BY DEF Streaming, At, KeepSessions, Begun
<1> QED
  BY <1>1, BegunCalls

LEMMA StartFailedKeeps == ASSUME EngineInv, NEW t \in Callers, StartFailed(t) PROVE Kept'
<1>1. /\ pc[t] \in Begun /\ UNCHANGED <<refs, session, active>>
      /\ pc' = [pc EXCEPT ![t] = "stop"] /\ stack' = [stack EXCEPT ![t] = <<"unregister">> \o @]
  BY DEF StartFailed, At, KeepSessions, Begun, Call
<1> QED
  BY <1>1, BegunCalls

LEMMA UnregisterKeeps == ASSUME EngineInv, NEW t \in Callers, Unregister(t) PROVE Kept'
<1>1. /\ pc[t] \in Begun /\ UNCHANGED <<refs, session>> /\ active' \in {active, None}
      /\ pc' = [pc EXCEPT ![t] = "drop"] /\ stack' = [stack EXCEPT ![t] = <<"return">> \o @]
  BY DEF Unregister, At, Begun, Call
<1> QED
  BY <1>1, BegunCalls

\* The new session: nobody knew it, and it has no thread.
LEMMA RegisterKeeps == ASSUME EngineInv, NEW t \in Callers, Register(t) PROVE Kept'
<1>1. pc[t] = "register" /\ stack[t] = <<>> /\ refs[t] = <<>> /\ t \in Threads /\ t \notin Sessions
  BY CallerAt DEF EngineInv, Register, At
<1>2. PICK s \in Sessions :
        /\ ~session[s].made
        /\ session' = [session EXCEPT ![s] = NewSession]
        /\ active' = s
        /\ IF active # None /\ \A u \in Callers : active \notin Range(refs[u])
             THEN refs' = [refs EXCEPT ![t] = <<active, s>> \o @] /\ Call(t, "drop", "start")
             ELSE Hold(t, s) /\ Goto(t, "start")
  BY DEF Register
<1>3. active # None => active \in Sessions /\ active # s /\ session[active].made
  BY <1>2 DEF EngineInv, EngineTypeOK, Exists
<1>4. PICK p, k, r :
        /\ \/ p = "drop" /\ k = <<"start">> /\ r = <<active, s>> /\ active # None
           \/ p = "start" /\ k = <<>> /\ r = <<s>>
        /\ pc' = [pc EXCEPT ![t] = p] /\ stack' = [stack EXCEPT ![t] = k] /\ refs' = [refs EXCEPT ![t] = r]
  <2>1. CASE refs' = [refs EXCEPT ![t] = <<active, s>> \o @] /\ Call(t, "drop", "start") /\ active # None
    <3>1. <<active, s>> \o refs[t] = <<active, s>> /\ <<"start">> \o stack[t] = <<"start">>
      BY <1>1
    <3> QED
      BY <2>1, <3>1 DEF Call
  <2>2. CASE Hold(t, s) /\ Goto(t, "start")
    <3>1. <<s>> \o refs[t] = <<s>>
      BY <1>1
    <3>2. stack' = [stack EXCEPT ![t] = <<>>]
      BY <1>1, <2>2, Stays DEF Goto, EngineInv
    <3> QED
      BY <2>2, <3>1, <3>2 DEF Hold, Goto
  <2> QED
    BY <1>2, <2>1, <2>2
<1>5. CallerShape(p, k, r)
  BY <1>3, <1>4 DEF CallerShape, Begun, Dropping, One, Two
<1>6. Control'
  BY <1>4, <1>5, CallerGoes DEF EngineInv
<1>7. /\ pc'[t] = p /\ stack'[t] = k /\ refs'[t] = r
      /\ \A u \in Threads \ {t} : pc'[u] = pc[u] /\ stack'[u] = stack[u] /\ refs'[u] = refs[u]
  BY <1>1, <1>4 DEF EngineInv, Control
<1>8. /\ session'[s].made /\ ~session'[s].media
      /\ \A o \in Sessions \ {s} : session'[o] = session[o]
  BY <1>2 DEF EngineInv, EngineTypeOK, NewSession, NoSession
<1>9. \A u \in Callers \ {t} : \A i \in DOMAIN refs[u] : refs[u][i] \in Sessions /\ refs[u][i] # s
  <2> SUFFICES ASSUME NEW u \in Callers, NEW i \in DOMAIN refs[u] PROVE refs[u][i] \in Sessions /\ refs[u][i] # s
    OBVIOUS
  <2>1. refs[u] \in Seq(Sessions)
    BY CallerAt DEF EngineInv, Control
  <2>2. session[refs[u][i]].made
    BY DEF EngineInv, Exists
  <2> QED
    BY <1>2, <2>1, <2>2
<1>10. Exists'
  <2>1. \A i \in DOMAIN r : session'[r[i]].made
    BY <1>3, <1>4, <1>8
  <2>2. \A u \in Callers \ {t} : \A i \in DOMAIN refs'[u] : session'[refs'[u][i]].made
    BY <1>7, <1>8, <1>9 DEF EngineInv, Exists, Threads
  <2>3. \A o \in Sessions : pc'[o] # "idle" \/ session'[o].media => session'[o].made
    BY <1>1, <1>7, <1>8 DEF EngineInv, Exists, Threads
  <2>4. active' # None => session'[active'].made
    BY <1>2, <1>8
  <2> QED
    BY <1>7, <2>1, <2>2, <2>3, <2>4 DEF Exists
<1>11. Fresh'
  <2>1. \A o \in Sessions : Begins(t, o)' => o = s
    BY <1>4, <1>7 DEF Begins
  <2>2. \A u \in Callers \ {t}, o \in Sessions : Begins(u, o)' <=> Begins(u, o)
    BY <1>7 DEF Begins, Threads
  <2>3. \A u \in Callers \ {t} : ~Begins(u, s)
    BY <1>9 DEF Begins
  <2>4. pc[s] = "idle"
    BY <1>2 DEF EngineInv, Exists
  <2>5. \A o \in Sessions : pc'[o] = pc[o]
    BY <1>1, <1>7 DEF Threads
  <2>6. SUFFICES ASSUME NEW a \in Callers, NEW o \in Sessions, Begins(a, o)'
                 PROVE  pc'[o] = "idle" /\ \A u \in Callers \ {a} : ~Begins(u, o)'
    BY <2>6, Zenon DEF Fresh
  <2>7. CASE a = t
    BY <2>1, <2>2, <2>3, <2>4, <2>5, <2>6, <2>7
  <2>8. CASE a # t
    <3>1. Begins(a, o)
      BY <2>2, <2>6, <2>8
    <3>2. pc[o] = "idle" /\ \A u \in Callers \ {a} : ~Begins(u, o)
      BY <3>1 DEF EngineInv, Fresh
    <3>3. o # s
      BY <2>3, <2>8, <3>1
    <3> QED
      BY <2>1, <2>2, <2>5, <3>2, <3>3
  <2> QED
    BY <2>7, <2>8
<1> QED
  BY <1>6, <1>10, <1>11 DEF Kept

-----------------------------------------------------------------------------
(* The steps of CastSession::Stop and of a dropped reference.                *)

\* The destructor's Stop returns to the drop.
LEMMA DropStops ==
  ASSUME NEW k, NEW r, Dropping(k, r)
  PROVE  /\ Stopping(<<"drop">> \o k, r)
         /\ <<"drop">> \o k \in BeginsBelow => k \in BeginsBelow
<1>1. CASE k = <<"register">> /\ One(r)
  BY <1>1, PushOne DEF Stopping, BeginsBelow
<1>2. CASE k = <<"return">> /\ One(r)
  BY <1>2, PushOne DEF Stopping, BeginsBelow
<1>3. CASE k = <<"detached", "idle">> /\ One(r)
  BY <1>3, PushOneOfTwo DEF Stopping, BeginsBelow
<1>4. CASE k = <<"detached", "return">> /\ One(r)
  BY <1>4, PushOneOfTwo DEF Stopping, BeginsBelow
<1>5. CASE k = <<"start">> /\ Two(r)
  BY <1>5, PushOne DEF Stopping, BeginsBelow
<1> QED
  BY <1>1, <1>2, <1>3, <1>4, <1>5 DEF Dropping

\* Stop goes from step to step.
LEMMA StopGoes ==
  ASSUME Kept, active \in Sessions \cup {None}, NEW t \in Callers, pc[t] \in Stops, NEW p \in Stops,
         pc' = [pc EXCEPT ![t] = p], UNCHANGED <<stack, refs, active>>, Spared
  PROVE  Kept'
<1>1. CallerShape(p, stack[t], refs[t])
  BY CallerAt DEF CallerShape, Kept
<1>2. stack' = [stack EXCEPT ![t] = stack[t]]
  BY CallerAt, Stays DEF Kept
<1>3. p \notin Beginnings
  BY DEF Beginnings, Stops
<1> QED
  BY <1>1, <1>2, <1>3, SameKeeps

\* And returns.
LEMMA StopLeaves ==
  ASSUME Kept, active \in Sessions \cup {None}, NEW t \in Callers, pc[t] \in Stops,
         Return(t), UNCHANGED <<refs, active>>, Spared
  PROVE  Kept'
<1> DEFINE p == Head(stack[t])
           k == Tail(stack[t])
<1>1. Stopping(stack[t], refs[t])
  BY CallerAt DEF Kept
<1>2. CallerShape(p, k, refs[t])
  BY <1>1, StopReturns
<1>3. p \notin Beginnings /\ (k \in BeginsBelow => stack[t] \in BeginsBelow)
  <2>1. CASE stack[t] = <<"unregister">>
    BY <2>1 DEF Beginnings, BeginsBelow
  <2>2. CASE stack[t] = <<"drop", "register">>
    BY <2>2 DEF Beginnings, BeginsBelow
  <2>3. CASE stack[t] = <<"drop", "return">>
    BY <2>3 DEF Beginnings, BeginsBelow
  <2>4. CASE stack[t] = <<"drop", "detached", "idle">>
    <3>1. p = "drop" /\ k = <<"detached", "idle">>
      BY <2>4
    <3> QED
      BY <3>1 DEF Beginnings, BeginsBelow
  <2>5. CASE stack[t] = <<"drop", "detached", "return">>
    <3>1. p = "drop" /\ k = <<"detached", "return">>
      BY <2>5
    <3> QED
      BY <3>1 DEF Beginnings, BeginsBelow
  <2>6. CASE stack[t] = <<"drop", "start">>
    BY <2>6 DEF Beginnings, BeginsBelow
  <2> QED
    BY <1>1, <2>1, <2>2, <2>3, <2>4, <2>5, <2>6 DEF Stopping
<1>4. pc' = [pc EXCEPT ![t] = p] /\ stack' = [stack EXCEPT ![t] = k]
  BY DEF Return
<1> HIDE DEF p, k
<1> QED
  BY <1>2, <1>3, <1>4, SameKeeps

\* What a step of Stop does to the sessions, and where it goes.
LEMMA StopEffect ==
  ASSUME EngineInv, NEW t \in Threads, This(t) \in Sessions, StopSteps(t)
  PROVE  /\ pc[t] \in Stops /\ Spared /\ UNCHANGED <<refs, active, ok>>
         /\ Return(t) \/ \E p \in Stops : Goto(t, p)
<1>1. \A s \in Sessions : session[s].media => session[s].made
  BY DEF EngineInv, Exists
<1>2. CASE StopOnce(t)
  <2>1. session' = session \/ session' = [session EXCEPT ![This(t)].stop = TRUE, ![This(t)].frozen = FALSE]
    BY <1>2 DEF StopOnce
  <2>2. Spared
    BY <1>1, <2>1 DEF EngineInv, EngineTypeOK, Session, Spared
  <2> QED
    BY <1>2, <2>2 DEF StopOnce, At, Stops
<1>3. CASE Teardown(t)
  <2>1. session' = [session EXCEPT ![This(t)].media = FALSE, ![This(t)].recovering = FALSE]
    BY <1>3 DEF Teardown
  <2>2. Spared
    BY <1>1, <2>1 DEF EngineInv, EngineTypeOK, Session, Spared
  <2> QED
    BY <1>3, <2>2 DEF Teardown, At, Stops
<1>4. CASE Settle(t) \/ ToIdle(t)
  <2>1. Spared
    BY <1>1, <1>4 DEF Settle, ToIdle, KeepSessions, Spared
  <2> QED
    BY <1>4, <2>1 DEF Settle, ToIdle, KeepSessions, At, Stops
<1> QED
  BY <1>2, <1>3, <1>4 DEF StopSteps

LEMMA CallerStopKeeps == ASSUME EngineInv, NEW t \in Callers, StopSteps(t) PROVE Kept'
<1>1. pc[t] \in Stops
  BY DEF StopSteps, StopOnce, Teardown, Settle, ToIdle, At, Stops
<1>2. One(refs[t]) \/ Two(refs[t])
  BY <1>1, CallerAt DEF EngineInv, Stopping
<1>3. This(t) \in Sessions /\ t \in Threads
  BY <1>2, Holds DEF This, Threads
<1>4. /\ Spared /\ UNCHANGED <<refs, active>>
      /\ Return(t) \/ \E p \in Stops : Goto(t, p)
  BY <1>3, StopEffect
<1>5. CASE Return(t)
  BY <1>1, <1>4, <1>5, StopLeaves DEF EngineInv, EngineTypeOK, Kept
<1>6. CASE \E p \in Stops : Goto(t, p)
  <2>1. PICK p \in Stops : Goto(t, p)
    BY <1>6
  <2> QED
    BY <1>1, <1>4, <2>1, StopGoes DEF EngineInv, EngineTypeOK, Kept, Goto
<1> QED
  BY <1>4, <1>5, <1>6

\* A dropped reference: what is destroyed is nobody's.
LEMMA DropKeeps == ASSUME EngineInv, NEW t \in Callers, Drop(t) PROVE Kept'
<1> DEFINE s == This(t)
<1>1. pc[t] = "drop" /\ Dropping(stack[t], refs[t]) /\ t \in Threads /\ t \notin Sessions
  BY CallerAt DEF EngineInv, Drop, At
<1>2. One(refs[t]) \/ Two(refs[t])
  BY <1>1 DEF Dropping
<1>3. s \in Sessions
  BY <1>2, Holds DEF This
<1>4. active' = active
  BY DEF Drop
<1>5. CASE OnlyRef(t, s) /\ ~session[s].stop
  <2> DEFINE k == <<"drop">> \o stack[t]
  <2>1. pc' = [pc EXCEPT ![t] = "stop"] /\ stack' = [stack EXCEPT ![t] = k] /\ UNCHANGED <<refs, session>>
    BY <1>5 DEF Drop, Call
  <2>2. CallerShape("stop", k, refs[t]) /\ (k \in BeginsBelow => stack[t] \in BeginsBelow)
    BY <1>1, DropStops DEF CallerShape, Stops
  <2>3. Spared
    BY <2>1, SameSpared DEF EngineInv
  <2>4. "stop" \notin Beginnings
    BY DEF Beginnings
  <2> HIDE DEF k
  <2> QED
    BY <1>4, <2>1, <2>2, <2>3, <2>4, SameKeeps DEF EngineInv, EngineTypeOK, Kept
<1>6. CASE ~(OnlyRef(t, s) /\ ~session[s].stop)
  <2> DEFINE p == Head(stack[t])
             k == Tail(stack[t])
             r == Tail(refs[t])
  <2>1. /\ pc' = [pc EXCEPT ![t] = p] /\ stack' = [stack EXCEPT ![t] = k] /\ refs' = [refs EXCEPT ![t] = r]
        /\ OnlyRef(t, s) => pc[s] = "idle"
        /\ session' = IF OnlyRef(t, s) THEN [session EXCEPT ![s] = NoSession] ELSE session
    BY <1>6 DEF Drop, Return, LetGo
  <2>2. CallerShape(p, k, r)
    BY <1>1, DropReturns
  <2>3. /\ pc'[t] = p /\ stack'[t] = k /\ refs'[t] = r
        /\ \A u \in Threads \ {t} : pc'[u] = pc[u] /\ stack'[u] = stack[u] /\ refs'[u] = refs[u]
    BY <1>1, <2>1 DEF EngineInv, Control
  <2>4. \A o \in Sessions : Begins(t, o)' => Begins(t, o)
    <3>1. CASE stack[t] = <<"start">> /\ Two(refs[t])
      <4>1. PICK a \in Sessions, b \in Sessions : refs[t] = <<a, b>>
        BY <3>1 DEF Two
      <4>2. p = "start" /\ k = <<>> /\ r = <<b>>
        BY <3>1, <4>1
      <4>3. \A o \in Sessions : Begins(t, o)' => o = b
        BY <2>3, <4>2 DEF Begins
      <4>4. Begins(t, b)
        BY <3>1, <4>1 DEF Begins
      <4> QED
        BY <4>3, <4>4
    <3>2. CASE stack[t] \in {<<"register">>, <<"return">>}
      <4>1. p \in {"register", "return"} /\ k = <<>>
        <5>1. CASE stack[t] = <<"register">>
          BY <5>1
        <5>2. CASE stack[t] = <<"return">>
          BY <5>2
        <5> QED
          BY <3>2, <5>1, <5>2
      <4> HIDE DEF p, k, r
      <4>2. pc'[t] # "start" /\ pc'[t] # "connect" /\ stack'[t] \notin {<<"start">>, <<"drop", "start">>}
        BY <2>3, <4>1
      <4> QED
        BY <4>2 DEF Begins
    <3>3. CASE stack[t] \in {<<"detached", "idle">>, <<"detached", "return">>}
      <4>1. p = "detached" /\ k \in {<<"idle">>, <<"return">>}
        <5>1. CASE stack[t] = <<"detached", "idle">>
          BY <5>1
        <5>2. CASE stack[t] = <<"detached", "return">>
          BY <5>2
        <5> QED
          BY <3>3, <5>1, <5>2
      <4> HIDE DEF p, k, r
      <4>2. pc'[t] # "start" /\ pc'[t] # "connect" /\ stack'[t] \notin {<<"start">>, <<"drop", "start">>}
        BY <2>3, <4>1
      <4> QED
        BY <4>2 DEF Begins
    <3> QED
      BY <1>1, <3>1, <3>2, <3>3 DEF Dropping
  <2>5. Control'
    <3> HIDE DEF p, k, r
    <3> QED
      BY <2>1, <2>2, CallerGoes DEF EngineInv
  <2>6. Fresh'
    <3>1. \A u \in Callers \ {t} : pc'[u] = pc[u] /\ stack'[u] = stack[u] /\ refs'[u] = refs[u]
      BY <2>3 DEF Threads
    <3>2. \A o \in Sessions : pc'[o] = pc[o]
      BY <1>1, <2>3 DEF Threads
    <3> QED
      BY <2>4, <3>1, <3>2, FreshStays DEF EngineInv
  <2>7. \A i \in DOMAIN r : r[i] # s /\ i + 1 \in DOMAIN refs[t] /\ r[i] = refs[t][i + 1]
    BY <1>2, Holds DEF This
  <2>8. \A u \in Callers \ {t} : refs'[u] = refs[u] /\ refs[u] \in Seq(Sessions)
    BY <2>3 DEF EngineInv, Control, Threads
  <2>9. r \in Seq(Sessions)
    BY <1>2, Holds
  <2>10. CASE OnlyRef(t, s)
    <3>1. pc[s] = "idle" /\ active # s /\ session' = [session EXCEPT ![s] = NoSession]
      BY <2>1, <2>10 DEF OnlyRef
    <3>2. \A u \in Callers \ {t} : \A i \in DOMAIN refs[u] : refs[u][i] # s
      BY <2>10 DEF OnlyRef, Range
    <3>3. ~session'[s].media /\ \A o \in Sessions \ {s} : session'[o] = session[o]
      BY <1>3, <3>1 DEF EngineInv, EngineTypeOK, NoSession
    <3>4. \A i \in DOMAIN r : session'[r[i]].made
      <4> SUFFICES ASSUME NEW i \in DOMAIN r PROVE session'[r[i]].made
        OBVIOUS
      <4>1. session[refs[t][i + 1]].made /\ r[i] \in Sessions \ {s} /\ r[i] = refs[t][i + 1]
        BY <2>7, <2>9 DEF EngineInv, Exists
      <4> QED
        BY <3>3, <4>1
    <3>5. \A u \in Callers \ {t} : \A i \in DOMAIN refs'[u] : session'[refs'[u][i]].made
      <4> SUFFICES ASSUME NEW u \in Callers \ {t}, NEW i \in DOMAIN refs[u] PROVE session'[refs[u][i]].made
        BY <2>8
      <4>1. session[refs[u][i]].made /\ refs[u][i] \in Sessions \ {s}
        BY <2>8, <3>2 DEF EngineInv, Exists
      <4> QED
        BY <3>3, <4>1
    <3>6. active' # None => session'[active'].made
      BY <1>4, <3>1, <3>3 DEF EngineInv, EngineTypeOK, Exists
    <3>7. \A o \in Sessions : pc'[o] # "idle" \/ session'[o].media => session'[o].made
      BY <1>1, <2>3, <3>1, <3>3 DEF EngineInv, Exists, Threads
    <3>8. Exists'
      BY <2>3, <3>4, <3>5, <3>6, <3>7 DEF Exists
    <3> QED
      BY <2>5, <2>6, <3>8 DEF Kept
  <2>11. CASE ~OnlyRef(t, s)
    <3>1. session' = session
      BY <2>1, <2>11
    <3>2. \A i \in DOMAIN r : session[r[i]].made
      BY <2>7 DEF EngineInv, Exists
    <3>3. \A u \in Callers \ {t} : \A i \in DOMAIN refs'[u] : session[refs'[u][i]].made
      BY <2>8 DEF EngineInv, Exists
    <3>4. \A o \in Sessions : pc'[o] = pc[o]
      BY <1>1, <2>3 DEF Threads
    <3>5. Exists'
      BY <1>4, <2>3, <3>1, <3>2, <3>3, <3>4 DEF EngineInv, Exists
    <3> QED
      BY <2>5, <2>6, <3>5 DEF Kept
  <2> QED
    BY <2>10, <2>11
<1> QED
  BY <1>5, <1>6

-----------------------------------------------------------------------------
(* The steps of a session's own thread, and of the programs.                 *)

\* What a session's own place says.
LEMMA OwnAt ==
  ASSUME Control, NEW s \in Sessions
  PROVE  /\ s \in Threads /\ s \notin Callers /\ refs[s] \in Seq({s})
         /\ pc[s] \in {"idle", "watch", "retry", "recovered", "ended"} => stack[s] = <<>>
         /\ pc[s] \in Stops => stack[s] = <<"ended">> /\ refs[s] # <<>> /\ This(s) = s
<1>1. OwnShape(s, pc[s], stack[s], refs[s])
  BY DEF Control
<1>2. refs[s] # <<>> => This(s) = s
  BY <1>1 DEF OwnShape, This
<1> QED
  BY <1>1, <1>2 DEF OwnShape, Stops, Threads

\* Any step of a thread that exists, of a session that exists.
LEMMA OwnKeeps ==
  ASSUME Kept, active \in Sessions \cup {None}, NEW s \in Sessions, pc[s] # "idle",
         NEW p \in Labels, NEW k \in Seq(Labels), NEW r, OwnShape(s, p, k, r),
         pc' = [pc EXCEPT ![s] = p], stack' = [stack EXCEPT ![s] = k], refs' = [refs EXCEPT ![s] = r],
         Spared, active' = active
  PROVE  Kept'
<1>1. Control'
  BY OwnGoes DEF Kept
<1>2. /\ \A u \in Threads \ {s} : pc'[u] = pc[u] /\ stack'[u] = stack[u] /\ refs'[u] = refs[u]
      /\ s \in Threads /\ s \notin Callers
  BY OwnAt DEF Kept, Control, Threads
<1>3. \A u \in Callers : pc'[u] = pc[u] /\ stack'[u] = stack[u] /\ refs'[u] = refs[u]
  BY <1>2 DEF Threads
<1>4. \A o \in Sessions : pc[o] = "idle" => pc'[o] = "idle"
  BY <1>2 DEF Threads
<1>5. \A u \in Callers : \A i \in DOMAIN refs'[u] : session'[refs'[u][i]].made
  <2> SUFFICES ASSUME NEW u \in Callers, NEW i \in DOMAIN refs[u] PROVE session'[refs[u][i]].made
    BY <1>3
  <2>1. refs[u] \in Seq(Sessions)
    BY DEF Kept, Control, Threads
  <2>2. session[refs[u][i]].made /\ refs[u][i] \in Sessions
    BY <2>1 DEF Kept, Exists
  <2> QED
    BY <2>2 DEF Spared
<1>6. session[s].made
  BY DEF Kept, Exists
<1>7. \A o \in Sessions : pc'[o] # "idle" \/ session'[o].media => session'[o].made
  BY <1>4 DEF Kept, Exists, Spared
<1>8. active' # None => session'[active'].made
  BY DEF Kept, Exists, Spared
<1>9. Exists'
  BY <1>5, <1>7, <1>8 DEF Exists
<1>10. \A u \in Callers, o \in Sessions : Begins(u, o)' <=> Begins(u, o)
  BY <1>3 DEF Begins
<1>11. Fresh'
  <2> SUFFICES ASSUME NEW a \in Callers, NEW o \in Sessions, Begins(a, o)'
               PROVE  pc'[o] = "idle" /\ \A u \in Callers \ {a} : ~Begins(u, o)'
    BY Zenon DEF Fresh
  <2>1. Begins(a, o)
    BY <1>10
  <2>2. pc[o] = "idle" /\ \A u \in Callers \ {a} : ~Begins(u, o)
    BY <2>1 DEF Kept, Fresh
  <2> QED
    BY <1>4, <1>10, <2>2
<1> QED
  BY <1>1, <1>9, <1>11 DEF Kept

\* It goes on outside of Stop.
OwnPlaces == {"idle", "watch", "retry", "recovered", "ended"}

LEMMA OwnGoesOn ==
  ASSUME EngineInv, NEW s \in Sessions, pc[s] \in OwnPlaces \ {"idle"}, NEW p \in OwnPlaces,
         pc' = [pc EXCEPT ![s] = p], UNCHANGED <<stack, active>>,
         refs' = refs \/ refs' = [refs EXCEPT ![s] = <<>>], Spared
  PROVE  Kept'
<1>1. stack[s] = <<>> /\ refs[s] \in Seq({s}) /\ s \in Threads
  BY OwnAt DEF OwnPlaces, EngineInv
<1>2. stack' = [stack EXCEPT ![s] = stack[s]] /\ (refs' = refs => refs' = [refs EXCEPT ![s] = refs[s]])
  BY <1>1, Stays DEF EngineInv
<1>3. PICK r : r \in Seq({s}) /\ refs' = [refs EXCEPT ![s] = r]
  <2>1. CASE refs' = refs
    BY <1>1, <1>2, <2>1
  <2>2. CASE refs' = [refs EXCEPT ![s] = <<>>]
    <3>1. <<>> \in Seq({s})
      OBVIOUS
    <3> QED
      BY <2>2, <3>1
  <2> QED
    BY <2>1, <2>2
<1>4. p \in Labels /\ stack[s] \in Seq(Labels) /\ OwnShape(s, p, stack[s], r)
  BY <1>1, <1>3 DEF OwnShape, OwnPlaces, Labels
<1> QED
  BY <1>2, <1>3, <1>4, OwnKeeps DEF EngineInv, EngineTypeOK, Kept, OwnPlaces

LEMMA OwnStopKeeps == ASSUME EngineInv, NEW s \in Sessions, StopSteps(s) PROVE Kept'
<1>1. pc[s] \in Stops
  BY DEF StopSteps, StopOnce, Teardown, Settle, ToIdle, At, Stops
<1>2. stack[s] = <<"ended">> /\ refs[s] # <<>> /\ This(s) = s /\ s \in Threads /\ refs[s] \in Seq({s})
  BY <1>1, OwnAt DEF EngineInv
<1>3. /\ Spared /\ UNCHANGED <<refs, active>>
      /\ Return(s) \/ \E p \in Stops : Goto(s, p)
  BY <1>2, StopEffect
<1>4. refs' = [refs EXCEPT ![s] = refs[s]]
  BY <1>2, <1>3, Stays DEF EngineInv
<1>5. CASE Return(s)
  <2> DEFINE p == Head(stack[s])
             k == Tail(stack[s])
  <2>1. p = "ended" /\ k = <<>>
    BY <1>2
  <2>2. p \in Labels /\ k \in Seq(Labels) /\ OwnShape(s, p, k, refs[s])
    <3> HIDE DEF p, k
    <3> QED
      BY <1>2, <2>1 DEF OwnShape, Labels
  <2>3. pc' = [pc EXCEPT ![s] = p] /\ stack' = [stack EXCEPT ![s] = k]
    BY <1>5 DEF Return
  <2> HIDE DEF p, k
  <2> QED
    BY <1>1, <1>3, <1>4, <2>2, <2>3, OwnKeeps DEF EngineInv, EngineTypeOK, Kept, Stops
<1>6. CASE \E p \in Stops : Goto(s, p)
  <2>1. PICK p \in Stops : Goto(s, p)
    BY <1>6
  <2>2. p \in Labels /\ stack[s] \in Seq(Labels) /\ OwnShape(s, p, stack[s], refs[s])
    BY <1>2 DEF OwnShape, Labels, Stops, EngineInv, Control
  <2>3. pc' = [pc EXCEPT ![s] = p] /\ stack' = [stack EXCEPT ![s] = stack[s]]
    BY <1>2, <2>1, Stays DEF Goto, EngineInv
  <2> QED
    BY <1>1, <1>3, <1>4, <2>2, <2>3, OwnKeeps DEF EngineInv, EngineTypeOK, Kept, Stops
<1> QED
  BY <1>3, <1>5, <1>6

LEMMA RetryKeeps == ASSUME EngineInv, NEW s \in Sessions, Retry(s) PROVE Kept'
<1>1. pc[s] = "retry" /\ session[s].made
  BY DEF Retry, At, EngineInv, Exists
<1>2. CASE pc' = [pc EXCEPT ![s] = "recovered"] /\ session' = [session EXCEPT ![s].recovering = FALSE, ![s].media = TRUE]
  <2>1. Spared
    BY <1>1, <1>2 DEF EngineInv, EngineTypeOK, Session, Spared, Exists
  <2>2. UNCHANGED <<stack, active>> /\ refs' = refs
    BY DEF Retry, Goto
  <2> QED
    BY <1>1, <1>2, <2>1, <2>2, OwnGoesOn DEF OwnPlaces
<1>3. CASE pc' = pc /\ session' = [session EXCEPT ![s].media = FALSE]
  <2>1. Spared
    BY <1>1, <1>3 DEF EngineInv, EngineTypeOK, Session, Spared, Exists
  <2>2. UNCHANGED <<stack, active>> /\ refs' = refs
    BY DEF Retry, Goto
  <2>3. pc' = [pc EXCEPT ![s] = pc[s]]
    BY <1>3, OwnAt, Stays DEF EngineInv
  <2> QED
    BY <1>1, <2>1, <2>2, <2>3, OwnGoesOn DEF OwnPlaces
<1> QED
  BY <1>2, <1>3 DEF Retry, Goto

LEMMA RecoveredKeeps == ASSUME EngineInv, NEW s \in Sessions, Recovered(s) \/ End(s) PROVE Kept'
<1>1. pc[s] \in OwnPlaces \ {"idle"}
  BY DEF Recovered, End, At, OwnPlaces
<1>2. Spared
  BY SameSpared DEF Recovered, End, KeepSessions, EngineInv
<1>3. PICK p \in OwnPlaces : pc' = [pc EXCEPT ![s] = p]
  BY DEF Recovered, End, Goto, OwnPlaces
<1>4. UNCHANGED <<stack, active>> /\ (refs' = refs \/ refs' = [refs EXCEPT ![s] = <<>>])
  BY DEF Recovered, End, Goto, KeepSessions
<1> QED
  BY <1>1, <1>2, <1>3, <1>4, OwnGoesOn

LEMMA FailKeeps == ASSUME EngineInv, NEW s \in Sessions, Fail(s) PROVE Kept'
<1>1. pc[s] \in {"watch", "retry", "ended"}
  BY DEF Fail
<1>2. stack[s] = <<>> /\ refs[s] \in Seq({s}) /\ s \in Threads /\ pc[s] # "idle"
  BY <1>1, OwnAt DEF EngineInv
<1>3. session' = [session EXCEPT ![s].fail = TRUE]
  BY DEF Fail
<1>4. Spared
  BY <1>3 DEF EngineInv, EngineTypeOK, Session, Spared, Exists
<1> DEFINE r == <<s>> \o refs[s]
           k == <<"ended">> \o stack[s]
<1>5. k = <<"ended">> /\ r \in Seq({s}) /\ r # <<>>
  <2>1. k = <<"ended">>
    BY <1>2
  <2>2. <<s>> \in Seq({s})
    OBVIOUS
  <2>3. r \in Seq({s}) /\ Len(r) = 1 + Len(refs[s])
    BY <1>2, <2>2
  <2>4. Len(r) # 0
    BY <1>2, <2>3
  <2> QED
    BY <2>1, <2>3, <2>4
<1>6. pc' = [pc EXCEPT ![s] = "stop"] /\ stack' = [stack EXCEPT ![s] = k] /\ refs' = [refs EXCEPT ![s] = r]
  BY DEF Fail, Call, Hold
<1> HIDE DEF r, k
<1>7. "stop" \in Labels /\ k \in Seq(Labels) /\ OwnShape(s, "stop", k, r)
  BY <1>5 DEF Labels, OwnShape, Stops
<1> QED
  BY <1>2, <1>4, <1>6, <1>7, OwnKeeps DEF EngineInv, EngineTypeOK, Kept, Fail

LEMMA LoseKeeps == ASSUME EngineInv, NEW s \in Sessions, Lose(s) PROVE Kept'
<1>1. pc[s] = "watch"
  BY DEF Lose, At
<1>2. session' = [session EXCEPT ![s].recovering = TRUE, ![s].fail = FALSE]
  BY DEF Lose
<1>3. Spared
  BY <1>2 DEF EngineInv, EngineTypeOK, Session, Spared, Exists
<1>4. PICK p \in OwnPlaces : Goto(s, p)
  BY DEF Lose, OwnPlaces
<1> QED
  BY <1>1, <1>3, <1>4, OwnGoesOn DEF OwnPlaces, Goto, Lose

-----------------------------------------------------------------------------
(* Types.                                                                    *)

DataOK ==
  /\ state \in SessionStates /\ active \in Sessions \cup {None}
  /\ session \in [Sessions -> Session]
  /\ said \in [Threads -> SessionStates \cup {None}]
  /\ ok \in [Threads -> BOOLEAN]

\* Threads and what they hold are of their types.
LEMMA TypesOfControl == ASSUME DataOK, Control PROVE EngineTypeOK
<1>1. ASSUME NEW t \in Threads PROVE Range(stack[t]) \subseteq Labels /\ Range(refs[t]) \subseteq Sessions
  <2>1. stack[t] \in Seq(Labels) /\ refs[t] \in Seq(Sessions)
    BY DEF Control
  <2> QED
    BY <2>1 DEF Range
<1> QED
  BY <1>1 DEF DataOK, Control, EngineTypeOK

LEMMA DataOfTypes == ASSUME EngineTypeOK PROVE DataOK
BY DEF EngineTypeOK, DataOK

\* A transition, made or refused.
LEMMA Announces ==
  ASSUME DataOK, NEW t \in Threads, NEW to \in SessionStates, Transition(t, to) \/ Quietly
  PROVE  state' \in SessionStates /\ said' \in [Threads -> SessionStates \cup {None}]
BY DEF DataOK, Transition, Quietly

LEMMA StartData == ASSUME EngineInv, NEW t \in Callers, StartSteps(t) PROVE DataOK'
<1> USE DataOfTypes DEF EngineInv
<1>1. t \in Threads
  BY DEF Threads
<1>2. \E to \in SessionStates : Transition(t, to) \/ Quietly
  BY DEF StartSteps, Retire, Register, Begin, Connect, Launched, Answered, StartMedia, Streaming,
         StartFailed, Unregister, Quietly, SessionStates
<1>3. state' \in SessionStates /\ said' \in [Threads -> SessionStates \cup {None}]
  BY <1>1, <1>2, Announces
<1>4. pc[t] \in Begun => This(t) \in Sessions
  BY CallerAt, Holds DEF This
<1>5. active' \in Sessions \cup {None}
  BY DEF StartSteps, Retire, Register, Begin, Connect, Launched, Answered, StartMedia, Streaming,
         StartFailed, Unregister, KeepSessions, DataOK
<1>6. ok' \in [Threads -> BOOLEAN]
  BY <1>1 DEF StartSteps, Retire, Register, Begin, Connect, Launched, Answered, StartMedia, Streaming,
         StartFailed, Unregister, KeepSessions, DataOK
<1>7. session' \in [Sessions -> Session]
  <2>1. NewSession \in Session
    BY DEF NewSession, NoSession, Session
  <2>2. CASE Register(t)
    BY <2>1, <2>2 DEF Register, DataOK
  <2>3. CASE Begin(t)
    BY <1>4, <2>1, <2>3 DEF Begin, DataOK
  <2>4. CASE StartMedia(t)
    <3>1. session \in [Sessions -> Session] /\ This(t) \in Sessions
      BY <1>4, <2>4 DEF StartMedia, At, Begun, DataOK
    <3>2. session' = session \/ session' = [session EXCEPT ![This(t)].media = TRUE]
      BY <2>4 DEF StartMedia
    <3> QED
      BY ONLY <3>1, <3>2 DEF Session
  <2>5. CASE session' = session
    BY <2>5 DEF DataOK
  <2> QED
    BY <2>2, <2>3, <2>4, <2>5 DEF StartSteps, Retire, Connect, Launched, Answered, Streaming,
         StartFailed, Unregister, KeepSessions
<1> QED
  BY <1>3, <1>5, <1>6, <1>7 DEF DataOK

LEMMA StopData == ASSUME EngineInv, NEW t \in Threads, This(t) \in Sessions, StopSteps(t) PROVE DataOK'
<1> USE DataOfTypes DEF EngineInv
<1>0. session \in [Sessions -> Session]
  BY DEF DataOK
<1>1. \E to \in SessionStates : Transition(t, to) \/ Quietly
  BY DEF StopSteps, StopOnce, Teardown, Settle, ToIdle, SessionStates
<1>2. state' \in SessionStates /\ said' \in [Threads -> SessionStates \cup {None}]
  BY <1>1, Announces
<1>3. session' \in [Sessions -> Session]
  <2>1. CASE session' = session
    BY <1>0, <2>1
  <2>2. CASE session' = [session EXCEPT ![This(t)].stop = TRUE, ![This(t)].frozen = FALSE]
    BY ONLY <1>0, <2>2 DEF Session
  <2>3. CASE session' = [session EXCEPT ![This(t)].media = FALSE, ![This(t)].recovering = FALSE]
    BY ONLY <1>0, <2>3 DEF Session
  <2> QED
    BY <2>1, <2>2, <2>3 DEF StopSteps, StopOnce, Teardown, Settle, ToIdle, KeepSessions
<1>4. UNCHANGED <<active, ok>>
  BY DEF StopSteps, StopOnce, Teardown, Settle, ToIdle, KeepSessions
<1> QED
  BY <1>2, <1>3, <1>4 DEF DataOK

LEMMA CallData ==
  ASSUME EngineInv, NEW t \in Callers, NotFound(t) \/ Detach(t) \/ Detached(t) \/ Drop(t)
  PROVE  DataOK'
<1> USE DataOfTypes DEF EngineInv
<1>0. session \in [Sessions -> Session]
  BY DEF DataOK
<1>1. UNCHANGED <<state, said, ok>> /\ active' \in {active, None}
  BY DEF NotFound, Detach, Detached, Drop, Quietly, KeepSessions
<1>2. session' \in [Sessions -> Session]
  <2>1. session' = session \/ session' = [session EXCEPT ![This(t)] = NoSession]
    BY DEF NotFound, Detach, Detached, Drop, KeepSessions
  <2>2. NoSession \in Session
    BY DEF NoSession, Session
  <2> QED
    BY <2>1, <2>2 DEF DataOK
<1> QED
  BY <1>1, <1>2 DEF DataOK

LEMMA OwnData ==
  ASSUME EngineInv, NEW s \in Sessions, Retry(s) \/ Recovered(s) \/ Fail(s) \/ End(s) \/ Lose(s)
  PROVE  DataOK'
<1> USE DataOfTypes DEF EngineInv
<1>0. session \in [Sessions -> Session]
  BY DEF DataOK
<1>1. \E to \in SessionStates : Transition(s, to) \/ Quietly
  BY DEF Retry, Recovered, Fail, End, Lose, SessionStates
<1>2. state' \in SessionStates /\ said' \in [Threads -> SessionStates \cup {None}]
  BY <1>1, Announces DEF Threads
<1>3. UNCHANGED <<active, ok>>
  BY DEF Retry, Recovered, Fail, End, Lose, KeepSessions
<1>4. session' \in [Sessions -> Session]
  <2>1. CASE session' = session
    BY <1>0, <2>1
  <2>2. CASE session' = [session EXCEPT ![s].recovering = FALSE, ![s].media = TRUE]
    BY ONLY <1>0, <2>2 DEF Session
  <2>3. CASE session' = [session EXCEPT ![s].media = FALSE]
    BY ONLY <1>0, <2>3 DEF Session
  <2>4. CASE session' = [session EXCEPT ![s].fail = TRUE]
    BY ONLY <1>0, <2>4 DEF Session
  <2>5. CASE session' = [session EXCEPT ![s].recovering = TRUE, ![s].fail = FALSE]
    BY ONLY <1>0, <2>5 DEF Session
  <2> QED
    BY <2>1, <2>2, <2>3, <2>4, <2>5 DEF Retry, Recovered, Fail, End, Lose, KeepSessions
<1> QED
  BY <1>2, <1>3, <1>4 DEF DataOK

\* Together: what is kept and of its type is the invariant again.
LEMMA Together == ASSUME Kept', DataOK' PROVE EngineInv'
<1>1. EngineTypeOK'
  <2>1. ASSUME NEW t \in Threads PROVE Range(stack'[t]) \subseteq Labels /\ Range(refs'[t]) \subseteq Sessions
    <3>1. stack'[t] \in Seq(Labels) /\ refs'[t] \in Seq(Sessions)
      BY DEF Control, Kept
    <3> QED
      BY <3>1 DEF Range
  <2> QED
    BY <2>1 DEF DataOK, Control, EngineTypeOK, Kept
<1> QED
  BY <1>1 DEF EngineInv, Kept

-----------------------------------------------------------------------------
(* The engine under the programs.                                            *)

LEMMA EngineStepsKeep == ASSUME EngineInv, NEW t \in Callers, EngineSteps(t) PROVE EngineInv'
<1>1. CASE StartSteps(t)
  <2>1. Kept'
    BY <1>1, RetireKeeps, RegisterKeeps, BeginKeeps, ConnectKeeps, LaunchedKeeps, StartMediaKeeps,
       StreamingKeeps, StartFailedKeeps, UnregisterKeeps DEF StartSteps
  <2> QED
    BY <1>1, <2>1, StartData, Together
<1>2. CASE StopSteps(t)
  <2>1. pc[t] \in Stops
    BY <1>2 DEF StopSteps, StopOnce, Teardown, Settle, ToIdle, At, Stops
  <2>2. This(t) \in Sessions /\ t \in Threads
    BY <2>1, CallerAt, Holds DEF EngineInv, Stopping, This
  <2> QED
    BY <1>2, <2>2, CallerStopKeeps, StopData, Together
<1>3. CASE NotFound(t) \/ Detach(t) \/ Detached(t) \/ Drop(t)
  BY <1>3, NotFoundKeeps, DetachKeeps, DetachedKeeps, DropKeeps, CallData, Together
<1> QED
  BY <1>1, <1>2, <1>3 DEF EngineSteps

LEMMA OwnStepsKeep == ASSUME EngineInv, NEW s \in Sessions, OwnSteps(s) \/ Lose(s) PROVE EngineInv'
<1>1. CASE StopSteps(s)
  <2>1. pc[s] \in Stops
    BY <1>1 DEF StopSteps, StopOnce, Teardown, Settle, ToIdle, At, Stops
  <2>2. This(s) \in Sessions /\ s \in Threads
    BY <2>1, OwnAt DEF EngineInv
  <2> QED
    BY <1>1, <2>2, OwnStopKeeps, StopData, Together
<1>2. CASE Retry(s) \/ Recovered(s) \/ Fail(s) \/ End(s) \/ Lose(s)
  <2>1. Kept'
    BY <1>2, RetryKeeps, RecoveredKeeps, FailKeeps, LoseKeeps
  <2> QED
    BY <1>2, <2>1, OwnData, Together
<1> QED
  BY <1>1, <1>2 DEF OwnSteps

\* An idle thread calls StartCasting.
LEMMA StartsCast == ASSUME EngineInv, NEW t \in Callers, pc[t] = "idle", StartCasting(t) PROVE EngineInv'
<1> USE DataOfTypes DEF EngineInv
<1>1. stack[t] = <<>> /\ refs[t] = <<>> /\ t \in Threads
  BY CallerAt
<1>2. /\ pc' = [pc EXCEPT ![t] = "retire"] /\ UNCHANGED <<state, active, session, stack, refs, said>>
      /\ ok' = [ok EXCEPT ![t] = FALSE]
  BY DEF StartCasting
<1>3. stack' = [stack EXCEPT ![t] = stack[t]] /\ refs' = [refs EXCEPT ![t] = <<>>]
  BY <1>1, <1>2, Stays
<1>4. CallerShape("retire", stack[t], <<>>) /\ "retire" \notin Beginnings /\ stack[t] \notin BeginsBelow
  BY <1>1 DEF CallerShape, Beginnings, BeginsBelow
<1>5. Kept'
  BY <1>2, <1>3, <1>4, FreeKeeps DEF Kept, DataOK
<1>6. DataOK'
  BY <1>1, <1>2 DEF DataOK
<1> QED
  BY <1>5, <1>6, Together

\* An idle thread calls StopCasting.
LEMMA StopsCast ==
  ASSUME EngineInv, NEW t \in Callers, pc[t] = "idle", NEW after \in {"idle", "return"}, StopCasting(t, after)
  PROVE  EngineInv'
<1> USE DataOfTypes DEF EngineInv
<1>1. stack[t] = <<>> /\ refs[t] = <<>> /\ t \in Threads
  BY CallerAt
<1> DEFINE k == <<after>> \o stack[t]
<1>2. /\ pc' = [pc EXCEPT ![t] = "detach"] /\ stack' = [stack EXCEPT ![t] = k]
      /\ UNCHANGED <<state, active, session, refs, said, ok>>
  BY DEF StopCasting, Call
<1>3. refs' = [refs EXCEPT ![t] = <<>>]
  BY <1>1, <1>2, Stays
<1>4. k = <<after>>
  BY <1>1
<1> HIDE DEF k
<1>5. CallerShape("detach", k, <<>>) /\ "detach" \notin Beginnings /\ k \notin BeginsBelow
  BY <1>4 DEF CallerShape, Beginnings, BeginsBelow
<1>6. Kept'
  BY <1>2, <1>3, <1>5, FreeKeeps DEF Kept, DataOK
<1>7. DataOK'
  BY <1>2 DEF DataOK
<1> QED
  BY <1>6, <1>7, Together

\* Nothing of the engine changes, or only what is announced and the switches.
LEMMA EngineSame ==
  ASSUME EngineInv, UNCHANGED <<state, active, session, pc, stack, refs, ok>>,
         said' = said \/ \E t \in Threads : said' = [said EXCEPT ![t] = None]
  PROVE  EngineInv'
<1> USE DataOfTypes DEF EngineInv
<1>1. DataOK'
  BY DEF DataOK
<1>2. Control'
  BY DEF Control
<1>3. Exists'
  BY DEF Exists
<1>4. \A t \in Callers, s \in Sessions : Begins(t, s)' <=> Begins(t, s)
  BY DEF Begins
<1>5. Fresh'
  BY <1>4 DEF Fresh
<1> QED
  BY <1>1, <1>2, <1>3, <1>5, Together DEF Kept

LEMMA FreezeKeeps ==
  ASSUME EngineInv, NEW value \in BOOLEAN, SetFreezeStream(value) PROVE EngineInv'
<1> USE DataOfTypes DEF EngineInv
<1>0. session \in [Sessions -> Session] /\ active \in Sessions \cup {None}
  BY DEF DataOK
<1>1. /\ UNCHANGED <<state, active, pc, stack, refs, ok, said>>
      /\ session' = IF active = None THEN session ELSE [session EXCEPT ![active].frozen = value]
  BY DEF SetFreezeStream, control
<1>2. session' \in [Sessions -> Session]
  BY ONLY <1>0, <1>1 DEF Session
<1>3. \A s \in Sessions : session'[s].made = session[s].made /\ session'[s].media = session[s].media
  BY <1>0, <1>1 DEF Session
<1>4. DataOK'
  BY <1>1, <1>2 DEF DataOK
<1>5. Control'
  BY <1>1 DEF Control
<1>6. Exists'
  <2>1. \A u \in Callers : \A i \in DOMAIN refs[u] : refs[u][i] \in Sessions
    BY DEF Control, Threads
  <2> QED
    BY <1>0, <1>1, <1>3, <2>1 DEF Exists
<1>7. \A t \in Callers, s \in Sessions : Begins(t, s)' <=> Begins(t, s)
  BY <1>1 DEF Begins
<1>8. Fresh'
  BY <1>1, <1>7 DEF Fresh
<1> QED
  BY <1>4, <1>5, <1>6, <1>8, Together DEF Kept

\* A call returns to its thread.
LEMMA ReturnsKeep == ASSUME EngineInv, NEW t \in Callers, Returns(t) PROVE EngineInv'
<1> USE DataOfTypes DEF EngineInv
<1>1. refs[t] = <<>> /\ t \in Threads
  BY CallerAt DEF Returns, At
<1>2. /\ pc' = [pc EXCEPT ![t] = "idle"] /\ stack' = [stack EXCEPT ![t] = <<>>]
      /\ ok' = [ok EXCEPT ![t] = FALSE] /\ UNCHANGED <<state, active, session, refs, said>>
  BY DEF Returns
<1>3. refs' = [refs EXCEPT ![t] = <<>>]
  BY <1>1, <1>2, Stays
<1> DEFINE k == <<>>
<1>4. CallerShape("idle", k, <<>>) /\ "idle" \notin Beginnings /\ k \notin BeginsBelow
  BY DEF CallerShape, Beginnings, BeginsBelow
<1>5. stack' = [stack EXCEPT ![t] = k]
  BY <1>2
<1> HIDE DEF k
<1>6. Kept'
  BY <1>2, <1>3, <1>4, <1>5, FreeKeeps DEF Kept, DataOK
<1>7. DataOK'
  BY <1>1, <1>2 DEF DataOK
<1> QED
  BY <1>6, <1>7, Together

LEMMA EngineInvInit == Init => EngineInv
<1> SUFFICES ASSUME Init PROVE EngineInv
  OBVIOUS
<1> USE DEF Init, EngineInit
<1>1. DataOK
  BY DEF DataOK, SessionStates, NoSession, Session
<1>2. \A t \in Threads : pc[t] = "idle" /\ stack[t] = <<>> /\ refs[t] = <<>>
  BY DEF Threads
<1>3. CallerShape("idle", <<>>, <<>>)
  BY DEF CallerShape
<1>4. \A s \in Sessions : OwnShape(s, "idle", <<>>, <<>>)
  BY DEF OwnShape
<1>5. Control
  <2>1. pc \in [Threads -> Labels] /\ stack \in [Threads -> Seq(Labels)] /\ refs \in [Threads -> Seq(Sessions)]
    BY DEF Labels
  <2> QED
    BY <1>2, <1>3, <1>4, <2>1 DEF Control, Threads
<1>6. Exists
  BY <1>2 DEF Exists, NoSession, Threads
<1>7. Fresh
  BY <1>2 DEF Fresh, Begins, Threads
<1> QED
  BY <1>1, <1>5, <1>6, <1>7, TypesOfControl DEF EngineInv

LEMMA EngineInvNext == EngineInv /\ TypeOK /\ [Next]_vars => EngineInv'
<1> SUFFICES ASSUME EngineInv, TypeOK, [Next]_vars PROVE EngineInv'
  OBVIOUS
<1>1. ASSUME NEW t \in Callers, Engine(t) PROVE EngineInv'
  <2>1. CASE EngineSteps(t)
    BY <2>1, EngineStepsKeep
  <2>2. CASE Returns(t)
    BY <2>2, ReturnsKeep
  <2>3. CASE Heard(t)
    <3>1. UNCHANGED <<state, active, session, pc, stack, refs, ok>>
      BY <2>3 DEF Heard, WinTold, Entering, Leaving, GtkTold, CliTold, Told, control, engineVars
    <3>2. said' = said \/ said' = [said EXCEPT ![t] = None]
      BY <2>3 DEF Heard, WinTold, Entering, Leaving, GtkTold, CliTold, Told, engineVars
    <3> QED
      BY <3>1, <3>2, EngineSame DEF Threads
  <2> QED
    BY <1>1, <2>1, <2>2, <2>3 DEF Engine
<1>2. ASSUME NEW s \in Sessions, Own(s) \/ Lost(s) PROVE EngineInv'
  <2>1. CASE OwnSteps(s) \/ Lose(s)
    BY <2>1, OwnStepsKeep
  <2>2. CASE Heard(s)
    <3>1. UNCHANGED <<state, active, session, pc, stack, refs, ok>>
      BY <2>2 DEF Heard, WinTold, Entering, Leaving, GtkTold, CliTold, Told, control, engineVars
    <3>2. said' = said \/ said' = [said EXCEPT ![s] = None]
      BY <2>2 DEF Heard, WinTold, Entering, Leaving, GtkTold, CliTold, Told, engineVars
    <3> QED
      BY <3>1, <3>2, EngineSame DEF Threads
  <2> QED
    BY <1>2, <2>1, <2>2 DEF Own, Lost
<1>3. ASSUME UiSteps PROVE EngineInv'
  <2>1. CASE ApplyPosted \/ CloseAlert
    BY <2>1, EngineSame DEF ApplyPosted, CloseAlert, engineVars, control
  <2>2. CASE WinToggle
    BY <2>2, StartsCast, StopsCast DEF WinToggle
  <2>3. CASE GtkToggle
    BY <2>3, StartsCast, StopsCast DEF GtkToggle, UiIdle, MayStart
  <2>4. CASE GtkTray
    BY <2>4, StartsCast, StopsCast DEF GtkTray, UiIdle, MayStart
  <2>5. CASE Freeze
    <3>1. toggle' \in BOOLEAN /\ SetFreezeStream(toggle')
      BY <2>5 DEF Freeze, TypeOK
    <3> QED
      BY <3>1, FreezeKeeps
  <2>6. CASE CliCasts \/ CliStops
    BY <2>6, StartsCast, StopsCast DEF CliCasts, CliStops, UiIdle
  <2> QED
    BY <1>3, <2>1, <2>2, <2>3, <2>4, <2>5, <2>6 DEF UiSteps
<1>4. ASSUME QuitSteps PROVE EngineInv'
  <2>1. CASE Quit \/ TrayJoined \/ Cleared \/ Waited
    BY <2>1, EngineSame DEF Quit, TrayJoined, Cleared, Waited, engineVars, control
  <2>2. CASE QuitStops \/ EngineShutdown
    BY <2>2, StopsCast DEF QuitStops, EngineShutdown, Quits
  <2> QED
    BY <1>4, <2>1, <2>2 DEF QuitSteps
<1>5. CASE UNCHANGED vars
  BY <1>5, EngineSame DEF vars, engineVars, control
<1> QED
  BY <1>1, <1>2, <1>3, <1>4, <1>5 DEF Next

-----------------------------------------------------------------------------
(* Types of the programs, and the end of a program.                          *)

\* A thread that works in the engine leaves the others where they are.
LEMMA Apart ==
  ASSUME EngineInv, NEW t \in Callers, EngineSteps(t)
  PROVE  /\ pc[t] \notin {"idle", "return"}
         /\ \A u \in Callers \ {t} : pc'[u] = pc[u] /\ stack'[u] = stack[u] /\ refs'[u] = refs[u]
<1>1. /\ pc \in [Threads -> Labels] /\ stack \in [Threads -> Seq(Labels)] /\ refs \in [Threads -> Seq(Sessions)]
      /\ \A u \in Callers : u \in Threads /\ u \notin Sessions
  BY DEF EngineInv, Control, Threads
<1>2. pc[t] \notin {"idle", "return"}
  BY DEF EngineSteps, StartSteps, NotFound, Detach, Detached, Drop, StopSteps, Retire, Register, Begin,
         Connect, Launched, Answered, StartMedia, Streaming, StartFailed, Unregister,
         StopOnce, Teardown, Settle, ToIdle, At
<1>3. (\E p : pc' = [pc EXCEPT ![t] = p]) \/ Connect(t)
  BY DEF EngineSteps, StartSteps, NotFound, Detach, Detached, Drop, StopSteps, Retire, Register, Begin,
         Launched, Answered, StartMedia, Streaming, StartFailed, Unregister,
         StopOnce, Teardown, Settle, ToIdle, Goto, Call, Return
<1>4. (\E k : stack' = [stack EXCEPT ![t] = k]) \/ stack' = stack
  BY DEF EngineSteps, StartSteps, NotFound, Detach, Detached, Drop, StopSteps, Retire, Register, Begin,
         Connect, Launched, Answered, StartMedia, Streaming, StartFailed, Unregister,
         StopOnce, Teardown, Settle, ToIdle, Goto, Call, Return
<1>5. (\E r : refs' = [refs EXCEPT ![t] = r]) \/ refs' = refs
  BY DEF EngineSteps, StartSteps, NotFound, Detach, Detached, Drop, StopSteps, Retire, Register, Begin,
         Connect, Launched, Answered, StartMedia, Streaming, StartFailed, Unregister,
         StopOnce, Teardown, Settle, ToIdle, Hold, LetGo
<1>6. \A u \in Callers \ {t} : stack'[u] = stack[u] /\ refs'[u] = refs[u]
  BY <1>1, <1>4, <1>5
<1>7. CASE \E p : pc' = [pc EXCEPT ![t] = p]
  BY <1>1, <1>2, <1>6, <1>7
<1>8. CASE Connect(t)
  <2>1. This(t) \in Sessions
    BY <1>8, CallerAt, Holds DEF Connect, At, Begun, This, EngineInv
  <2>2. \A u \in Callers \ {t} : pc'[u] = pc[u]
    BY <1>1, <1>8, <2>1 DEF Connect, Goto
  <2> QED
    BY <1>2, <1>6, <2>2
<1> QED
  BY <1>3, <1>7, <1>8

\* So does a session's own thread.
LEMMA OwnApart ==
  ASSUME EngineInv, NEW s \in Sessions, OwnSteps(s) \/ Lose(s)
  PROVE  \A u \in Callers : pc'[u] = pc[u] /\ stack'[u] = stack[u] /\ refs'[u] = refs[u]
<1>1. /\ pc \in [Threads -> Labels] /\ stack \in [Threads -> Seq(Labels)] /\ refs \in [Threads -> Seq(Sessions)]
      /\ \A u \in Callers : u \in Threads /\ u \notin Sessions
  BY DEF EngineInv, Control, Threads
<1>2. (\E p : pc' = [pc EXCEPT ![s] = p]) \/ pc' = pc
  BY DEF OwnSteps, StopSteps, Retry, Recovered, Fail, End, Lose, StopOnce, Teardown, Settle, ToIdle,
         Goto, Call, Return
<1>3. (\E k : stack' = [stack EXCEPT ![s] = k]) \/ stack' = stack
  BY DEF OwnSteps, StopSteps, Retry, Recovered, Fail, End, Lose, StopOnce, Teardown, Settle, ToIdle,
         Goto, Call, Return
<1>4. (\E r : refs' = [refs EXCEPT ![s] = r]) \/ refs' = refs
  BY DEF OwnSteps, StopSteps, Retry, Recovered, Fail, End, Lose, StopOnce, Teardown, Settle, ToIdle, Hold
<1> QED
  BY <1>1, <1>2, <1>3, <1>4

\* A transition is heard by the program and changes nothing of the engine.
LEMMA HearsOnly ==
  ASSUME NEW t, Heard(t)
  PROVE  /\ UNCHANGED <<state, active, session, pc, stack, refs, ok>>
         /\ UNCHANGED <<program, pending, registered, gaveUp, quitting>>
  BY DEF Heard, WinTold, Entering, Leaving, GtkTold, CliTold, Told, control, engineVars, appVars, apiVars

AppsData ==
  /\ program \in Programs
  /\ posts \in Seq(Posted)
  /\ shown \in SessionStates
  /\ pending \in BOOLEAN /\ toggle \in BOOLEAN /\ alert \in BOOLEAN
  /\ registered \in BOOLEAN /\ inside \subseteq Threads /\ gaveUp \in BOOLEAN
  /\ quitting \in {"no", "tray", "stop", "clear", "wait", "engine", "gone"}

AppsInv == EngineInv /\ AppsData

LEMMA AppsTypes == ASSUME AppsInv PROVE TypeOK
<1>1. Range(posts) \subseteq Posted
  <2>1. posts \in Seq(Posted)
    BY DEF AppsInv, AppsData
  <2> QED
    BY <2>1 DEF Range
<1> QED
  BY <1>1 DEF AppsInv, AppsData, EngineInv, TypeOK

LEMMA AppsDataNext == AppsInv /\ [Next]_vars => AppsData'
<1> SUFFICES ASSUME AppsInv, [Next]_vars PROVE AppsData'
  OBVIOUS
<1> USE DEF AppsInv
<1>0. said \in [Threads -> SessionStates \cup {None}] /\ state \in SessionStates
  BY DEF EngineInv, EngineTypeOK
<1>1. ASSUME NEW t \in Threads, Heard(t) PROVE AppsData'
  <2>1. said[t] # None => said[t] \in SessionStates /\ said[t] \in Posted
    BY <1>0 DEF Posted
  <2>2. CASE WinTold(t)
    <3>1. posts' \in Seq(Posted)
      BY <2>1, <2>2 DEF WinTold, Post, AppsData
    <3> QED
      BY <2>2, <3>1 DEF WinTold, AppsData, apiVars
  <2>3. CASE Entering(t) \/ Leaving(t)
    BY <2>3 DEF Entering, Leaving, AppsData
  <2>4. CASE GtkTold(t)
    <3>1. posts' \in Seq(Posted)
      BY <2>1, <2>4 DEF GtkTold, Post, AppsData
    <3>2. shown' \in SessionStates /\ toggle' \in BOOLEAN
      BY <2>1, <2>4 DEF GtkTold, Show, AppsData
    <3> QED
      BY <2>4, <3>1, <3>2 DEF GtkTold, AppsData, apiVars
  <2>5. CASE CliTold(t)
    BY <2>5 DEF CliTold, appVars, apiVars, AppsData
  <2> QED
    BY <1>1, <2>2, <2>3, <2>4, <2>5 DEF Heard
<1>2. ASSUME UNCHANGED appVars PROVE AppsData'
  BY <1>2 DEF appVars, apiVars, AppsData
<1>3. ASSUME NEW t \in Callers, Returns(t) PROVE AppsData'
  <2>1. posts' \in Seq(Posted)
    <3>1. "returned" \in Posted /\ "failed" \in Posted
      BY DEF Posted
    <3>2. posts \in Seq(Posted)
      BY DEF AppsData
    <3>3. posts' = Append(posts, "returned") \/ posts' = Append(posts, "failed") \/ posts' = posts
      BY <1>3 DEF Returns, Post
    <3> QED
      BY <3>1, <3>2, <3>3
  <2> QED
    BY <1>3, <2>1 DEF Returns, AppsData, apiVars
<1>4. ASSUME UiSteps PROVE AppsData'
  <2>1. CASE ApplyPosted
    <3>1. posts' \in Seq(Posted) /\ Head(posts) \in Posted
      BY <2>1 DEF ApplyPosted, AppsData
    <3>2. shown' \in SessionStates /\ toggle' \in BOOLEAN
      BY <2>1 DEF ApplyPosted, Show, AppsData
    <3>3. pending' \in BOOLEAN /\ alert' \in BOOLEAN
      BY <2>1 DEF ApplyPosted, AppsData
    <3> QED
      BY <2>1, <3>1, <3>2, <3>3 DEF ApplyPosted, AppsData, apiVars
  <2>2. CASE WinToggle
    BY <2>2 DEF WinToggle, AppsData, apiVars
  <2>3. CASE GtkToggle \/ GtkTray \/ CliCasts \/ CliStops
    BY <1>2, <2>3 DEF GtkToggle, GtkTray, CliCasts, CliStops
  <2>4. CASE CloseAlert
    BY <2>4 DEF CloseAlert, AppsData, apiVars
  <2>5. CASE Freeze
    BY <2>5 DEF Freeze, AppsData, apiVars
  <2> QED
    BY <1>4, <2>1, <2>2, <2>3, <2>4, <2>5 DEF UiSteps
<1>5. ASSUME QuitSteps PROVE AppsData'
  <2>1. CASE Quit
    <3>1. posts' \in Seq(Posted) /\ shown' \in SessionStates
      BY <2>1 DEF Quit, SessionStates
    <3> QED
      BY <2>1, <3>1 DEF Quit, Quits, AppsData
  <2>2. CASE TrayJoined \/ QuitStops \/ Cleared \/ Waited \/ EngineShutdown
    BY <2>2 DEF TrayJoined, QuitStops, Cleared, Waited, EngineShutdown, Quits, AppsData
  <2> QED
    BY <1>5, <2>1, <2>2 DEF QuitSteps
<1>6. CASE UNCHANGED vars
  BY <1>2, <1>6 DEF vars
<1> QED
  BY <1>1, <1>2, <1>3, <1>4, <1>5, <1>6 DEF Next, Engine, Own, Lost, Threads

LEMMA AppsInvAlways == Spec => []AppsInv
<1>1. Init => AppsInv
  <2> SUFFICES ASSUME Init PROVE AppsData
    BY EngineInvInit DEF AppsInv
  <2>1. posts \in Seq(Posted)
    BY DEF Init
  <2>2. /\ program \in Programs /\ shown \in SessionStates
        /\ pending \in BOOLEAN /\ toggle \in BOOLEAN /\ alert \in BOOLEAN
    BY DEF Init, SessionStates
  <2>3. /\ registered \in BOOLEAN /\ inside \subseteq Threads /\ gaveUp \in BOOLEAN
        /\ quitting \in {"no", "tray", "stop", "clear", "wait", "engine", "gone"}
    BY DEF Init
  <2> QED
    BY <2>1, <2>2, <2>3 DEF AppsData
<1>2. AppsInv /\ [Next]_vars => AppsInv'
  BY AppsTypes, EngineInvNext, AppsDataNext DEF AppsInv
<1> QED
  BY <1>1, <1>2, PTL DEF Spec

\* The variables of the engine and of the programs have their types.
THEOREM AppsTypeCorrect == Spec => []TypeOK
BY AppsInvAlways, AppsTypes, PTL

\* No call, and no registration, refers to a CastSession that is destroyed; only
\* one that exists has a thread or streams; and Start begins a session once.
THEOREM NothingDangles == Spec => [](Exists /\ Fresh)
<1>1. AppsInv => Exists /\ Fresh
  BY DEF AppsInv, EngineInv
<1> QED
  BY <1>1, AppsInvAlways, PTL

\* The tray's thread, once it is joined, does not start again; programs without
\* a tray never start it.
TrayDone == quitting \in {"stop", "clear", "wait", "engine", "gone"} \/ ~Gtk => pc["tray"] = "idle"

LEMMA TrayDoneNext == AppsInv /\ TrayDone /\ [Next]_vars => TrayDone'
<1> SUFFICES ASSUME AppsInv, TrayDone, [Next]_vars PROVE TrayDone'
  OBVIOUS
<1> USE DEF AppsInv
<1>0. /\ "tray" \in Callers /\ "ui" \in Callers /\ "tray" \in Threads /\ "tray" \notin Starters
      /\ pc \in [Threads -> Labels] /\ program \in {"winui", "gtk", "cli"}
  BY DEF Threads, EngineInv, Control, AppsData
<1>1. CASE UNCHANGED <<program, quitting>> /\ (pc["tray"] = "idle" => pc'["tray"] = "idle")
  BY <1>1 DEF TrayDone, Gtk
<1>2. ASSUME NEW t \in Callers, Engine(t) PROVE TrayDone'
  <2>1. CASE EngineSteps(t) /\ UNCHANGED appVars
    <3>1. pc["tray"] = "idle" => t # "tray" /\ pc'["tray"] = "idle"
      BY <1>0, <2>1, Apart
    <3> QED
      BY <1>1, <2>1, <3>1 DEF appVars, apiVars
  <2>2. CASE Returns(t)
    BY <1>0, <1>1, <2>2 DEF Returns, apiVars
  <2>3. CASE Heard(t)
    BY <1>1, <2>3, HearsOnly
  <2> QED
    BY <1>2, <2>1, <2>2, <2>3 DEF Engine
<1>3. ASSUME NEW s \in Sessions, Own(s) \/ Lost(s) PROVE TrayDone'
  <2>1. CASE (OwnSteps(s) \/ Lose(s)) /\ UNCHANGED appVars
    <3>1. pc'["tray"] = pc["tray"]
      BY <1>0, <2>1, OwnApart
    <3> QED
      BY <1>1, <2>1, <3>1 DEF appVars, apiVars
  <2>2. CASE Heard(s)
    BY <1>1, <2>2, HearsOnly
  <2> QED
    BY <1>3, <2>1, <2>2 DEF Own, Lost
<1>4. ASSUME UiSteps PROVE TrayDone'
  <2>1. CASE ApplyPosted \/ CloseAlert
    BY <1>1, <2>1 DEF ApplyPosted, CloseAlert, apiVars, engineVars, control
  <2>2. CASE WinToggle
    BY <1>0, <1>1, <2>2 DEF WinToggle, StartCasting, StopCasting, Call, apiVars
  <2>3. CASE GtkToggle
    <3>1. pc'["tray"] = pc["tray"]
      BY <1>0, <2>3 DEF GtkToggle, StartCasting, StopCasting, Call
    <3> QED
      BY <1>1, <2>3, <3>1 DEF GtkToggle, appVars, apiVars
  <2>4. CASE GtkTray
    <3>1. Gtk' /\ quitting' = "no"
      BY <2>4 DEF GtkTray, Gtk, UiIdle, appVars, apiVars
    <3> QED
      BY <3>1 DEF TrayDone
  <2>5. CASE Freeze
    BY <1>1, <2>5 DEF Freeze, SetFreezeStream, control, apiVars
  <2>6. CASE CliCasts \/ CliStops
    <3>1. pc'["tray"] = pc["tray"]
      BY <1>0, <2>6 DEF CliCasts, CliStops, StartCasting, StopCasting, Call
    <3> QED
      BY <1>1, <2>6, <3>1 DEF CliCasts, CliStops, appVars, apiVars
  <2> QED
    BY <1>4, <2>1, <2>2, <2>3, <2>4, <2>5, <2>6 DEF UiSteps
<1>5. ASSUME QuitSteps PROVE TrayDone'
  <2>1. CASE Quit
    BY <1>0, <2>1 DEF Quit, Quits, TrayDone, Gtk, engineVars, control
  <2>2. CASE TrayJoined
    BY <2>2 DEF TrayJoined, TrayDone, engineVars, control
  <2>3. CASE QuitStops \/ EngineShutdown
    <3>1. pc'["tray"] = pc["tray"]
      BY <1>0, <2>3 DEF QuitStops, EngineShutdown, StopCasting, Call
    <3> QED
      BY <2>3, <3>1 DEF QuitStops, EngineShutdown, Quits, TrayDone, Gtk
  <2>4. CASE Cleared \/ Waited
    BY <2>4 DEF Cleared, Waited, Quits, TrayDone, Gtk, engineVars, control
  <2> QED
    BY <1>5, <2>1, <2>2, <2>3, <2>4 DEF QuitSteps
<1>6. CASE UNCHANGED vars
  BY <1>1, <1>6 DEF vars, appVars, apiVars, engineVars, control
<1> QED
  BY <1>2, <1>3, <1>4, <1>5, <1>6 DEF Next

\* "so it cannot race the engine teardown below" (gui_app.cc:513): from the
\* engine's teardown on, the tray's thread starts no cast, in any program.
THEOREM TrayQuietAlways == Spec => []TrayQuiet
<1>1. Init => TrayDone
  BY DEF Init, EngineInit, TrayDone, Threads
<1>2. TrayDone => TrayQuiet
  BY DEF TrayDone, TrayQuiet
<1> QED
  BY <1>1, <1>2, TrayDoneNext, AppsInvAlways, PTL DEF Spec

\* Once the client's callbacks are dropped none begins, and the wait leaves none
\* or has given up; only the WinUI program has any.
CallbacksDone ==
  /\ Win \/ inside = {}
  /\ Win /\ quitting \in {"wait", "engine", "gone"} => ~registered
  /\ CallbacksQuiet

LEMMA CallbacksDoneNext == AppsInv /\ CallbacksDone /\ [Next]_vars => CallbacksDone'
<1> SUFFICES ASSUME AppsInv, CallbacksDone, [Next]_vars PROVE CallbacksDone'
  OBVIOUS
<1> USE DEF AppsInv
<1>1. ASSUME UNCHANGED <<program, quitting, registered, gaveUp>>, inside' \subseteq inside PROVE CallbacksDone'
  BY <1>1 DEF CallbacksDone, CallbacksQuiet, Win
<1>2. ASSUME NEW t, Heard(t) PROVE CallbacksDone'
  <2>1. CASE Entering(t)
    <3>1. UNCHANGED <<program, quitting, registered, gaveUp>> /\ Win
      BY <2>1 DEF Entering
    <3>2. CASE registered
      BY <3>1, <3>2 DEF CallbacksDone, CallbacksQuiet, Win
    <3>3. CASE ~registered
      BY <1>1, <2>1, <3>1, <3>3 DEF Entering
    <3> QED
      BY <3>2, <3>3
  <2>2. CASE ~Entering(t)
    BY <1>1, <1>2, <2>2, HearsOnly DEF Heard, WinTold, Leaving, GtkTold, CliTold, apiVars, appVars
  <2> QED
    BY <2>1, <2>2
<1>3. ASSUME UNCHANGED appVars PROVE CallbacksDone'
  BY <1>1, <1>3 DEF appVars, apiVars
<1>4. ASSUME NEW t \in Callers, Engine(t) PROVE CallbacksDone'
  <2>1. CASE Returns(t)
    BY <1>1, <2>1 DEF Returns, apiVars
  <2> QED
    BY <1>2, <1>3, <1>4, <2>1 DEF Engine
<1>5. ASSUME NEW s \in Sessions, Own(s) \/ Lost(s) PROVE CallbacksDone'
  BY <1>2, <1>3, <1>5 DEF Own, Lost
<1>6. ASSUME UiSteps PROVE CallbacksDone'
  <2>1. UNCHANGED <<program, quitting, registered, gaveUp, inside>>
    BY <1>6 DEF UiSteps, ApplyPosted, WinToggle, GtkToggle, GtkTray, CloseAlert, Freeze, CliCasts, CliStops,
                appVars, apiVars
  <2> QED
    BY <1>1, <2>1
<1>7. ASSUME QuitSteps PROVE CallbacksDone'
  <2>1. CASE Quit
    BY <2>1 DEF Quit, Quits, CallbacksDone, CallbacksQuiet, Win
  <2>2. CASE TrayJoined \/ Cleared
    BY <2>2 DEF TrayJoined, Cleared, Quits, CallbacksDone, CallbacksQuiet, Win
  <2>3. CASE QuitStops
    BY <2>3 DEF QuitStops, Quits, CallbacksDone, CallbacksQuiet, Win
  <2>4. CASE Waited
    BY <2>4 DEF Waited, Quits, CallbacksDone, CallbacksQuiet, Win
  <2>5. CASE EngineShutdown
    BY <2>5 DEF EngineShutdown, Quits, CallbacksDone, CallbacksQuiet, Win
  <2> QED
    BY <1>7, <2>1, <2>2, <2>3, <2>4, <2>5 DEF QuitSteps
<1>8. CASE UNCHANGED vars
  BY <1>3, <1>8 DEF vars
<1> QED
  BY <1>4, <1>5, <1>6, <1>7, <1>8 DEF Next

\* "a client frees the user_data it registered" (c_api.cc:41): once
\* castmirror_shutdown has waited, no client callback runs and none begins,
\* however many threads announce a transition, unless the two seconds were over.
THEOREM CallbacksQuietAlways == Spec => []CallbacksQuiet
<1>1. Init => CallbacksDone
  BY DEF Init, CallbacksDone, CallbacksQuiet
<1>2. CallbacksDone => CallbacksQuiet
  BY DEF CallbacksDone
<1> QED
  BY <1>1, <1>2, CallbacksDoneNext, AppsInvAlways, PTL DEF Spec

-----------------------------------------------------------------------------
(* Programs whose casts follow one another.                                  *)

\* One thread is in a call at a time: the window's next click waits for what the
\* last call posts, and the command line has one thread.
Alone ==
  /\ \A t, u \in Callers : pc[t] # "idle" /\ pc[u] # "idle" => t = u
  /\ Cli => \A t \in Callers \ {"ui"} : pc[t] = "idle"
  /\ Win => /\ pending \/ \A t \in Callers : pc[t] = "idle"
            /\ \A i \in DOMAIN posts : posts[i] = "returned" =>
                 /\ pending /\ \A t \in Callers : pc[t] = "idle"
                 /\ \A j \in DOMAIN posts : posts[j] = "returned" => i = j

\* A session that exists is the registered one or the one that the call at work
\* holds, and there are not two of them.
OneCast ==
  /\ \A s \in Sessions : session[s].made => s = active \/ \E t \in Callers : refs[t] = <<s>>
  /\ \A t \in Callers : refs[t] # <<>> => One(refs[t]) /\ (active = None \/ refs[t] = <<active>>)
  /\ \A t \in Callers : pc[t] = "register" \/ stack[t] \in {<<"register">>, <<"drop", "register">>}
                          => active = None

Single == quitting = "no" => Alone /\ OneCast

\* A thread that works works alone, and the others hold nothing.
LEMMA OthersHoldNothing ==
  ASSUME Control, Alone, NEW t \in Callers, pc[t] # "idle"
  PROVE  \A u \in Callers \ {t} : pc[u] = "idle" /\ stack[u] = <<>> /\ refs[u] = <<>>
BY CallerAt DEF Alone

\* It goes on alone.
LEMMA AloneGoes ==
  ASSUME Alone, NEW t \in Callers, pc[t] # "idle",
         \A u \in Callers \ {t} : pc'[u] = pc[u], UNCHANGED <<program, pending, posts>>
  PROVE  Alone'
<1>1. \A u \in Callers \ {t} : pc'[u] = "idle"
  BY DEF Alone
<1>2. Cli' => t = "ui"
  BY DEF Alone, Cli
<1>3. Win' => pending' /\ \A i \in DOMAIN posts' : posts'[i] # "returned"
  BY DEF Alone, Win
<1> QED
  BY <1>1, <1>2, <1>3 DEF Alone

\* The only reference to a session that is registered no more.
LEMMA IsOnlyRef ==
  ASSUME NEW t \in Callers, NEW s \in Sessions, refs[t] = <<s>>, active = None,
         \A u \in Callers \ {t} : refs[u] = <<>>
  PROVE  OnlyRef(t, s)
<1>1. {i \in DOMAIN refs[t] : refs[t][i] = s} = {1}
  BY DEF Range
<1>2. Cardinality({1}) = 1
  BY FS_Singleton
<1>3. \A u \in Callers \ {t} : s \notin Range(refs[u])
  BY DEF Range
<1> QED
  BY <1>1, <1>2, <1>3 DEF OnlyRef

\* The sessions that exist are the same.
SameMade == \A s \in Sessions : session'[s].made <=> session[s].made

\* A thread that goes on with the same sessions.
LEMMA OneCastGoes ==
  ASSUME OneCast, NEW t \in Callers, SameMade, UNCHANGED refs, active' = active,
         \A u \in Callers \ {t} : pc'[u] = pc[u] /\ stack'[u] = stack[u],
         pc'[t] = "register" \/ stack'[t] \in {<<"register">>, <<"drop", "register">>}
            => active = None
  PROVE  OneCast'
<1>1. \A s \in Sessions : session'[s].made => s = active' \/ \E u \in Callers : refs'[u] = <<s>>
  BY DEF OneCast, SameMade
<1>2. \A u \in Callers : refs'[u] # <<>> => One(refs'[u]) /\ (active' = None \/ refs'[u] = <<active'>>)
  BY DEF OneCast
<1>3. \A u \in Callers : pc'[u] = "register" \/ stack'[u] \in {<<"register">>, <<"drop", "register">>}
                           => active' = None
  BY DEF OneCast
<1> QED
  BY <1>1, <1>2, <1>3 DEF OneCast

\* Nothing is registered, and one thread holds what exists.
LEMMA OneCastHeld ==
  ASSUME NEW t \in Callers, \A u \in Callers \ {t} : refs'[u] = <<>>,
         active' = None, refs'[t] = <<>> \/ One(refs'[t]),
         \A s \in Sessions : session'[s].made => refs'[t] = <<s>>
  PROVE  OneCast'
BY DEF OneCast

\* A session that is taken out to be stopped.
LEMMA OneCastTaken ==
  ASSUME EngineInv, Alone, OneCast, NEW t \in Callers, pc[t] # "idle", refs[t] = <<>>, active # None,
         \A u \in Callers \ {t} : refs'[u] = refs[u], Hold(t, active), active' = None, session' = session
  PROVE  OneCast'
<1>1. \A u \in Callers \ {t} : refs[u] = <<>>
  BY OthersHoldNothing DEF EngineInv
<1>2. active \in Sessions /\ refs'[t] = <<active>>
  BY DEF EngineInv, EngineTypeOK, Hold, Control, Threads
<1>3. \A s \in Sessions : session[s].made => s = active
  BY <1>1 DEF OneCast
<1> QED
  BY <1>1, <1>2, <1>3, OneCastHeld DEF One

\* A start between its steps, a call's end, and CastSession::Stop.
LEMMA OneCastPlain ==
  ASSUME EngineInv, OneCast, NEW t \in Callers,
         \/ Begin(t) \/ Connect(t) \/ Launched(t) \/ Answered(t) \/ StartMedia(t)
         \/ Streaming(t) \/ StartFailed(t) \/ NotFound(t) \/ Detached(t) \/ StopSteps(t)
  PROVE  OneCast'
<1>1. EngineSteps(t)
  BY DEF EngineSteps, StartSteps
<1>2. \A u \in Callers \ {t} : pc'[u] = pc[u] /\ stack'[u] = stack[u]
  BY <1>1, Apart
<1>3. UNCHANGED refs /\ active' = active
  BY DEF Begin, Connect, Launched, Answered, StartMedia, Streaming, StartFailed, NotFound, Detached,
         StopSteps, StopOnce, Teardown, Settle, ToIdle, KeepSessions
<1>4. t \in Threads /\ t \notin Sessions /\ pc \in [Threads -> Labels] /\ stack \in [Threads -> Seq(Labels)]
  BY CallerAt DEF EngineInv, Control
<1>5. SameMade
  <2>1. session \in [Sessions -> Session]
    BY DEF EngineInv, EngineTypeOK
  <2>2. CASE session' = session
    BY <2>2 DEF SameMade
  <2>3. CASE Begin(t) /\ session' = [session EXCEPT ![This(t)] = NewSession]
    <3>1. One(refs[t]) /\ This(t) \in Sessions /\ session[This(t)].made
      BY <2>3, CallerAt, Holds DEF EngineInv, Begin, At, Begun, This, Exists
    <3> QED
      BY <2>1, <2>3, <3>1 DEF SameMade, NewSession, NoSession, Session
  <2>4. CASE session' = [session EXCEPT ![This(t)].media = TRUE]
    BY <2>1, <2>4 DEF SameMade, Session
  <2>5. CASE session' = [session EXCEPT ![This(t)].stop = TRUE, ![This(t)].frozen = FALSE]
    BY <2>1, <2>5 DEF SameMade, Session
  <2>6. CASE session' = [session EXCEPT ![This(t)].media = FALSE, ![This(t)].recovering = FALSE]
    BY <2>1, <2>6 DEF SameMade, Session
  <2> QED
    BY <2>2, <2>3, <2>4, <2>5, <2>6
    DEF Begin, Connect, Launched, Answered, StartMedia, Streaming, StartFailed, NotFound, Detached,
        StopSteps, StopOnce, Teardown, Settle, ToIdle, KeepSessions
<1>6. pc'[t] = "register" \/ stack'[t] \in {<<"register">>, <<"drop", "register">>} => active = None
  <2>1. CASE Return(t) /\ pc[t] \in Stops
    <3>1. Stopping(stack[t], refs[t]) /\ pc'[t] = Head(stack[t]) /\ stack'[t] = Tail(stack[t])
      BY <1>4, <2>1, CallerAt DEF Return, EngineInv
    <3>2. Head(stack[t]) # "register"
          /\ (Tail(stack[t]) \in {<<"register">>, <<"drop", "register">>} => stack[t] = <<"drop", "register">>)
      <4>1. CASE stack[t] = <<"unregister">>
        BY <4>1
      <4>4. CASE stack[t] = <<"drop", "register">>
        BY <4>4
      <4>5. CASE stack[t] = <<"drop", "return">>
        BY <4>5
      <4>6. CASE stack[t] = <<"drop", "start">>
        BY <4>6
      <4>2. CASE stack[t] = <<"drop", "detached", "idle">>
        <5>1. Head(stack[t]) = "drop" /\ Tail(stack[t]) = <<"detached", "idle">>
          BY <4>2
        <5> QED
          BY <5>1
      <4>3. CASE stack[t] = <<"drop", "detached", "return">>
        <5>1. Head(stack[t]) = "drop" /\ Tail(stack[t]) = <<"detached", "return">>
          BY <4>3
        <5> QED
          BY <5>1
      <4> QED
        BY <3>1, <4>1, <4>2, <4>3, <4>4, <4>5, <4>6 DEF Stopping
    <3> QED
      BY <3>1, <3>2 DEF OneCast
  <2>2. CASE \E p \in Stops : Goto(t, p)
    BY <1>4, <2>2 DEF Goto, Stops, OneCast
  <2>3. CASE StopSteps(t)
    <3>1. pc[t] \in Stops /\ (Return(t) \/ \E p \in Stops : Goto(t, p))
      BY <2>3 DEF StopSteps, StopOnce, Teardown, Settle, ToIdle, At, Stops
    <3> QED
      BY <2>1, <2>2, <3>1
  <2>4. CASE Begin(t) \/ Launched(t) \/ Answered(t) \/ StartMedia(t) \/ NotFound(t)
    <3>1. stack[t] = <<>>
      BY <2>4, CallerAt DEF Begin, Launched, Answered, StartMedia, NotFound, At, Begun, EngineInv
    <3>2. pc'[t] # "register" /\ stack'[t] = <<>>
      BY <1>4, <2>4, <3>1 DEF Begin, Launched, Answered, StartMedia, NotFound, Goto
    <3> QED
      BY <3>2
  <2>5. CASE Connect(t)
    <3>1. stack[t] = <<>> /\ This(t) \in Sessions
      BY <2>5, CallerAt, Holds DEF Connect, At, Begun, EngineInv, This
    <3>2. pc'[t] # "register" /\ stack'[t] = <<>>
      BY <1>4, <2>5, <3>1 DEF Connect, Goto
    <3> QED
      BY <3>2
  <2>6. CASE Streaming(t) \/ StartFailed(t)
    <3>1. stack[t] = <<>>
      BY <2>6, CallerAt DEF Streaming, StartFailed, At, Begun, EngineInv
    <3>2. pc'[t] \in {"drop", "stop"} /\ stack'[t] \in {<<"return">> \o <<>>, <<"unregister">> \o <<>>}
      BY <1>4, <2>6, <3>1 DEF Streaming, StartFailed, Call
    <3> QED
      BY <3>2
  <2>7. CASE Detached(t)
    <3>1. stack[t] \in {<<"idle">>, <<"return">>} /\ pc'[t] = Head(stack[t]) /\ stack'[t] = Tail(stack[t])
      BY <1>4, <2>7, CallerAt DEF Detached, At, EngineInv, Return
    <3>2. CASE stack[t] = <<"idle">>
      BY <3>1, <3>2
    <3>3. CASE stack[t] = <<"return">>
      BY <3>1, <3>3
    <3> QED
      BY <3>1, <3>2, <3>3
  <2> QED
    BY <2>3, <2>4, <2>5, <2>6, <2>7
<1> QED
  BY <1>2, <1>3, <1>5, <1>6, OneCastGoes

\* The new session: nothing was registered and nothing existed.
LEMMA OneCastRegister ==
  ASSUME EngineInv, Alone, OneCast, NEW t \in Callers, Register(t) PROVE OneCast'
<1>1. pc[t] = "register" /\ stack[t] = <<>> /\ refs[t] = <<>> /\ t \in Threads /\ t \notin Sessions
  BY CallerAt DEF EngineInv, Register, At
<1>2. active = None /\ \A u \in Callers \ {t} : refs[u] = <<>> /\ stack[u] = <<>> /\ pc[u] = "idle"
  BY <1>1, OthersHoldNothing DEF OneCast, EngineInv
<1>3. \A s \in Sessions : ~session[s].made
  <2> SUFFICES ASSUME NEW s \in Sessions, session[s].made PROVE FALSE
    OBVIOUS
  <2>1. \A u \in Callers : refs[u] = <<>>
    BY <1>1, <1>2
  <2> QED
    BY <1>2, <2>1 DEF OneCast
<1>4. PICK s \in Sessions :
        /\ session' = [session EXCEPT ![s] = NewSession]
        /\ active' = s /\ Hold(t, s) /\ Goto(t, "start")
  BY <1>2 DEF Register
<1>5. refs'[t] = <<s>> /\ pc'[t] = "start" /\ stack'[t] = <<>>
  BY <1>1, <1>4 DEF Hold, Goto, EngineInv, Control
<1>6. \A u \in Callers \ {t} : refs'[u] = <<>> /\ stack'[u] = <<>> /\ pc'[u] = "idle"
  BY <1>1, <1>2, Apart DEF EngineSteps, StartSteps
<1>7. \A o \in Sessions : session'[o].made => o = s
  BY <1>3, <1>4 DEF EngineInv, EngineTypeOK
<1>8. \A u \in Callers : refs'[u] # <<>> => One(refs'[u]) /\ (active' = None \/ refs'[u] = <<active'>>)
  BY <1>4, <1>5, <1>6 DEF One
<1>9. \A u \in Callers : ~(pc'[u] = "register" \/ stack'[u] \in {<<"register">>, <<"drop", "register">>})
  BY <1>5, <1>6
<1> QED
  BY <1>4, <1>7, <1>8, <1>9 DEF OneCast

\* A dropped reference: to the registered session, or to one that is destroyed.
LEMMA OneCastDrop ==
  ASSUME EngineInv, Alone, OneCast, NEW t \in Callers, Drop(t) PROVE OneCast'
<1> DEFINE s == This(t)
<1>1. /\ pc[t] = "drop" /\ Dropping(stack[t], refs[t]) /\ t \in Threads /\ t \notin Sessions
      /\ stack \in [Threads -> Seq(Labels)] /\ refs \in [Threads -> Seq(Sessions)] /\ pc \in [Threads -> Labels]
  BY CallerAt DEF EngineInv, Drop, At, Control
<1>2. One(refs[t])
  <2>1. refs[t] # <<>>
    <3>1. One(refs[t]) \/ Two(refs[t])
      BY <1>1 DEF Dropping
    <3>2. 1 \in DOMAIN refs[t]
      BY <3>1, Holds
    <3> QED
      BY <3>2
  <2> QED
    BY <2>1 DEF OneCast
<1>3. s \in Sessions /\ refs[t] = <<s>> /\ (active = None \/ active = s)
  BY <1>2 DEF One, This, OneCast
<1>4. active' = active
  BY DEF Drop
<1>5. \A u \in Callers \ {t} : refs[u] = <<>> /\ stack[u] = <<>> /\ pc[u] = "idle"
  BY <1>1, OthersHoldNothing DEF EngineInv
<1>6. \A u \in Callers \ {t} : refs'[u] = <<>> /\ stack'[u] = <<>> /\ pc'[u] = "idle"
  BY <1>5, Apart DEF EngineSteps
<1>7. \A o \in Sessions : session[o].made => o = s
  <2> SUFFICES ASSUME NEW o \in Sessions, session[o].made PROVE o = s
    OBVIOUS
  <2>1. CASE o = active
    BY <1>3, <2>1 DEF EngineInv, EngineTypeOK
  <2>2. CASE \E u \in Callers : refs[u] = <<o>>
    BY <1>3, <1>5, <2>2
  <2> QED
    BY <2>1, <2>2 DEF OneCast
<1>8. CASE OnlyRef(t, s) /\ ~session[s].stop
  <2>1. session' = session /\ refs' = refs /\ active = None
    BY <1>3, <1>8 DEF Drop, OnlyRef
  <2> QED
    BY <1>2, <1>3, <1>4, <1>6, <1>7, <2>1, OneCastHeld
<1>9. CASE ~(OnlyRef(t, s) /\ ~session[s].stop)
  <2>1. /\ refs' = [refs EXCEPT ![t] = Tail(refs[t])]
        /\ pc' = [pc EXCEPT ![t] = Head(stack[t])] /\ stack' = [stack EXCEPT ![t] = Tail(stack[t])]
        /\ session' = IF OnlyRef(t, s) THEN [session EXCEPT ![s] = NoSession] ELSE session
    BY <1>9 DEF Drop, Return, LetGo
  <2>2. refs'[t] = <<>>
    BY <1>1, <1>3, <2>1
  <2>3. CASE active = None
    <3>1. OnlyRef(t, s)
      BY <1>3, <1>5, <2>3, IsOnlyRef
    <3>2. \A o \in Sessions : ~session'[o].made
      BY <1>3, <1>7, <2>1, <3>1 DEF EngineInv, EngineTypeOK, NoSession
    <3> QED
      BY <1>4, <1>6, <2>2, <2>3, <3>2, OneCastHeld
  <2>4. CASE active = s
    <3>1. session' = session
      BY <2>1, <2>4 DEF OnlyRef
    <3>2. active # None
      BY <1>3, <2>4
    <3>3. stack[t] # <<"register">>
      BY <3>2 DEF OneCast
    <3>4. pc'[t] # "register" /\ stack'[t] \notin {<<"register">>, <<"drop", "register">>}
      <4>1. pc'[t] = Head(stack[t]) /\ stack'[t] = Tail(stack[t])
        BY <1>1, <2>1
      <4>2. CASE stack[t] = <<"return">>
        BY <4>1, <4>2
      <4>3. CASE stack[t] = <<"detached", "idle">>
        BY <4>1, <4>3
      <4>4. CASE stack[t] = <<"detached", "return">>
        BY <4>1, <4>4
      <4>5. CASE stack[t] = <<"start">>
        BY <4>1, <4>5
      <4> QED
        BY <1>1, <3>3, <4>2, <4>3, <4>4, <4>5 DEF Dropping
    <3>5. \A u \in Callers : refs'[u] = <<>>
      BY <1>6, <2>2
    <3>6. \A u \in Callers : ~(pc'[u] = "register" \/ stack'[u] \in {<<"register">>, <<"drop", "register">>})
      BY <1>6, <3>4
    <3> QED
      BY <1>4, <1>7, <2>4, <3>1, <3>5, <3>6 DEF OneCast
  <2> QED
    BY <1>3, <2>3, <2>4
<1> QED
  BY <1>8, <1>9

LEMMA OneCastSteps ==
  ASSUME EngineInv, Alone, OneCast, NEW t \in Callers, EngineSteps(t) PROVE OneCast'
<1>1. pc[t] # "idle" /\ \A u \in Callers \ {t} : refs'[u] = refs[u] /\ pc'[u] = pc[u] /\ stack'[u] = stack[u]
  BY Apart
<1>2. \A u \in Callers \ {t} : refs[u] = <<>>
  BY <1>1, OthersHoldNothing DEF EngineInv
<1>3. CASE Retire(t) \/ Detach(t)
  <2>1. refs[t] = <<>> /\ session' = session /\ pc[t] \in {"retire", "detach"}
    BY <1>3, CallerAt DEF EngineInv, Retire, Detach, At
  <2>2. CASE active = None
    <3>1. UNCHANGED <<refs, active>>
      BY <1>3, <2>2 DEF Retire, Detach
    <3>2. \A s \in Sessions : ~session[s].made
      <4>1. \A u \in Callers : refs[u] = <<>>
        BY <1>2, <2>1
      <4> QED
        BY <2>2, <4>1 DEF OneCast
    <3> QED
      BY <1>2, <2>1, <2>2, <3>1, <3>2, OneCastHeld
  <2>3. CASE active # None
    <3>1. Hold(t, active) /\ active' = None
      BY <1>3, <2>3 DEF Retire, Detach
    <3> QED
      BY <1>1, <2>1, <2>3, <3>1, OneCastTaken
  <2> QED
    BY <2>2, <2>3
<1>4. CASE Unregister(t)
  <2>1. One(refs[t]) /\ session' = session /\ refs' = refs
    BY <1>4, CallerAt DEF EngineInv, Unregister, At, Begun
  <2>2. PICK s \in Sessions : refs[t] = <<s>>
    BY <2>1 DEF One
  <2>3. This(t) = s /\ (active = None \/ active = s)
    BY <2>2 DEF This, OneCast
  <2>4. active' = None
    BY <1>4, <2>3 DEF Unregister
  <2>5. \A o \in Sessions : session[o].made => o = s
    <3> SUFFICES ASSUME NEW o \in Sessions, session[o].made PROVE o = s
      OBVIOUS
    <3>1. CASE o = active
      BY <2>3, <3>1 DEF EngineInv, EngineTypeOK
    <3>2. CASE \E u \in Callers : refs[u] = <<o>>
      BY <1>2, <2>2, <3>2
    <3> QED
      BY <3>1, <3>2 DEF OneCast
  <2> QED
    BY <1>2, <2>1, <2>2, <2>4, <2>5, OneCastHeld
<1>5. CASE Register(t)
  BY <1>5, OneCastRegister
<1>6. CASE Drop(t)
  BY <1>6, OneCastDrop
<1> QED
  BY <1>3, <1>4, <1>5, <1>6, OneCastPlain DEF EngineSteps, StartSteps

\* Steps of others than the threads in a call.
LEMMA OneCastSame ==
  ASSUME OneCast, SameMade, active' = active,
         \A u \in Callers : refs'[u] = refs[u] /\ pc'[u] = pc[u] /\ stack'[u] = stack[u]
  PROVE  OneCast'
BY DEF OneCast, SameMade

\* A thread that has nothing starts or ends a call.
LEMMA OneCastFree ==
  ASSUME EngineInv, OneCast, NEW t \in Callers, pc[t] \in {"idle", "return"},
         \/ StartCasting(t) \/ (\E after \in {"idle", "return"} : StopCasting(t, after)) \/ Returns(t)
  PROVE  OneCast'
<1>1. stack[t] = <<>> /\ refs[t] = <<>> /\ t \in Threads
  BY CallerAt DEF EngineInv
<1>2. /\ pc \in [Threads -> Labels] /\ stack \in [Threads -> Seq(Labels)] /\ Callers \subseteq Threads
  BY DEF EngineInv, Control, Threads
<1>3. UNCHANGED <<session, active, refs>>
  BY DEF StartCasting, StopCasting, Returns
<1>4. \A u \in Callers \ {t} : pc'[u] = pc[u] /\ stack'[u] = stack[u]
  BY <1>1, <1>2 DEF StartCasting, StopCasting, Returns, Call
<1>5. pc'[t] \in {"retire", "detach", "idle"}
  BY <1>1, <1>2 DEF StartCasting, StopCasting, Returns, Call
<1>6. stack'[t] \notin {<<"register">>, <<"drop", "register">>}
  <2>1. CASE StartCasting(t) \/ Returns(t)
    <3>1. stack' = stack \/ stack' = [stack EXCEPT ![t] = <<>>]
      BY <2>1 DEF StartCasting, Returns
    <3>2. stack'[t] = <<>>
      BY <1>1, <1>2, <3>1
    <3> QED
      BY <3>2
  <2>2. CASE \E after \in {"idle", "return"} : StopCasting(t, after)
    <3>1. PICK after \in {"idle", "return"} : StopCasting(t, after)
      BY <2>2
    <3>2. stack'[t] = <<after>> \o <<>>
      BY <1>1, <1>2, <3>1 DEF StopCasting, Call
    <3>3. <<after>> \o <<>> = <<after>>
      OBVIOUS
    <3> QED
      BY <3>2, <3>3
  <2> QED
    BY <2>1, <2>2
<1> QED
  BY <1>3, <1>4, <1>5, <1>6, OneCastGoes DEF SameMade

\* The session's own thread makes and destroys nothing.
LEMMA OwnSameMade ==
  ASSUME EngineInv, NEW s \in Sessions, OwnSteps(s) \/ Lose(s) PROVE SameMade /\ active' = active
<1>0. session \in [Sessions -> Session]
  BY DEF EngineInv, EngineTypeOK
<1>1. CASE StopSteps(s)
  <2>1. pc[s] \in Stops
    BY <1>1 DEF StopSteps, StopOnce, Teardown, Settle, ToIdle, At, Stops
  <2>2. This(s) = s
    BY <2>1, OwnAt DEF EngineInv
  <2>6. active' = active
    BY <1>1 DEF StopSteps, StopOnce, Teardown, Settle, ToIdle, KeepSessions
  <2>3. CASE session' = session
    BY <2>3, <2>6 DEF SameMade
  <2>4. CASE session' = [session EXCEPT ![s].stop = TRUE, ![s].frozen = FALSE]
    BY <1>0, <2>4, <2>6 DEF SameMade, Session
  <2>5. CASE session' = [session EXCEPT ![s].media = FALSE, ![s].recovering = FALSE]
    BY <1>0, <2>5, <2>6 DEF SameMade, Session
  <2> QED
    BY <1>1, <2>2, <2>3, <2>4, <2>5 DEF StopSteps, StopOnce, Teardown, Settle, ToIdle, KeepSessions
<1>2. CASE Retry(s) \/ Recovered(s) \/ Fail(s) \/ End(s) \/ Lose(s)
  <2>1. active' = active
    BY <1>2 DEF Retry, Recovered, Fail, End, Lose, KeepSessions
  <2>2. CASE session' = session
    BY <2>1, <2>2 DEF SameMade
  <2>3. CASE session' = [session EXCEPT ![s].recovering = FALSE, ![s].media = TRUE]
    BY <1>0, <2>1, <2>3 DEF SameMade, Session
  <2>4. CASE session' = [session EXCEPT ![s].media = FALSE]
    BY <1>0, <2>1, <2>4 DEF SameMade, Session
  <2>5. CASE session' = [session EXCEPT ![s].fail = TRUE]
    BY <1>0, <2>1, <2>5 DEF SameMade, Session
  <2>6. CASE session' = [session EXCEPT ![s].recovering = TRUE, ![s].fail = FALSE]
    BY <1>0, <2>1, <2>6 DEF SameMade, Session
  <2> QED
    BY <1>2, <2>2, <2>3, <2>4, <2>5, <2>6 DEF Retry, Recovered, Fail, End, Lose, KeepSessions
<1> QED
  BY <1>1, <1>2 DEF OwnSteps

\* What is announced, or posted, leaves the calls as they are.
LEMMA SingleHears ==
  ASSUME AppsInv, ~Gtk, Single, quitting = "no", NEW t \in Threads, Heard(t) PROVE Alone' /\ OneCast'
<1>1. /\ UNCHANGED <<active, session, pc, stack, refs, program, pending>>
      /\ Alone /\ OneCast
  BY HearsOnly DEF Single
<1>2. OneCast'
  BY <1>1, OneCastSame DEF SameMade
<1>3. \A u \in Callers : pc'[u] = pc[u]
  BY <1>1
<1>4. posts \in Seq(Posted) /\ said[t] \in SessionStates \cup {None}
  BY DEF AppsInv, AppsData, EngineInv, EngineTypeOK
<1>5. CASE posts' = posts
  BY <1>1, <1>2, <1>5 DEF Alone, Win, Cli
<1>6. CASE posts' = Append(posts, said[t]) /\ said[t] \in SessionStates
  <2>1. "returned" \notin SessionStates
    BY DEF SessionStates
  <2>2. \A i \in DOMAIN posts' : posts'[i] = "returned" => i \in DOMAIN posts /\ posts[i] = "returned"
    BY <1>4, <1>6, <2>1
  <2> QED
    BY <1>1, <1>2, <2>2 DEF Alone, Win, Cli
<1>7. posts' = posts \/ (posts' = Append(posts, said[t]) /\ said[t] \in SessionStates)
  BY <1>4 DEF Heard, WinTold, Entering, Leaving, GtkTold, CliTold, Post, appVars
<1> QED
  BY <1>2, <1>5, <1>6, <1>7

\* A call that returns is posted once.
LEMMA AloneReturns ==
  ASSUME AppsInv, ~Gtk, Alone, quitting = "no", NEW t \in Callers, Returns(t) PROVE Alone'
<1>1. /\ pc[t] = "return" /\ pc' = [pc EXCEPT ![t] = "idle"] /\ UNCHANGED <<program, pending>>
      /\ IF Win THEN posts' = Append(posts, "returned") ELSE posts' = posts
  BY DEF Returns, At, Post
<1>2. /\ pc \in [Threads -> Labels] /\ t \in Threads /\ Callers \subseteq Threads /\ posts \in Seq(Posted)
  BY DEF AppsInv, AppsData, EngineInv, Control, Threads
<1>3. \A u \in Callers : pc'[u] = "idle"
  BY <1>1, <1>2 DEF Alone
<1>4. CASE Win
  <2>1. pending /\ \A i \in DOMAIN posts : posts[i] # "returned"
    BY <1>1, <1>4 DEF Alone
  <2>2. \A i \in DOMAIN posts' : posts'[i] = "returned" => i = Len(posts) + 1
    BY <1>1, <1>2, <1>4, <2>1
  <2> QED
    BY <1>1, <1>3, <2>1, <2>2 DEF Alone, Win, Cli
<1>5. CASE ~Win
  BY <1>1, <1>3, <1>5 DEF Alone, Win, Cli
<1> QED
  BY <1>4, <1>5

\* What the window applies: once it has applied that a call returned, none is
\* at work and nothing says so any more.
LEMMA AloneApplies ==
  ASSUME AppsInv, Alone, ApplyPosted PROVE Alone'
<1>1. /\ posts # <<>> /\ posts' = Tail(posts) /\ pending' = (pending /\ Head(posts) # "returned")
      /\ UNCHANGED <<program, pc>>
  BY DEF ApplyPosted, engineVars, control
<1>2. posts \in Seq(Posted)
  BY DEF AppsInv, AppsData
<1>3. \A i \in DOMAIN posts' : i + 1 \in DOMAIN posts /\ posts'[i] = posts[i + 1] /\ i + 1 # 1 /\ i \in Nat
  BY <1>1, <1>2
<1>4. 1 \in DOMAIN posts /\ Head(posts) = posts[1]
  BY <1>1, <1>2
<1>5. CASE Win
  <2>1. CASE Head(posts) = "returned"
    <3>1. \A t \in Callers : pc'[t] = "idle"
      BY <1>1, <1>4, <1>5, <2>1 DEF Alone
    <3>2. \A i \in DOMAIN posts : posts[i] = "returned" => 1 = i
      BY <1>4, <1>5, <2>1 DEF Alone
    <3>3. \A i \in DOMAIN posts' : posts'[i] # "returned"
      BY <1>3, <3>2
    <3> QED
      BY <1>1, <1>5, <3>1, <3>3 DEF Alone, Win, Cli
  <2>2. CASE Head(posts) # "returned"
    <3>1. pending' = pending
      BY <1>1, <2>2 DEF AppsInv, AppsData
    <3>2. \A i \in DOMAIN posts' : posts'[i] = "returned" =>
            pending /\ (\A t \in Callers : pc[t] = "idle")
            /\ \A j \in DOMAIN posts' : posts'[j] = "returned" => i = j
      <4> SUFFICES ASSUME NEW i \in DOMAIN posts', posts'[i] = "returned"
                   PROVE  /\ pending /\ \A t \in Callers : pc[t] = "idle"
                          /\ \A j \in DOMAIN posts' : posts'[j] = "returned" => i = j
        OBVIOUS
      <4>1. i + 1 \in DOMAIN posts /\ posts[i + 1] = "returned" /\ i \in Nat
        BY <1>3
      <4>2. pending /\ \A t \in Callers : pc[t] = "idle"
        BY <1>5, <4>1 DEF Alone
      <4>3. ASSUME NEW j \in DOMAIN posts', posts'[j] = "returned" PROVE i = j
        <5>1. j + 1 \in DOMAIN posts /\ posts[j + 1] = "returned" /\ j \in Nat
          BY <1>3, <4>3
        <5>2. i + 1 = j + 1
          BY <1>5, <4>1, <5>1 DEF Alone
        <5> QED
          BY <4>1, <5>1, <5>2
      <4> QED
        BY <4>2, <4>3
    <3> QED
      BY <1>1, <1>5, <3>1, <3>2 DEF Alone, Win, Cli
  <2> QED
    BY <2>1, <2>2
<1>6. CASE ~Win
  BY <1>1, <1>6 DEF Alone, Win, Cli
<1> QED
  BY <1>5, <1>6

\* An idle window, or command line, calls: nobody else is in a call.
LEMMA AloneCalls ==
  ASSUME AppsInv, Alone, NEW t \in Callers, \A u \in Callers : pc[u] = "idle",
         StartCasting(t) \/ \E after \in {"idle", "return"} : StopCasting(t, after),
         program' = program, Cli => t = "ui",
         Win => pending' /\ (\A i \in DOMAIN posts' : posts'[i] # "returned")
  PROVE  Alone'
<1>1. /\ pc \in [Threads -> Labels] /\ t \in Threads /\ Callers \subseteq Threads
  BY DEF AppsInv, EngineInv, Control, Threads
<1>2. \A u \in Callers \ {t} : pc'[u] = "idle"
  BY <1>1 DEF StartCasting, StopCasting, Call
<1> QED
  BY <1>2 DEF Alone, Win, Cli

LEMMA SingleNext ==
  ASSUME "gtk" \notin Programs
  PROVE  AppsInv /\ Single /\ [Next]_vars => Single'
<1> SUFFICES ASSUME AppsInv, Single, [Next]_vars, quitting' = "no" PROVE Alone' /\ OneCast'
  BY DEF Single
<1>0. /\ EngineInv /\ ~Gtk /\ "ui" \in Callers
      /\ pc \in [Threads -> Labels] /\ stack \in [Threads -> Seq(Labels)] /\ Callers \subseteq Threads
  BY DEF AppsInv, AppsData, EngineInv, Control, Gtk, Threads
<1>1. CASE quitting # "no"
  <2>1. ~UiSteps
    BY <1>1 DEF UiSteps, ApplyPosted, WinToggle, GtkToggle, GtkTray, CloseAlert, Freeze, CliCasts, CliStops, UiIdle
  <2>2. quitting' # "no"
    <3>1. CASE UiSteps
      BY <2>1, <3>1
    <3>2. CASE QuitSteps
      BY <1>1, <3>2 DEF QuitSteps, Quit, TrayJoined, QuitStops, Cleared, Waited, EngineShutdown, Quits
    <3>3. ASSUME NEW t, Heard(t) PROVE quitting' = quitting
      BY <3>3, HearsOnly
    <3>4. UNCHANGED appVars => quitting' = quitting
      BY DEF appVars, apiVars
    <3>5. ASSUME NEW t \in Callers, Returns(t) PROVE quitting' = quitting
      BY <3>5 DEF Returns, apiVars
    <3>6. CASE UNCHANGED vars
      BY <1>1, <3>4, <3>6 DEF vars
    <3> QED
      BY <1>1, <3>1, <3>2, <3>3, <3>4, <3>5, <3>6 DEF Next, Engine, Own, Lost
  <2> QED
    BY <2>2
<1>2. CASE quitting = "no"
  <2>0. Alone /\ OneCast
    BY <1>2 DEF Single
  <2>1. ASSUME NEW t \in Callers, Engine(t) PROVE Alone' /\ OneCast'
    <3>1. CASE EngineSteps(t) /\ UNCHANGED appVars
      <4>1. pc[t] # "idle" /\ \A u \in Callers \ {t} : pc'[u] = pc[u]
        BY <1>0, <3>1, Apart
      <4>2. UNCHANGED <<program, pending, posts>>
        BY <3>1 DEF appVars
      <4>3. Alone'
        BY <2>0, <4>1, <4>2, AloneGoes
      <4>4. OneCast'
        BY <1>0, <2>0, <3>1, OneCastSteps
      <4> QED
        BY <4>3, <4>4
    <3>2. CASE Returns(t)
      <4>1. pc[t] = "return"
        BY <3>2 DEF Returns, At
      <4>2. Alone'
        BY <1>0, <1>2, <2>0, <3>2, AloneReturns
      <4>3. OneCast'
        BY <1>0, <2>0, <3>2, <4>1, OneCastFree
      <4> QED
        BY <4>2, <4>3
    <3>3. CASE Heard(t)
      BY <1>0, <1>2, <3>3, SingleHears
    <3> QED
      BY <2>1, <3>1, <3>2, <3>3 DEF Engine
  <2>2. ASSUME NEW s \in Sessions, Own(s) \/ Lost(s) PROVE Alone' /\ OneCast'
    <3>1. CASE (OwnSteps(s) \/ Lose(s)) /\ UNCHANGED appVars
      <4>1. \A u \in Callers : pc'[u] = pc[u] /\ stack'[u] = stack[u] /\ refs'[u] = refs[u]
        BY <1>0, <3>1, OwnApart
      <4>2. SameMade /\ active' = active
        BY <1>0, <3>1, OwnSameMade
      <4>3. OneCast'
        BY <2>0, <4>1, <4>2, OneCastSame
      <4>4. Alone'
        BY <2>0, <3>1, <4>1 DEF Alone, Win, Cli, appVars
      <4> QED
        BY <4>3, <4>4
    <3>2. CASE Heard(s)
      BY <1>0, <1>2, <3>2, SingleHears DEF Threads
    <3> QED
      BY <2>2, <3>1, <3>2 DEF Own, Lost
  <2>3. ASSUME UiSteps PROVE Alone' /\ OneCast'
    <3>1. CASE ApplyPosted
      <4>1. Alone'
        BY <2>0, <3>1, AloneApplies
      <4>2. OneCast'
        BY <2>0, <3>1, OneCastSame DEF ApplyPosted, engineVars, control, SameMade
      <4> QED
        BY <4>1, <4>2
    <3>2. CASE CloseAlert
      <4>1. OneCast'
        BY <2>0, <3>2, OneCastSame DEF CloseAlert, engineVars, control, SameMade
      <4>2. Alone'
        BY <2>0, <3>2 DEF CloseAlert, engineVars, control, Alone, Win, Cli
      <4> QED
        BY <4>1, <4>2
    <3>3. CASE WinToggle
      <4>1. PICK t \in Starters : StopCasting(t, "return") \/ StartCasting(t)
        BY <3>3 DEF WinToggle
      <4>2. Win /\ ~pending /\ pending' = TRUE /\ UNCHANGED <<program, posts>>
        BY <3>3 DEF WinToggle
      <4>3. \A u \in Callers : pc[u] = "idle"
        BY <2>0, <4>2 DEF Alone
      <4>4. \A i \in DOMAIN posts : posts[i] # "returned"
        BY <2>0, <4>2 DEF Alone
      <4>5. t \in Callers /\ ~Cli
        BY <4>2 DEF Win, Cli
      <4>6. Alone'
        BY <2>0, <4>1, <4>2, <4>3, <4>4, <4>5, AloneCalls
      <4>7. OneCast'
        BY <1>0, <2>0, <4>1, <4>3, <4>5, OneCastFree
      <4> QED
        BY <4>6, <4>7
    <3>4. CASE GtkToggle \/ GtkTray
      BY <1>0, <3>4 DEF GtkToggle, GtkTray
    <3>5. CASE Freeze
      <4>1. UNCHANGED <<active, pc, stack, refs, program, posts, pending>>
        BY <3>5 DEF Freeze, SetFreezeStream, control
      <4>2. session' = IF active = None THEN session ELSE [session EXCEPT ![active].frozen = toggle']
        BY <3>5 DEF Freeze, SetFreezeStream
      <4>3. SameMade
        BY <1>0, <4>2 DEF EngineInv, EngineTypeOK, SameMade, Session
      <4>4. OneCast'
        BY <2>0, <4>1, <4>3, OneCastSame
      <4>5. Alone'
        BY <2>0, <4>1 DEF Alone, Win, Cli
      <4> QED
        BY <4>4, <4>5
    <3>6. CASE CliCasts \/ CliStops
      <4>1. /\ Cli /\ pc["ui"] = "idle" /\ program' = program
            /\ StartCasting("ui") \/ StopCasting("ui", "idle")
        BY <3>6 DEF CliCasts, CliStops, UiIdle, appVars
      <4>2. \A u \in Callers : pc[u] = "idle"
        BY <2>0, <4>1 DEF Alone
      <4>3. ~Win
        BY <4>1 DEF Win, Cli
      <4>4. Alone'
        BY <1>0, <2>0, <4>1, <4>2, <4>3, AloneCalls
      <4>5. OneCast'
        BY <1>0, <2>0, <4>1, OneCastFree
      <4> QED
        BY <4>4, <4>5
    <3> QED
      BY <2>3, <3>1, <3>2, <3>3, <3>4, <3>5, <3>6 DEF UiSteps
  <2>4. ~QuitSteps
    BY <1>0, <1>2 DEF QuitSteps, Quit, TrayJoined, QuitStops, Cleared, Waited, EngineShutdown, Quits
  <2>5. CASE UNCHANGED vars
    <3>1. OneCast'
      BY <2>0, <2>5, OneCastSame DEF vars, engineVars, control, SameMade
    <3>2. Alone'
      BY <2>0, <2>5 DEF vars, engineVars, control, appVars, Alone, Win, Cli
    <3> QED
      BY <3>1, <3>2
  <2> QED
    BY <2>1, <2>2, <2>3, <2>4, <2>5 DEF Next
<1> QED
  BY <1>1, <1>2

\* Two sessions that stream are one.
LEMMA SingleStreams == AppsInv /\ Single => OneStream
<1> SUFFICES ASSUME AppsInv, Single, quitting = "no",
                    NEW s \in Sessions, NEW r \in Sessions, Live(s), Live(r)
             PROVE  s = r
  BY DEF OneStream
<1>1. Alone /\ OneCast /\ EngineInv
  BY DEF Single, AppsInv
<1>2. session[s].made /\ session[r].made
  BY <1>1 DEF Live, EngineInv, Exists
<1>3. \A o \in Sessions : session[o].made => o = active \/ \E t \in Callers : refs[t] = <<o>>
  BY <1>1 DEF OneCast
<1>4. \A t \in Callers : refs[t] # <<>> => pc[t] # "idle" /\ (active = None \/ refs[t] = <<active>>)
  BY <1>1, CallerAt DEF OneCast, EngineInv
<1>5. \A t, u \in Callers : refs[t] # <<>> /\ refs[u] # <<>> => t = u
  BY <1>1, <1>4 DEF Alone
<1>6. s # None /\ r # None
  OBVIOUS
<1>7. CASE s = active /\ r # active
  <2>1. PICK t \in Callers : refs[t] = <<r>>
    BY <1>2, <1>3, <1>7
  <2> QED
    BY <1>4, <1>6, <1>7, <2>1
<1>8. CASE s # active /\ r = active
  <2>1. PICK t \in Callers : refs[t] = <<s>>
    BY <1>2, <1>3, <1>8
  <2> QED
    BY <1>4, <1>6, <1>8, <2>1
<1>9. CASE s # active /\ r # active
  <2>1. PICK t \in Callers : refs[t] = <<s>>
    BY <1>2, <1>3, <1>9
  <2>2. PICK u \in Callers : refs[u] = <<r>>
    BY <1>2, <1>3, <1>9
  <2> QED
    BY <1>5, <2>1, <2>2
<1> QED
  BY <1>7, <1>8, <1>9

\* StartCasting retires the session before, and the window's CastPending and the
\* command line's one thread let one call work at a time: two casts never stream
\* at once.  The GTK program has neither, and is left to the runs.
THEOREM OneStreamAlone ==
  ASSUME "gtk" \notin Programs
  PROVE  Spec => []OneStream
<1>1. Init => Single
  BY DEF Init, EngineInit, Single, Alone, OneCast, NoSession, Threads
<1> QED
  BY <1>1, SingleNext, SingleStreams, AppsInvAlways, PTL DEF Spec

-----------------------------------------------------------------------------
(* What the WinUI window shows, and where its switches stand.               *)

\* The states that close a cast, and what is said of one.
Closing == {"Idle", "Failed"}
Spoken == {"Connecting", "Negotiating", "Streaming", "Reconnecting", "Stopping"} \cup Closing
Tearing == {"teardown", "settle", "toIdle"}

\* A start past its first step, a call that may have made a transition, and a
\* call that holds the registered session without stopping it.
Started == {"launch", "answer", "media", "stream"}
Speaking == {"connect", "launch", "answer", "drop", "unregister"} \cup Stops
Working == Started \cup {"drop"}

\* What waits for the window, and what it will show last.
NoState == \A i \in DOMAIN posts : posts[i] \notin SessionStates
NoClosing == \A i \in DOMAIN posts : posts[i] \notin Closing
WillShow == ShownActive \/ \E i \in DOMAIN posts : posts[i] \in SessionStates

Words ==
  /\ shown \in Spoken /\ (toggle => ShownActive)
  /\ \A i \in DOMAIN posts : posts[i] \in SessionStates => posts[i] \in Spoken
  /\ \A t \in Threads : said[t] # None => said[t] \in Spoken
  /\ inside = {}

\* Who has something to say.
Silent ==
  /\ \A t \in Callers : said[t] # None => pc[t] \in Speaking
  /\ \A s \in Sessions : pc[s] = "idle" => said[s] = None
  /\ \A s \in Sessions : said[s] \in Closing => pc[s] = "ended" /\ session[s].stop

\* A teardown follows a stop, and ends the state it leaves.
Stopped ==
  /\ \A t \in Threads : pc[t] \in Tearing => session[This(t)].stop
  /\ state = "Stopping" => \E t \in Threads : pc[t] \in Tearing

\* A session is registered while it starts, and no more once a call is to
\* stop it or has failed to start it.
Registers(t) == pc[t] \in Begun \/ (pc[t] \in Stops /\ stack[t] = <<"unregister">>)
Retires(t) == (pc[t] \in Stops /\ stack[t] # <<"unregister">>) \/ (pc[t] = "drop" /\ stack[t] # <<"return">>)
Placing == \A t \in Callers : (Registers(t) => active = This(t)) /\ (Retires(t) => active = None)

\* A registered session that no call stops.
Up(s, places) == active = s /\ \A t \in Callers : refs[t] = <<s>> => pc[t] \in places

\* What is registered has a thread, or is about to; one that was stopped behind
\* the calls was stopped by its own thread.
Waits ==
  /\ \A s \in Sessions : active = s /\ ~session[s].stop /\ pc[s] = "idle" =>
       \E t \in Callers : refs[t] = <<s>> /\ pc[t] \in {"start", "connect", "startFailed", "unregister", "stop"}
  /\ \A s \in Sessions : Up(s, Working \cup {"connect"}) /\ session[s].stop =>
       pc[s] \in Tearing \cup {"ended", "idle"}
  /\ \A t \in Callers : /\ pc[t] \in Started => pc[This(t)] # "idle" \/ session[This(t)].stop
                        /\ pc[t] = "connect" => ~session[This(t)].stop

\* Media belong to a session with a thread, or are being torn down.
MediaUp ==
  \A s \in Sessions : session[s].media =>
    \/ ~session[s].stop /\ pc[s] # "idle"
    \/ \E t \in Threads : pc[t] = "teardown" /\ This(t) = s

\* While a session has more to say than its end, the window is about to show
\* that it is active.
HasThread(s) == (~session[s].stop /\ pc[s] # "idle") \/ pc[s] \in Tearing \/ said[s] # None
Shows ==
  /\ \A t \in Callers : pc[t] = "connect" => NoClosing /\ (said[t] = "Connecting" \/ WillShow)
  /\ \A s \in Sessions : Up(s, Working) /\ HasThread(s) =>
       NoClosing /\ WillShow /\ \A t \in Threads : said[t] \in Closing => t = s

\* The switches stand as the session's do, and no end of another cast is on
\* its way.
Going(s) == Up(s, Working \cup {"connect"}) /\ ~session[s].stop
Agrees ==
  \A s \in Sessions : Going(s) =>
    toggle = session[s].frozen /\ NoClosing /\ \A t \in Threads : said[t] \notin Closing

\* Nobody has anything to say any more.
Done(s) == session[s].stop /\ pc[s] \in {"ended", "idle"}
Rests == (\A t \in Threads : said[t] = None) /\ \A s \in Sessions : session[s].made => Done(s)

\* A start finds the window at rest, and retires a session that is.
Clears(t) ==
  \/ pc[t] \in {"retire", "register", "start"}
  \/ stack[t] \in {<<"register">>, <<"drop", "register">>}
Clear ==
  \A t \in Callers : Clears(t) =>
    /\ NoState /\ ~ShownActive /\ pc[t] \notin Tearing
    /\ \A u \in Threads : said[u] = None
    /\ \A s \in Sessions : session[s].made => (pc[t] = "start" /\ refs[t] = <<s>>) \/ Done(s)

\* Once a click is possible, or will be when the call's return is applied, a
\* closing state that is shown last is the last word.
View(k) == IF k = 0 THEN shown ELSE posts[k]
Final(i) ==
  \A k \in 0..Len(posts) :
    View(k) \in Closing /\ (\A j \in (k + 1)..i : posts[j] \notin SessionStates) =>
      Rests /\ \A j \in (k + 1)..Len(posts) : posts[j] \notin SessionStates
LastWord == (~pending => Final(0)) /\ \A i \in DOMAIN posts : posts[i] = "returned" => Final(i)

StepInv ==
  /\ Words /\ Silent /\ Stopped /\ Placing /\ Waits /\ MediaUp
  /\ Shows /\ Agrees /\ Clear /\ LastWord

InStep == Win /\ quitting = "no" => StepInv

-----------------------------------------------------------------------------
(* The steps of a call.                                                      *)

\* What a step of a call does, but for its first three on a new session.
Spares(t, s) ==
  \/ /\ session'[s].stop = session[s].stop /\ session'[s].frozen = session[s].frozen
     /\ session'[s].made => session[s].made
  \/ session'[s] = NoSession /\ pc[s] = "idle"
  \/ session[s].made /\ ~session[s].stop /\ session'[s].stop /\ pc'[t] = "teardown" /\ refs'[t] = <<s>>

Moves(t) ==
  /\ said[t] = None /\ \A u \in Threads \ {t} : said'[u] = said[u]
  /\ \A u \in Callers \ {t} : pc'[u] = pc[u] /\ stack'[u] = stack[u] /\ refs'[u] = refs[u]
  /\ \A s \in Sessions : pc'[s] = pc[s] /\ refs'[s] = refs[s]
  /\ said'[t] # None => said'[t] \in Spoken /\ pc'[t] \in Speaking
  /\ said'[t] \in Closing =>
       active' = None \/ (refs'[t] = <<active'>> /\ pc'[t] \notin Working \cup {"connect"})
  /\ state' = "Stopping" => pc'[t] \in Tearing \/ (state = "Stopping" /\ pc[t] \notin Tearing)
  /\ pc'[t] \in Tearing => session'[refs'[t][1]].stop
  /\ pc'[t] \in Begun \/ (pc'[t] \in Stops /\ stack'[t] = <<"unregister">>) => active' = refs'[t][1]
  /\ (pc'[t] \in Stops /\ stack'[t] # <<"unregister">>) \/ (pc'[t] = "drop" /\ stack'[t] # <<"return">>)
       => active' = None
  /\ active' \in {active, None}
  /\ \A s \in Sessions : Spares(t, s)
  /\ \A s \in Sessions : session'[s].media =>
       \/ session[s].media /\ (pc[t] = "teardown" => refs[t][1] # s)
       \/ ~session'[s].stop /\ pc[s] # "idle"
  /\ \A s \in Sessions : active' = s /\ refs[t] = <<s>> /\ pc[t] \notin Working =>
       refs'[t] = <<s>> /\ pc'[t] \notin Working
  /\ \A s \in Sessions : active' = s /\ refs[t] = <<s>> /\ pc[t] \notin Working \cup {"connect"} =>
       refs'[t] = <<s>> /\ pc'[t] \notin Working \cup {"connect"}
  /\ pc'[t] # "connect"
  /\ \A s \in Sessions : active' = s /\ ~session'[s].stop /\ pc[s] = "idle" =>
       refs'[t] = <<s>> /\ pc'[t] \in {"startFailed", "unregister", "stop"}
  /\ pc'[t] \in Started => pc[refs'[t][1]] # "idle" \/ session'[refs'[t][1]].stop
  /\ pc'[t] \in {"retire", "register", "start"} \/ stack'[t] \in {<<"register">>, <<"drop", "register">>} =>
       Clears(t) /\ pc[t] # "start" /\ pc'[t] \notin Tearing \cup {"start"} /\ said'[t] = None

\* The others have nothing and say nothing.
LEMMA OthersSilent ==
  ASSUME AppsInv, Alone, OneCast, Silent, NEW t \in Callers, pc[t] # "idle"
  PROVE  /\ \A u \in Callers \ {t} : /\ pc[u] = "idle" /\ stack[u] = <<>> /\ refs[u] = <<>>
                                     /\ said[u] = None /\ u \in Threads /\ u \notin Sessions
         /\ \A s \in Sessions : session[s].made => s = active \/ refs[t] = <<s>>
         /\ \A s \in Sessions : ~session[s].made => pc[s] = "idle" /\ said[s] = None
         /\ refs[t] = <<>> \/ (One(refs[t]) /\ (active = None \/ refs[t] = <<active>>))
         /\ active \in Sessions \cup {None}
<1>1. EngineInv /\ Control
  BY DEF AppsInv, EngineInv
<1>2. \A u \in Callers \ {t} : pc[u] = "idle" /\ stack[u] = <<>> /\ refs[u] = <<>>
  BY <1>1, OthersHoldNothing
<1>3. \A u \in Callers \ {t} : said[u] = None /\ u \in Threads /\ u \notin Sessions
  BY <1>2 DEF Silent, Speaking, Stops, Threads
<1>4. \A s \in Sessions : session[s].made => s = active \/ refs[t] = <<s>>
  BY <1>2 DEF OneCast
<1>5. \A s \in Sessions : ~session[s].made => pc[s] = "idle" /\ said[s] = None
  BY <1>1 DEF EngineInv, Exists, Silent
<1>6. refs[t] = <<>> \/ (One(refs[t]) /\ (active = None \/ refs[t] = <<active>>))
  BY DEF OneCast
<1>7. active \in Sessions \cup {None}
  BY <1>1 DEF EngineInv, EngineTypeOK
<1> QED
  BY <1>2, <1>3, <1>4, <1>5, <1>6, <1>7

\* A step of a call keeps the window in step.
LEMMA CallerInStep ==
  ASSUME AppsInv, Alone, OneCast, Win, StepInv, AppsInv', NEW t \in Callers, pc[t] # "idle",
         Moves(t), UNCHANGED appVars
  PROVE  StepInv'
<1> USE DEF StepInv
<1>0. /\ UNCHANGED <<program, posts, shown, pending, toggle, inside>> /\ t \in Threads /\ t \notin Sessions
      /\ NoState' = NoState /\ NoClosing' = NoClosing /\ WillShow' = WillShow /\ ShownActive' = ShownActive
  BY DEF appVars, apiVars, Threads, NoState, NoClosing, WillShow, ShownActive
<1>1. /\ \A u \in Callers \ {t} : /\ pc[u] = "idle" /\ stack[u] = <<>> /\ refs[u] = <<>>
                                  /\ said[u] = None /\ u \in Threads /\ u \notin Sessions
      /\ \A s \in Sessions : session[s].made => s = active \/ refs[t] = <<s>>
      /\ \A s \in Sessions : ~session[s].made => pc[s] = "idle" /\ said[s] = None
      /\ refs[t] = <<>> \/ (One(refs[t]) /\ (active = None \/ refs[t] = <<active>>))
      /\ active \in Sessions \cup {None}
  BY OthersSilent
<1>2. /\ \A u \in Callers \ {t} : /\ pc'[u] = "idle" /\ stack'[u] = <<>> /\ refs'[u] = <<>> /\ said'[u] = None
      /\ \A s \in Sessions : pc'[s] = pc[s] /\ refs'[s] = refs[s] /\ said'[s] = said[s] /\ s \in Threads
      /\ said[t] = None
  BY <1>0, <1>1 DEF Moves, Threads
<1>3. \A s \in Sessions : Spares(t, s)
  BY DEF Moves
<1>4. \A s \in Sessions : session'[s].stop => session[s].stop \/ (pc'[t] = "teardown" /\ refs'[t] = <<s>>)
  BY <1>3 DEF Spares, NoSession
<1>5. \A s \in Sessions : session[s].stop => session'[s].stop \/ (pc[s] = "idle" /\ ~session'[s].made)
  BY <1>3 DEF Spares, NoSession
<1>6. \A s \in Sessions : pc[s] # "idle" => session[s].made
  BY <1>1
<1>7. \A s \in Sessions : active' = s => session'[s].made /\ active = s /\ s # None
  BY DEF Moves, AppsInv, EngineInv, Exists
<1>8. Words'
  BY <1>0, <1>2 DEF Moves, Words, Threads
<1>9. Silent'
  <2>1. \A u \in Callers : said'[u] # None => pc'[u] \in Speaking
    BY <1>2 DEF Moves
  <2>2. \A s \in Sessions : pc'[s] = "idle" => said'[s] = None
    BY <1>2 DEF Silent
  <2>3. \A s \in Sessions : said'[s] \in Closing => pc'[s] = "ended" /\ session'[s].stop
    BY <1>2, <1>5 DEF Silent
  <2> QED
    BY <2>1, <2>2, <2>3 DEF Silent
<1>10. Stopped'
  <2>1. ASSUME NEW u \in Threads, pc'[u] \in Tearing PROVE session'[refs'[u][1]].stop
    <3>1. CASE u = t
      BY <2>1, <3>1 DEF Moves
    <3>2. CASE u \in Callers \ {t}
      BY <1>2, <2>1, <3>2 DEF Tearing
    <3>3. CASE u \in Sessions
      <4>1. pc[u] \in Tearing /\ refs'[u] = refs[u]
        BY <1>2, <2>1, <3>3
      <4>2. This(u) = u /\ session[u].stop
        BY <3>3, <4>1, OwnAt DEF Stopped, AppsInv, EngineInv, Tearing, Stops, Threads
      <4>3. session'[u].stop
        BY <1>5, <3>3, <4>1, <4>2 DEF Tearing
      <4> QED
        BY <4>1, <4>2, <4>3 DEF This
    <3> QED
      BY <3>1, <3>2, <3>3 DEF Threads
  <2>2. ASSUME state' = "Stopping" PROVE \E u \in Threads : pc'[u] \in Tearing
    <3>1. CASE pc'[t] \in Tearing
      BY <1>0, <3>1
    <3>2. CASE state = "Stopping" /\ pc[t] \notin Tearing
      <4>1. PICK u \in Threads : pc[u] \in Tearing
        BY <3>2 DEF Stopped
      <4>2. u \in Sessions
        BY <1>1, <3>2, <4>1 DEF Tearing, Threads
      <4> QED
        BY <1>2, <4>1, <4>2
    <3> QED
      BY <2>2, <3>1, <3>2 DEF Moves
  <2> QED
    BY <2>1, <2>2 DEF Stopped, This
<1>11. Placing'
  <2> SUFFICES ASSUME NEW u \in Callers
               PROVE  /\ pc'[u] \in Begun \/ (pc'[u] \in Stops /\ stack'[u] = <<"unregister">>)
                           => active' = refs'[u][1]
                      /\ (pc'[u] \in Stops /\ stack'[u] # <<"unregister">>)
                           \/ (pc'[u] = "drop" /\ stack'[u] # <<"return">>) => active' = None
    BY DEF Placing, Registers, Retires, This
  <2>1. CASE u = t
    BY <2>1 DEF Moves
  <2>2. CASE u # t
    BY <1>2, <2>2 DEF Begun, Stops
  <2> QED
    BY <2>1, <2>2
<1>12. ASSUME NEW s \in Sessions, NEW P, (P = Working \/ P = Working \cup {"connect"}), Up(s, P)'
       PROVE  Up(s, P)
  <2>1. active = s /\ active' = s
    BY <1>7, <1>12 DEF Up
  <2>2. refs[t] = <<s>> => pc[t] \in P
    <3>1. refs'[t] = <<s>> => pc'[t] \in P
      BY <1>12 DEF Up
    <3> QED
      BY <1>12, <2>1, <3>1 DEF Moves
  <2>3. \A u \in Callers \ {t} : refs[u] # <<s>>
    BY <1>1
  <2> QED
    BY <2>1, <2>2, <2>3 DEF Up
<1>13. Waits'
  <2>1. ASSUME NEW s \in Sessions, active' = s, ~session'[s].stop, pc'[s] = "idle"
        PROVE  \E u \in Callers : refs'[u] = <<s>> /\ pc'[u] \in {"start", "connect", "startFailed", "unregister", "stop"}
    <3>1. refs'[t] = <<s>> /\ pc'[t] \in {"startFailed", "unregister", "stop"}
      BY <1>2, <2>1 DEF Moves
    <3> QED
      BY <3>1
  <2>2. ASSUME NEW s \in Sessions, Up(s, Working \cup {"connect"})', session'[s].stop
        PROVE  pc'[s] \in Tearing \cup {"ended", "idle"}
    <3>1. Up(s, Working \cup {"connect"})
      BY <1>12, <2>2
    <3>2. ~(pc'[t] = "teardown" /\ refs'[t] = <<s>>)
      BY <2>2 DEF Up, Working, Started
    <3>3. session[s].stop
      BY <1>4, <2>2, <3>2
    <3> QED
      BY <1>2, <3>1, <3>3 DEF Waits
  <2>3. ASSUME NEW u \in Callers, pc'[u] \in Started PROVE pc'[refs'[u][1]] # "idle" \/ session'[refs'[u][1]].stop
    <3>1. u = t
      BY <1>2, <2>3 DEF Started
    <3>2. refs'[t][1] \in Sessions
      <4>1. pc'[t] \in Begun
        BY <2>3, <3>1 DEF Started, Begun
      <4>2. One(refs'[t])
        BY <4>1 DEF AppsInv, EngineInv, Control, CallerShape, Begun, Stops
      <4> QED
        BY <4>2 DEF One
    <3> QED
      BY <1>2, <2>3, <3>1, <3>2 DEF Moves
  <2>4. \A u \in Callers : pc'[u] # "connect"
    BY <1>2 DEF Moves
  <2> QED
    BY <2>1, <2>2, <2>3, <2>4 DEF Waits, This
<1>14. MediaUp'
  <2> SUFFICES ASSUME NEW s \in Sessions, session'[s].media, ~(~session'[s].stop /\ pc'[s] # "idle")
               PROVE  \E u \in Threads : pc'[u] = "teardown" /\ refs'[u][1] = s
    BY DEF MediaUp, This
  <2>1. session[s].media /\ (pc[t] = "teardown" => refs[t][1] # s)
    BY <1>2 DEF Moves
  <2>2. CASE ~session[s].stop /\ pc[s] # "idle"
    <3>1. session'[s].stop
      BY <1>2, <2>2
    <3>2. pc'[t] = "teardown" /\ refs'[t] = <<s>>
      BY <1>4, <2>2, <3>1
    <3> QED
      BY <1>0, <3>2
  <2>3. CASE \E u \in Threads : pc[u] = "teardown" /\ This(u) = s
    <3>1. PICK u \in Threads : pc[u] = "teardown" /\ refs[u][1] = s
      BY <2>3 DEF This
    <3>2. u \in Sessions
      BY <1>1, <2>1, <3>1 DEF Threads
    <3> QED
      BY <1>2, <3>1, <3>2
  <2> QED
    BY <2>1, <2>2, <2>3 DEF MediaUp
<1>15. ASSUME said'[t] \in Closing PROVE \A s \in Sessions : ~Up(s, Working)' /\ ~Up(s, Working \cup {"connect"})'
  <2>1. active' = None \/ (refs'[t] = <<active'>> /\ pc'[t] \notin Working \cup {"connect"})
    BY <1>15 DEF Moves
  <2> QED
    BY <1>7, <2>1 DEF Up
<1>16. Shows'
  <2>1. \A u \in Callers : pc'[u] # "connect"
    BY <1>2 DEF Moves
  <2>2. ASSUME NEW s \in Sessions, Up(s, Working)', HasThread(s)'
        PROVE  NoClosing /\ WillShow /\ \A u \in Threads : said'[u] \in Closing => u = s
    <3>1. Up(s, Working)
      BY <1>12, <2>2
    <3>2. HasThread(s)
      <4>1. CASE ~session'[s].stop /\ pc'[s] # "idle"
        BY <1>2, <1>5, <4>1 DEF HasThread
      <4>2. CASE pc'[s] \in Tearing \/ said'[s] # None
        BY <1>2, <4>2 DEF HasThread
      <4> QED
        BY <2>2, <4>1, <4>2 DEF HasThread
    <3>3. NoClosing /\ WillShow /\ \A u \in Threads : said[u] \in Closing => u = s
      BY <3>1, <3>2 DEF Shows
    <3>4. said'[t] \notin Closing
      BY <1>15, <2>2
    <3>5. \A u \in Threads \ {t} : said'[u] = said[u]
      BY DEF Moves
    <3> QED
      BY <3>3, <3>4, <3>5
  <2> QED
    BY <1>0, <2>1, <2>2 DEF Shows
<1>17. Agrees'
  <2> SUFFICES ASSUME NEW s \in Sessions, Up(s, Working \cup {"connect"})', ~session'[s].stop
               PROVE  toggle' = session'[s].frozen /\ NoClosing' /\ \A u \in Threads : said'[u] \notin Closing
    BY DEF Agrees, Going
  <2>1. Up(s, Working \cup {"connect"}) /\ session'[s].made
    BY <1>7, <1>12 DEF Up
  <2>2. session'[s].stop = session[s].stop /\ session'[s].frozen = session[s].frozen
    BY <1>3, <2>1 DEF Spares, NoSession
  <2>3. toggle = session[s].frozen /\ NoClosing /\ \A u \in Threads : said[u] \notin Closing
    BY <2>1, <2>2 DEF Agrees, Going
  <2>4. said'[t] \notin Closing /\ \A u \in Threads \ {t} : said'[u] = said[u]
    BY <1>15 DEF Moves
  <2> QED
    BY <1>0, <2>2, <2>3, <2>4
<1>18. Clear'
  <2> SUFFICES ASSUME NEW u \in Callers, Clears(u)'
               PROVE  /\ NoState /\ ~ShownActive /\ pc'[u] \notin Tearing
                      /\ \A v \in Threads : said'[v] = None
                      /\ \A s \in Sessions : session'[s].made => session'[s].stop /\ pc'[s] \in {"ended", "idle"}
    BY <1>0 DEF Clear, Done
  <2>1. u = t
    BY <1>2 DEF Clears
  <2>2. Clears(t) /\ pc[t] # "start" /\ pc'[t] \notin Tearing \cup {"start"} /\ said'[t] = None
    BY <2>1 DEF Clears, Moves
  <2>3. /\ NoState /\ ~ShownActive
        /\ \A v \in Threads : said[v] = None
        /\ \A s \in Sessions : session[s].made => session[s].stop /\ pc[s] \in {"ended", "idle"}
    BY <2>2 DEF Clear, Done
  <2>4. \A v \in Threads : said'[v] = None
    BY <2>2, <2>3 DEF Moves
  <2>5. ASSUME NEW s \in Sessions, session'[s].made PROVE session'[s].stop /\ pc'[s] \in {"ended", "idle"}
    <3>1. session[s].made
      BY <1>3, <2>5 DEF Spares, NoSession
    <3> QED
      BY <1>2, <1>5, <2>3, <2>5, <3>1
  <2> QED
    BY <2>1, <2>2, <2>3, <2>4, <2>5
<1>19. LastWord'
  <2>1. pending /\ \A i \in DOMAIN posts : posts[i] # "returned"
    BY DEF Alone
  <2> QED
    BY <1>0, <2>1 DEF LastWord
<1> QED
  BY <1>8, <1>9, <1>10, <1>11, <1>13, <1>14, <1>16, <1>17, <1>18, <1>19

\* A step of a call leaves the other threads and what they say.
LEMMA StepFrame ==
  ASSUME EngineInv, NEW t \in Callers, EngineSteps(t), ~Connect(t)
  PROVE  /\ said[t] = None /\ \A u \in Threads \ {t} : said'[u] = said[u]
         /\ \A u \in Threads \ {t} : pc'[u] = pc[u] /\ stack'[u] = stack[u] /\ refs'[u] = refs[u]
<1>0. t \in Threads /\ said \in [Threads -> SessionStates \cup {None}]
  BY DEF Threads, EngineInv, EngineTypeOK
<1>1. said[t] = None
  BY DEF EngineSteps, StartSteps, NotFound, Detach, Detached, Drop, StopSteps, Retire, Register, Begin,
         Launched, Answered, StartMedia, Streaming, StartFailed, Unregister,
         StopOnce, Teardown, Settle, ToIdle, At
<1>2. (\E to : said' = [said EXCEPT ![t] = to]) \/ said' = said
  <2>1. Quietly \/ \E to \in SessionStates : Transition(t, to)
    BY DEF EngineSteps, StartSteps, NotFound, Detach, Detached, Drop, StopSteps, Retire, Register, Begin,
           Launched, Answered, StartMedia, Streaming, StartFailed, Unregister,
           StopOnce, Teardown, Settle, ToIdle, SessionStates
  <2> QED
    BY <2>1 DEF Quietly, Transition
<1>3. \A u \in Threads \ {t} : said'[u] = said[u]
  BY <1>0, <1>2
<1>4. /\ pc \in [Threads -> Labels] /\ stack \in [Threads -> Seq(Labels)] /\ refs \in [Threads -> Seq(Sessions)]
  BY DEF EngineInv, Control
<1>5. \E p : pc' = [pc EXCEPT ![t] = p]
  BY DEF EngineSteps, StartSteps, NotFound, Detach, Detached, Drop, StopSteps, Retire, Register, Begin,
         Launched, Answered, StartMedia, Streaming, StartFailed, Unregister,
         StopOnce, Teardown, Settle, ToIdle, Goto, Call, Return
<1>6. (\E k : stack' = [stack EXCEPT ![t] = k]) \/ stack' = stack
  BY DEF EngineSteps, StartSteps, NotFound, Detach, Detached, Drop, StopSteps, Retire, Register, Begin,
         Launched, Answered, StartMedia, Streaming, StartFailed, Unregister,
         StopOnce, Teardown, Settle, ToIdle, Goto, Call, Return
<1>7. (\E r : refs' = [refs EXCEPT ![t] = r]) \/ refs' = refs
  BY DEF EngineSteps, StartSteps, NotFound, Detach, Detached, Drop, StopSteps, Retire, Register, Begin,
         Launched, Answered, StartMedia, Streaming, StartFailed, Unregister,
         StopOnce, Teardown, Settle, ToIdle, Hold, LetGo
<1>8. \A u \in Threads \ {t} : pc'[u] = pc[u] /\ stack'[u] = stack[u] /\ refs'[u] = refs[u]
  BY <1>4, <1>5, <1>6, <1>7
<1> QED
  BY <1>1, <1>3, <1>8

\* What a transition that is asked for says.
LEMMA Says ==
  ASSUME EngineInv, NEW t \in Threads, NEW to \in SessionStates, Transition(t, to)
  PROVE  /\ said'[t] \in {to, said[t]} /\ state' \in {to, state}
         /\ state' = to \/ ~IsValidTransition(state, to)
BY DEF EngineInv, EngineTypeOK, Transition

\* Between the first message and the stream.
LEMMA StartedMoves ==
  ASSUME AppsInv, Alone, OneCast, StepInv, NEW t \in Callers,
         Launched(t) \/ Answered(t) \/ StartMedia(t) \/ Streaming(t)
  PROVE  Moves(t)
<1> USE DEF StepInv
<1>0. EngineInv /\ EngineSteps(t) /\ ~Connect(t) /\ t \in Threads /\ t \notin Sessions
  BY DEF AppsInv, EngineSteps, StartSteps, Launched, Answered, StartMedia, Streaming, At, Connect, Threads
<1>1. pc[t] \in Started /\ stack[t] = <<>> /\ One(refs[t]) /\ said[t] = None
  BY <1>0, CallerAt DEF EngineInv, Launched, Answered, StartMedia, Streaming, At, Started, Begun
<1>2. PICK s \in Sessions : refs[t] = <<s>>
  BY <1>1 DEF One
<1>3. This(t) = s /\ refs[t][1] = s /\ session[s].made /\ active = s /\ s # None
  BY <1>0, <1>1, <1>2 DEF This, EngineInv, Exists, Placing, Registers, Started, Begun
<1>4. /\ pc \in [Threads -> Labels] /\ stack \in [Threads -> Seq(Labels)]
      /\ said \in [Threads -> SessionStates \cup {None}] /\ session \in [Sessions -> Session]
  BY <1>0 DEF EngineInv, Control, EngineTypeOK
<1>5. refs' = refs /\ active' = active /\ refs'[t][1] = s /\ refs'[t] = <<s>>
  BY <1>2, <1>3 DEF Launched, Answered, StartMedia, Streaming, KeepSessions
<1>6. /\ \/ pc'[t] \in Started \cup {"startFailed"} /\ stack'[t] = <<>>
         \/ pc'[t] = "drop" /\ stack'[t] = <<"return">>
      /\ said'[t] \in {None, "Negotiating", "Streaming"} /\ (said'[t] # None => pc'[t] \in {"answer", "drop"})
      /\ state' \in {state, "Negotiating", "Streaming"}
  <2>1. CASE Launched(t) \/ Answered(t) \/ StartMedia(t)
    <3>1. pc'[t] \in Started \cup {"startFailed"} /\ stack'[t] = <<>>
      BY <1>0, <1>1, <1>4, <2>1 DEF Launched, Answered, StartMedia, Goto, Started
    <3>2. /\ said'[t] \in {None, "Negotiating"} /\ (said'[t] # None => pc'[t] = "answer")
          /\ state' \in {state, "Negotiating"}
      BY <1>0, <1>1, <1>4, <2>1 DEF Launched, Answered, StartMedia, Goto, Quietly, Transition
    <3> QED
      BY <3>1, <3>2
  <2>2. CASE Streaming(t)
    <3>1. pc'[t] = "drop" /\ stack'[t] = <<"return">> \o <<>>
      BY <1>0, <1>1, <1>4, <2>2 DEF Streaming
    <3>2. <<"return">> \o <<>> = <<"return">>
      OBVIOUS
    <3>3. said'[t] \in {None, "Streaming"} /\ state' \in {state, "Streaming"}
      BY <1>0, <1>1, <1>4, <2>2 DEF Streaming, Transition
    <3> QED
      BY <3>1, <3>2, <3>3
  <2> QED
    BY <2>1, <2>2
<1>7. \A o \in Sessions : /\ session'[o].stop = session[o].stop /\ session'[o].frozen = session[o].frozen
                          /\ session'[o].made = session[o].made
                          /\ session'[o].media => session[o].media \/ (o = s /\ ~session[s].stop)
  <2>1. CASE session' = session
    BY <2>1
  <2>2. CASE session' = [session EXCEPT ![s].media = TRUE] /\ ~session[s].stop
    BY <1>4, <2>2 DEF Session
  <2> QED
    BY <1>3, <2>1, <2>2 DEF Launched, Answered, StartMedia, Streaming, KeepSessions
<1>8. pc[s] # "idle" \/ session[s].stop
  BY <1>1, <1>3 DEF Waits
<1>9. \A u \in Threads \ {t} : pc'[u] = pc[u] /\ stack'[u] = stack[u] /\ refs'[u] = refs[u] /\ said'[u] = said[u]
  BY <1>0, StepFrame
<1>10. pc[t] \in Working /\ pc[t] \notin Tearing \cup {"connect", "teardown", "start"}
  BY <1>1 DEF Started, Working, Tearing
<1>11. /\ \A u \in Callers \ {t} : pc'[u] = pc[u] /\ stack'[u] = stack[u] /\ refs'[u] = refs[u]
       /\ \A o \in Sessions : pc'[o] = pc[o] /\ refs'[o] = refs[o]
  BY <1>0, <1>9 DEF Threads
<1>12. /\ said'[t] # None => said'[t] \in Spoken /\ pc'[t] \in Speaking
       /\ said'[t] \notin Closing
       /\ state' = "Stopping" => state = "Stopping"
  BY <1>6 DEF Spoken, Speaking, Closing, SessionStates
<1>13. /\ pc'[t] \notin Tearing /\ pc'[t] \notin Stops /\ pc'[t] # "connect"
       /\ pc'[t] = "drop" => stack'[t] = <<"return">>
       /\ pc'[t] \notin {"retire", "register", "start"}
       /\ stack'[t] \notin {<<"register">>, <<"drop", "register">>}
  BY <1>6 DEF Started, Tearing, Stops
<1>14. \A o \in Sessions : Spares(t, o)
  BY <1>7 DEF Spares
<1>15. \A o \in Sessions : session'[o].media =>
         \/ session[o].media /\ (pc[t] = "teardown" => refs[t][1] # o)
         \/ ~session'[o].stop /\ pc[o] # "idle"
  BY <1>7, <1>8, <1>10
<1>16. \A o \in Sessions : ~(active' = o /\ ~session'[o].stop /\ pc[o] = "idle")
  BY <1>3, <1>5, <1>7, <1>8
<1>17. pc'[t] \in Started => pc[refs'[t][1]] # "idle" \/ session'[refs'[t][1]].stop
  BY <1>5, <1>7, <1>8
<1> QED
  BY <1>1, <1>3, <1>5, <1>9, <1>10, <1>11, <1>12, <1>13, <1>14, <1>15, <1>16, <1>17 DEF Moves

\* CastSession::Stop, for a call.
LEMMA StopMoves ==
  ASSUME AppsInv, Alone, OneCast, StepInv, NEW t \in Callers, StopSteps(t)
  PROVE  Moves(t)
<1> USE DEF StepInv
<1>0. EngineInv /\ EngineSteps(t) /\ ~Connect(t) /\ t \in Threads /\ t \notin Sessions
  BY DEF AppsInv, EngineSteps, StopSteps, StopOnce, Teardown, Settle, ToIdle, At, Connect, Threads
<1>1. pc[t] \in Stops /\ said[t] = None
  BY DEF StopSteps, StopOnce, Teardown, Settle, ToIdle, At, Stops
<1>2. Stopping(stack[t], refs[t]) /\ refs[t] # <<>>
  BY <1>0, <1>1, CallerAt DEF EngineInv, Stopping, One, Two
<1>3. PICK s \in Sessions : refs[t] = <<s>>
  BY <1>2 DEF OneCast, One
<1>4. \/ stack[t] = <<"unregister">>
      \/ stack[t] \in {<<"drop", "register">>, <<"drop", "return">>,
                       <<"drop", "detached", "idle">>, <<"drop", "detached", "return">>}
  BY <1>2, <1>3 DEF Stopping, Two
<1>5. This(t) = s /\ refs[t][1] = s /\ session[s].made /\ s # None
  BY <1>0, <1>3 DEF This, EngineInv, Exists
<1>6. (stack[t] = <<"unregister">> => active = s) /\ (stack[t] # <<"unregister">> => active = None)
  BY <1>1, <1>5 DEF Placing, Registers, Retires
<1>7. /\ pc \in [Threads -> Labels] /\ stack \in [Threads -> Seq(Labels)]
      /\ said \in [Threads -> SessionStates \cup {None}] /\ session \in [Sessions -> Session]
      /\ state \in SessionStates
  BY <1>0 DEF EngineInv, Control, EngineTypeOK
<1>8. refs' = refs /\ active' = active /\ refs'[t][1] = s /\ refs'[t] = <<s>>
  BY <1>3, <1>5 DEF StopSteps, StopOnce, Teardown, Settle, ToIdle, KeepSessions
<1>9. \A u \in Threads \ {t} : pc'[u] = pc[u] /\ stack'[u] = stack[u] /\ refs'[u] = refs[u] /\ said'[u] = said[u]
  BY <1>0, StepFrame
<1>10. \A u \in Callers \ {t} : refs[u] = <<>>
  BY <1>0, <1>1, OthersHoldNothing DEF EngineInv, Stops
<1>11. ASSUME NEW o \in Sessions, active = o, ~session[o].stop, pc[o] = "idle" PROVE pc[t] = "stop" /\ o = s
  <2>1. PICK u \in Callers : refs[u] = <<o>> /\ pc[u] \in {"start", "connect", "startFailed", "unregister", "stop"}
    BY <1>11 DEF Waits
  <2>2. u = t
    BY <1>10, <2>1
  <2> QED
    BY <1>1, <1>3, <2>1, <2>2 DEF Stops
<1>12. Clears(t) => pc[t] = "stop" /\ session[s].stop
  BY <1>1, <1>5 DEF Clear, Done, Tearing, Stops
<1>13. /\ Return(t) => \/ stack[t] = <<"unregister">> /\ pc'[t] = "unregister" /\ stack'[t] = <<>>
                       \/ /\ stack[t] # <<"unregister">> /\ pc'[t] = "drop"
                          /\ stack'[t] \in {<<"register">>, <<"return">>,
                                            <<"detached", "idle">>, <<"detached", "return">>}
                          /\ stack'[t] = <<"register">> => stack[t] = <<"drop", "register">>
                          /\ stack'[t] # <<"drop", "register">>
       /\ \A p \in Stops : Goto(t, p) => pc'[t] = p /\ stack'[t] = stack[t]
  <2>1. Return(t) => pc'[t] = Head(stack[t]) /\ stack'[t] = Tail(stack[t])
    BY <1>0, <1>7 DEF Return
  <2>2. \A p \in Stops : Goto(t, p) => pc'[t] = p /\ stack'[t] = stack[t]
    BY <1>0, <1>7 DEF Goto
  <2>3. CASE stack[t] = <<"unregister">>
    BY <2>1, <2>2, <2>3
  <2>4. CASE stack[t] = <<"drop", "register">>
    BY <2>1, <2>2, <2>4
  <2>5. CASE stack[t] = <<"drop", "return">>
    BY <2>1, <2>2, <2>5
  <2>6. CASE stack[t] = <<"drop", "detached", "idle">>
    <3>1. Head(stack[t]) = "drop" /\ Tail(stack[t]) = <<"detached", "idle">> /\ stack[t] # <<"unregister">>
      BY <2>6
    <3>2. <<"detached", "idle">> # <<"register">> /\ <<"detached", "idle">> # <<"drop", "register">>
      OBVIOUS
    <3> QED
      BY <2>1, <2>2, <3>1, <3>2
  <2>7. CASE stack[t] = <<"drop", "detached", "return">>
    <3>1. Head(stack[t]) = "drop" /\ Tail(stack[t]) = <<"detached", "return">> /\ stack[t] # <<"unregister">>
      BY <2>7
    <3>2. <<"detached", "return">> # <<"register">> /\ <<"detached", "return">> # <<"drop", "register">>
      OBVIOUS
    <3> QED
      BY <2>1, <2>2, <3>1, <3>2
  <2> QED
    BY <1>4, <2>3, <2>4, <2>5, <2>6, <2>7
<1>14. /\ Return(t) \/ Goto(t, "teardown") \/ Goto(t, "settle") \/ Goto(t, "toIdle")
       /\ said'[t] \in {None, "Stopping"} \cup Closing
       /\ said'[t] \in Closing => Return(t)
       /\ state' = "Stopping" => \/ ~Return(t)
                                 \/ state = "Stopping" /\ pc[t] = "stop"
       /\ \A o \in Sessions \ {s} : session'[o] = session[o]
       /\ session'[s].made = session[s].made
       /\ session'[s].media => session[s].media /\ pc[t] # "teardown"
       /\ \/ session'[s].stop = session[s].stop /\ session'[s].frozen = session[s].frozen
          \/ ~session[s].stop /\ session'[s].stop /\ pc[t] = "stop" /\ Goto(t, "teardown")
       /\ ~Return(t) => session'[s].stop
       /\ pc[t] = "stop" /\ session[s].stop => Return(t) /\ said'[t] = None
       /\ pc[t] = "stop" => session'[s].stop
  <2>1. CASE StopOnce(t)
    <3>1. CASE session[s].stop
      BY <1>1, <1>5, <2>1, <3>1 DEF StopOnce, Quietly, At
    <3>2. CASE ~session[s].stop
      <4>1. session' = [session EXCEPT ![s].stop = TRUE, ![s].frozen = FALSE]
        BY <1>5, <2>1, <3>2 DEF StopOnce
      <4>2. /\ \A o \in Sessions \ {s} : session'[o] = session[o]
            /\ session'[s].made = session[s].made /\ session'[s].media = session[s].media /\ session'[s].stop
        BY <1>7, <4>1 DEF Session
      <4>3. /\ pc[t] = "stop" /\ Goto(t, "teardown")
            /\ Quietly \/ Transition(t, "Stopping")
        BY <1>5, <2>1, <3>2 DEF StopOnce, At
      <4>4. said'[t] \in {None, "Stopping"}
        BY <1>0, <1>1, <1>7, <4>3 DEF Quietly, Transition
      <4>5. ~Return(t)
        <5>1. pc'[t] = "teardown"
          BY <1>13, <4>3 DEF Stops
        <5> QED
          BY <1>13, <5>1
      <4> QED
        BY <3>2, <4>2, <4>3, <4>4, <4>5 DEF Closing, SessionStates
    <3> QED
      BY <3>1, <3>2
  <2>2. CASE Teardown(t)
    <3>1. session' = [session EXCEPT ![s].media = FALSE, ![s].recovering = FALSE]
      BY <1>5, <2>2 DEF Teardown
    <3>2. /\ \A o \in Sessions \ {s} : session'[o] = session[o]
          /\ session'[s].made = session[s].made /\ ~session'[s].media
          /\ session'[s].stop = session[s].stop /\ session'[s].frozen = session[s].frozen
      BY <1>7, <3>1 DEF Session
    <3>3. /\ pc[t] = "teardown" /\ Goto(t, "settle") /\ Quietly
      BY <2>2 DEF Teardown, At
    <3>4. session[s].stop
      BY <1>0, <1>5, <3>3 DEF Stopped, Tearing
    <3>5. ~Return(t)
      <4>1. pc'[t] = "settle"
        BY <1>13, <3>3 DEF Stops
      <4> QED
        BY <1>13, <4>1
    <3> QED
      BY <1>1, <3>2, <3>3, <3>4, <3>5 DEF Quietly, Closing, SessionStates
  <2>3. CASE Settle(t) \/ ToIdle(t)
    <3>1. pc[t] \in {"settle", "toIdle"} /\ session' = session
      BY <2>3 DEF Settle, ToIdle, At, KeepSessions
    <3>2. session[s].stop
      BY <1>0, <1>5, <3>1 DEF Stopped, Tearing
    <3>3. \/ Transition(t, "Failed") /\ Return(t)
          \/ state = "Failed" /\ Transition(t, "Stopping") /\ Goto(t, "toIdle")
          \/ Transition(t, "Idle") /\ Return(t)
      BY <2>3 DEF Settle, ToIdle
    <3>4. CASE Transition(t, "Failed") /\ Return(t)
      <4>1. said'[t] = "Failed" /\ state' = "Failed"
        BY <1>0, <1>7, <3>4 DEF Transition, IsValidTransition
      <4> QED
        BY <3>1, <3>4, <4>1 DEF Closing
    <3>5. CASE state = "Failed" /\ Transition(t, "Stopping") /\ Goto(t, "toIdle")
      <4>1. said'[t] = "Stopping"
        BY <1>0, <1>7, <3>5 DEF Transition, IsValidTransition
      <4>2. ~Return(t)
        <5>1. pc'[t] = "toIdle"
          BY <1>13, <3>5 DEF Stops
        <5> QED
          BY <1>13, <5>1
      <4> QED
        BY <3>1, <3>2, <3>5, <4>1, <4>2 DEF Closing
    <3>6. CASE Transition(t, "Idle") /\ Return(t)
      <4>1. said'[t] \in {None, "Idle"}
        BY <1>0, <1>1, <1>7, <3>6 DEF Transition
      <4>2. IsValidTransition("Stopping", "Idle")
        BY DEF IsValidTransition, Successors
      <4>3. state' # "Stopping"
        BY <1>7, <3>6, <4>2 DEF Transition
      <4> QED
        BY <3>1, <3>6, <4>1, <4>3 DEF Closing
    <3> QED
      BY <3>3, <3>4, <3>5, <3>6
  <2> QED
    BY <2>1, <2>2, <2>3 DEF StopSteps
<1>15. ~Return(t) => pc'[t] \in Tearing /\ stack'[t] = stack[t]
  BY <1>13, <1>14 DEF Stops, Tearing
<1>16. /\ \A u \in Callers \ {t} : pc'[u] = pc[u] /\ stack'[u] = stack[u] /\ refs'[u] = refs[u]
       /\ \A o \in Sessions : pc'[o] = pc[o] /\ refs'[o] = refs[o]
  BY <1>0, <1>9 DEF Threads
<1>17. said'[t] # None => said'[t] \in Spoken /\ pc'[t] \in Speaking
  BY <1>13, <1>14, <1>15 DEF Spoken, Speaking, Closing, Stops, Tearing
<1>18. said'[t] \in Closing =>
         active' = None \/ (refs'[t] = <<active'>> /\ pc'[t] \notin Working \cup {"connect"})
  <2>1. "unregister" \notin Working \cup {"connect"}
    BY DEF Working, Started
  <2> QED
    BY <1>6, <1>8, <1>13, <1>14, <2>1
<1>19. state' = "Stopping" => pc'[t] \in Tearing \/ (state = "Stopping" /\ pc[t] \notin Tearing)
  BY <1>14, <1>15 DEF Tearing
<1>20. pc'[t] \in Tearing => session'[refs'[t][1]].stop
  BY <1>8, <1>13, <1>14 DEF Tearing
<1>21. pc'[t] \in Begun \/ (pc'[t] \in Stops /\ stack'[t] = <<"unregister">>) => active' = refs'[t][1]
  <2>1. CASE Return(t)
    BY <1>6, <1>8, <1>13, <2>1 DEF Begun, Stops
  <2>2. CASE ~Return(t)
    BY <1>6, <1>8, <1>15, <2>2 DEF Begun, Tearing
  <2> QED
    BY <2>1, <2>2
<1>22. (pc'[t] \in Stops /\ stack'[t] # <<"unregister">>) \/ (pc'[t] = "drop" /\ stack'[t] # <<"return">>)
         => active' = None
  <2>1. CASE Return(t)
    BY <1>6, <1>8, <1>13, <2>1 DEF Stops
  <2>2. CASE ~Return(t)
    BY <1>6, <1>8, <1>15, <2>2 DEF Tearing
  <2> QED
    BY <2>1, <2>2
<1>23. \A o \in Sessions : Spares(t, o)
  <2>1. Goto(t, "teardown") => pc'[t] = "teardown"
    BY <1>13 DEF Stops
  <2> QED
    BY <1>5, <1>8, <1>14, <2>1 DEF Spares
<1>24. \A o \in Sessions : session'[o].media => session[o].media /\ (pc[t] = "teardown" => refs[t][1] # o)
  BY <1>5, <1>14
<1>25. pc'[t] \in {"unregister", "drop"} \cup Tearing /\ (pc'[t] = "drop" => active' = None)
  <2>1. CASE Return(t)
    BY <1>6, <1>8, <1>13, <2>1
  <2>2. CASE ~Return(t)
    BY <1>15, <2>2 DEF Tearing
  <2> QED
    BY <2>1, <2>2
<1>26. \A o \in Sessions : active' = o /\ refs[t] = <<o>> =>
          refs'[t] = <<o>> /\ pc'[t] \notin Working \cup {"connect"}
  BY <1>8, <1>25 DEF Working, Started, Tearing
<1>27. \A o \in Sessions : active' = o /\ ~session'[o].stop => pc[o] # "idle"
  <2> SUFFICES ASSUME NEW o \in Sessions, active = o, ~session'[o].stop, pc[o] = "idle" PROVE FALSE
    BY <1>8
  <2>1. ~session[o].stop
    BY <1>14
  <2>2. pc[t] = "stop" /\ o = s
    BY <1>11, <2>1
  <2> QED
    BY <1>14, <2>2
<1>28. pc'[t] \notin Started
  BY <1>25 DEF Started, Tearing
<1>29. pc'[t] \in {"retire", "register", "start"} \/ stack'[t] \in {<<"register">>, <<"drop", "register">>} =>
         Clears(t) /\ pc[t] # "start" /\ pc'[t] \notin Tearing \cup {"start"} /\ said'[t] = None
  <2> SUFFICES ASSUME stack'[t] \in {<<"register">>, <<"drop", "register">>}
               PROVE  Clears(t) /\ pc[t] # "start" /\ pc'[t] \notin Tearing \cup {"start"} /\ said'[t] = None
    BY <1>25 DEF Tearing
  <2>1. stack[t] = <<"drop", "register">>
    <3>1. CASE Return(t)
      <4>1. <<>> # <<"register">> /\ <<>> # <<"drop", "register">>
        OBVIOUS
      <4> QED
        BY <1>13, <3>1, <4>1
    <3>2. CASE ~Return(t)
      <4>1. stack[t] # <<"register">>
        BY <1>4
      <4> QED
        BY <1>15, <3>2, <4>1
    <3> QED
      BY <3>1, <3>2
  <2>2. Clears(t)
    BY <2>1 DEF Clears
  <2>3. Return(t) /\ said'[t] = None /\ pc[t] = "stop"
    BY <1>12, <1>14, <2>2
  <2>4. pc'[t] \in {"drop", "unregister"}
    BY <1>13, <2>3
  <2> QED
    BY <2>2, <2>3, <2>4 DEF Tearing
<1>30. pc[t] # "connect" /\ pc'[t] # "connect"
  BY <1>1, <1>25 DEF Stops, Tearing
<1>31. active' \in {active, None} /\ said[t] = None /\ \A u \in Threads \ {t} : said'[u] = said[u]
  BY <1>1, <1>8, <1>9
<1>32. \A o \in Sessions : active' = o /\ refs[t] = <<o>> /\ pc[t] \notin Working =>
          refs'[t] = <<o>> /\ pc'[t] \notin Working
  BY <1>26
<1> QED
  BY <1>16, <1>17, <1>18, <1>19, <1>20, <1>21, <1>22, <1>23, <1>24, <1>26, <1>27, <1>28, <1>29, <1>30, <1>31,
     <1>32 DEF Moves

\* A step that says nothing and neither goes on with a start nor stops.
LEMMA QuietMoves ==
  ASSUME AppsInv, Alone, OneCast, StepInv, NEW t \in Callers, EngineSteps(t), ~Connect(t),
         Quietly, pc[t] \notin {"start", "connect"} \cup Stops,
         pc'[t] \in {"retire", "register", "stop", "return", "idle", "detached", "drop"},
         pc'[t] = "stop" => active' = None /\ stack'[t] # <<"unregister">>,
         pc'[t] = "drop" /\ stack'[t] # <<"return">> => active' = None,
         active' \in {active, None},
         \A s \in Sessions : session'[s] = session[s] \/ (session'[s] = NoSession /\ pc[s] = "idle" /\ active' # s),
         active' # None => pc[t] \notin {"startFailed", "unregister"} /\ (refs[t] = <<>> \/ pc[t] = "drop"),
         pc'[t] \in {"retire", "register"} \/ stack'[t] \in {<<"register">>, <<"drop", "register">>} => Clears(t)
  PROVE  Moves(t)
<1>0. EngineInv /\ pc[t] # "idle" /\ t \in Threads
  BY Apart DEF AppsInv, Threads
<1>1. /\ said[t] = None /\ \A u \in Threads : said'[u] = said[u]
      /\ \A u \in Threads \ {t} : pc'[u] = pc[u] /\ stack'[u] = stack[u] /\ refs'[u] = refs[u]
  BY <1>0, StepFrame DEF Quietly
<1>2. /\ \A u \in Callers \ {t} : pc'[u] = pc[u] /\ stack'[u] = stack[u] /\ refs'[u] = refs[u]
      /\ \A s \in Sessions : pc'[s] = pc[s] /\ refs'[s] = refs[s]
  BY <1>0, <1>1, CallerAt DEF Threads, EngineInv
<1>3. said'[t] = None /\ None \notin Closing /\ state' = state /\ pc[t] \notin Tearing
  BY <1>0, <1>1 DEF Closing, SessionStates, Quietly, Tearing, Stops
<1>4. pc'[t] \notin Tearing \cup Begun \cup Started \cup {"connect", "start"}
  BY DEF Tearing, Begun, Started
<1>5. pc'[t] \in Stops => pc'[t] = "stop"
  BY DEF Stops
<1>6. \A s \in Sessions : Spares(t, s)
  BY DEF Spares
<1>7. \A s \in Sessions : session'[s].media => session[s].media /\ pc[t] # "teardown"
  BY DEF NoSession, Stops
<1>8. \A s \in Sessions : active' = s /\ refs[t] = <<s>> => pc[t] \in Working \cup {"connect"} /\ pc[t] \in Working
  <2> SUFFICES ASSUME NEW s \in Sessions, active' = s, refs[t] = <<s>> PROVE pc[t] \in Working
    OBVIOUS
  <2>1. refs[t] # <<>> /\ active' # None
    OBVIOUS
  <2> QED
    BY <2>1 DEF Working
<1>9. \A s \in Sessions : ~(active' = s /\ ~session'[s].stop /\ pc[s] = "idle")
  <2> SUFFICES ASSUME NEW s \in Sessions, active' = s, ~session'[s].stop, pc[s] = "idle" PROVE FALSE
    OBVIOUS
  <2>1. active = s /\ session'[s] = session[s] /\ active' # None
    OBVIOUS
  <2>2. PICK u \in Callers : refs[u] = <<s>> /\ pc[u] \in {"start", "connect", "startFailed", "unregister", "stop"}
    BY <2>1 DEF StepInv, Waits
  <2>3. u = t
    BY <1>0, <2>2 DEF Alone
  <2> QED
    BY <2>1, <2>2, <2>3 DEF Stops
<1> QED
  BY <1>1, <1>2, <1>3, <1>4, <1>5, <1>6, <1>7, <1>8, <1>9 DEF Moves

\* A call takes the registered session out, or finds none; it ends.
LEMMA TakesMoves ==
  ASSUME AppsInv, Alone, OneCast, StepInv, NEW t \in Callers,
         Retire(t) \/ NotFound(t) \/ Detach(t) \/ Detached(t)
  PROVE  Moves(t)
<1>0. EngineInv /\ EngineSteps(t) /\ ~Connect(t) /\ Quietly /\ t \in Threads
  BY DEF AppsInv, EngineSteps, StartSteps, Retire, NotFound, Detach, Detached, At, Connect, Threads
<1>1. pc[t] \in {"retire", "detach", "detached"} /\ refs[t] = <<>>
  BY <1>0, CallerAt DEF Retire, NotFound, Detach, Detached, At, EngineInv
<1>2. /\ pc \in [Threads -> Labels] /\ stack \in [Threads -> Seq(Labels)]
      /\ session' = session /\ active' \in {active, None}
  BY <1>0 DEF EngineInv, Control, Retire, NotFound, Detach, Detached, KeepSessions
<1>3. CASE Retire(t) /\ active = None
  <2>1. pc'[t] = "register" /\ stack'[t] = stack[t] /\ Clears(t)
    BY <1>0, <1>2, <1>3 DEF Retire, Goto, At, Clears
  <2> QED
    BY <1>0, <1>1, <1>2, <1>3, <2>1, QuietMoves DEF Stops
<1>4. CASE Retire(t) /\ active # None
  <2>1. pc'[t] = "stop" /\ stack'[t] = <<"drop", "register">> \o stack[t] /\ Clears(t) /\ active' = None
    BY <1>0, <1>2, <1>4 DEF Retire, At, Clears
  <2>2. stack[t] = <<>>
    BY <1>0, <1>4, CallerAt DEF Retire, At, EngineInv
  <2>3. <<"drop", "register">> \o <<>> # <<"unregister">>
    OBVIOUS
  <2> QED
    BY <1>0, <1>1, <1>2, <2>1, <2>2, <2>3, QuietMoves DEF Stops
<1>5. CASE NotFound(t)
  <2>1. pc'[t] = "return" /\ stack'[t] = stack[t] /\ Clears(t)
    BY <1>0, <1>2, <1>5 DEF NotFound, Goto, At, Clears
  <2> QED
    BY <1>0, <1>1, <1>2, <2>1, QuietMoves DEF Stops
<1>6. CASE Detach(t) /\ active = None
  <2>1. pc'[t] = "detached" /\ stack'[t] = stack[t] /\ stack[t] \in {<<"idle">>, <<"return">>}
    BY <1>0, <1>2, <1>6, CallerAt DEF Detach, Goto, At, EngineInv
  <2>2. stack'[t] \notin {<<"register">>, <<"drop", "register">>}
    BY <2>1
  <2> QED
    BY <1>0, <1>1, <1>2, <2>1, <2>2, QuietMoves DEF Stops
<1>7. CASE Detach(t) /\ active # None
  <2>1. pc'[t] = "stop" /\ stack'[t] = <<"drop", "detached">> \o stack[t] /\ active' = None
    BY <1>0, <1>2, <1>7 DEF Detach, At
  <2>2. stack[t] \in {<<"idle">>, <<"return">>}
    BY <1>0, <1>7, CallerAt DEF Detach, At, EngineInv
  <2>3. stack'[t] \in {<<"drop", "detached", "idle">>, <<"drop", "detached", "return">>}
    BY <2>1, <2>2, PushTwo
  <2>4. stack'[t] \notin {<<"unregister">>, <<"register">>, <<"drop", "register">>}
    BY <2>3
  <2> QED
    BY <1>0, <1>1, <1>2, <2>1, <2>4, QuietMoves DEF Stops
<1>8. CASE Detached(t)
  <2>1. pc'[t] = Head(stack[t]) /\ stack'[t] = Tail(stack[t])
    BY <1>0, <1>2, <1>8 DEF Detached, Return
  <2>2. stack[t] \in {<<"idle">>, <<"return">>}
    BY <1>0, <1>8, CallerAt DEF Detached, At, EngineInv
  <2>3. pc'[t] \in {"idle", "return"} /\ stack'[t] = <<>>
    <3>1. CASE stack[t] = <<"idle">>
      BY <2>1, <3>1
    <3>2. CASE stack[t] = <<"return">>
      BY <2>1, <3>2
    <3> QED
      BY <2>2, <3>1, <3>2
  <2>4. stack'[t] \notin {<<"register">>, <<"drop", "register">>}
    BY <2>3
  <2> QED
    BY <1>0, <1>1, <1>2, <2>3, <2>4, QuietMoves DEF Stops
<1> QED
  BY <1>3, <1>4, <1>5, <1>6, <1>7, <1>8

\* A session that did not start is registered no more.
LEMMA UnregisterMoves ==
  ASSUME AppsInv, Alone, OneCast, StepInv, NEW t \in Callers, Unregister(t)
  PROVE  Moves(t)
<1>0. EngineInv /\ EngineSteps(t) /\ ~Connect(t) /\ Quietly /\ t \in Threads
  BY DEF AppsInv, EngineSteps, StartSteps, Unregister, At, Connect, Threads
<1>1. pc[t] = "unregister" /\ stack[t] = <<>>
  BY <1>0, CallerAt DEF Unregister, At, EngineInv, Begun
<1>2. pc \in [Threads -> Labels] /\ stack \in [Threads -> Seq(Labels)]
  BY <1>0 DEF EngineInv, Control
<1>3. pc'[t] = "drop" /\ stack'[t] = <<"return">> \o <<>>
  BY <1>0, <1>1, <1>2 DEF Unregister, Call
<1>4. <<"return">> \o <<>> = <<"return">> /\ <<"return">> \notin {<<"register">>, <<"drop", "register">>}
  OBVIOUS
<1>5. active' = None
  <2>1. active = This(t)
    BY <1>1 DEF StepInv, Placing, Registers, Begun
  <2> QED
    BY <2>1 DEF Unregister
<1> QED
  BY <1>0, <1>1, <1>3, <1>4, <1>5, QuietMoves DEF Unregister, Stops

\* A reference is dropped.
LEMMA DropMoves ==
  ASSUME AppsInv, Alone, OneCast, StepInv, NEW t \in Callers, Drop(t)
  PROVE  Moves(t)
<1>0. EngineInv /\ EngineSteps(t) /\ ~Connect(t) /\ Quietly /\ t \in Threads /\ active' = active
  BY DEF AppsInv, EngineSteps, Drop, At, Connect, Threads
<1>1. pc[t] = "drop" /\ Dropping(stack[t], refs[t]) /\ refs[t] # <<>>
  BY <1>0, CallerAt DEF Drop, At, EngineInv, Dropping, One, Two
<1>2. PICK s \in Sessions : refs[t] = <<s>>
  BY <1>1 DEF OneCast, One
<1>3. stack[t] \in {<<"register">>, <<"return">>, <<"detached", "idle">>, <<"detached", "return">>}
  BY <1>1, <1>2 DEF Dropping, Two
<1>4. This(t) = s /\ s # None
  BY <1>2 DEF This
<1>5. /\ pc \in [Threads -> Labels] /\ stack \in [Threads -> Seq(Labels)] /\ session \in [Sessions -> Session]
  BY <1>0 DEF EngineInv, Control, EngineTypeOK
<1>6. stack[t] = <<"register">> => Clears(t)
  BY DEF Clears
<1>7. CASE OnlyRef(t, s) /\ ~session[s].stop
  <2>1. pc'[t] = "stop" /\ stack'[t] = <<"drop">> \o stack[t] /\ session' = session
    BY <1>0, <1>4, <1>5, <1>7 DEF Drop, Call
  <2>2. \/ stack[t] = <<"register">>
        \/ stack'[t] \in {<<"drop", "return">>, <<"drop", "detached", "idle">>, <<"drop", "detached", "return">>}
    <3>1. CASE stack[t] = <<"return">>
      BY <2>1, <3>1, PushOne
    <3>2. CASE stack[t] = <<"detached", "idle">>
      BY <2>1, <3>2, PushOneOfTwo
    <3>3. CASE stack[t] = <<"detached", "return">>
      BY <2>1, <3>3, PushOneOfTwo
    <3> QED
      BY <1>3, <3>1, <3>2, <3>3
  <2>3. \/ stack[t] = <<"register">>
        \/ stack'[t] \notin {<<"register">>, <<"drop", "register">>}
    BY <2>2
  <2>4. active' = None
    BY <1>0, <1>2, <1>7 DEF OneCast, OnlyRef
  <2>5. stack'[t] # <<"unregister">>
    <3>1. CASE stack[t] = <<"register">>
      <4>1. stack'[t] = <<"drop", "register">>
        BY <2>1, <3>1, PushOne
      <4> QED
        BY <4>1
    <3>2. CASE stack[t] # <<"register">>
      BY <2>2, <3>2
    <3> QED
      BY <3>1, <3>2
  <2> QED
    BY <1>0, <1>1, <1>6, <2>1, <2>3, <2>4, <2>5, QuietMoves DEF Stops
<1>8. CASE ~(OnlyRef(t, s) /\ ~session[s].stop)
  <2>1. /\ Return(t)
        /\ OnlyRef(t, s) => pc[s] = "idle"
        /\ session' = IF OnlyRef(t, s) THEN [session EXCEPT ![s] = NoSession] ELSE session
    BY <1>4, <1>8 DEF Drop
  <2>2. \A o \in Sessions :
           session'[o] = session[o] \/ (session'[o] = NoSession /\ pc[o] = "idle" /\ active' # o)
    BY <1>0, <1>5, <2>1 DEF OnlyRef
  <2>3. pc'[t] = Head(stack[t]) /\ stack'[t] = Tail(stack[t])
    BY <1>0, <1>5, <2>1 DEF Return
  <2>4. CASE stack[t] = <<"register">>
    <3>1. pc'[t] = "register"
      BY <2>3, <2>4
    <3> QED
      BY <1>0, <1>1, <1>6, <2>2, <2>4, <3>1, QuietMoves DEF Stops
  <2>5. CASE stack[t] # <<"register">>
    <3>1. pc'[t] \in {"return", "detached"} /\ stack'[t] \in {<<>>, <<"idle">>, <<"return">>}
      <4>1. CASE stack[t] = <<"return">>
        BY <2>3, <4>1
      <4>2. CASE stack[t] = <<"detached", "idle">>
        BY <2>3, <4>2
      <4>3. CASE stack[t] = <<"detached", "return">>
        BY <2>3, <4>3
      <4> QED
        BY <1>3, <2>5, <4>1, <4>2, <4>3
    <3>2. stack'[t] \notin {<<"register">>, <<"drop", "register">>}
      BY <3>1
    <3> QED
      BY <1>0, <1>1, <2>2, <3>1, <3>2, QuietMoves DEF Stops
  <2> QED
    BY <2>4, <2>5
<1> QED
  BY <1>7, <1>8

\* A start that fails, or that is refused, is about to be registered no more.
LEMMA FailsMoves ==
  ASSUME AppsInv, Alone, OneCast, StepInv, NEW t \in Callers,
         \/ StartFailed(t)
         \/ Begin(t) /\ IsActive(state)
         \/ Connect(t) /\ Goto(t, "startFailed") /\ Quietly
  PROVE  Moves(t)
<1> USE DEF StepInv
<1>0. EngineInv /\ EngineSteps(t) /\ t \in Threads /\ t \notin Sessions
  BY DEF AppsInv, EngineSteps, StartSteps, Threads
<1>1. pc[t] \in {"startFailed", "start", "connect"} /\ stack[t] = <<>> /\ One(refs[t]) /\ said[t] = None
  BY <1>0, CallerAt DEF EngineInv, StartFailed, Begin, Connect, At, Begun
<1>2. PICK s \in Sessions : refs[t] = <<s>>
  BY <1>1 DEF One
<1>3. This(t) = s /\ refs[t][1] = s /\ active = s /\ s # None
  BY <1>1, <1>2 DEF This, Placing, Registers, Begun
<1>4. /\ pc \in [Threads -> Labels] /\ stack \in [Threads -> Seq(Labels)]
      /\ said \in [Threads -> SessionStates \cup {None}]
  BY <1>0 DEF EngineInv, Control, EngineTypeOK
<1>5. refs' = refs /\ active' = active /\ session' = session /\ refs'[t][1] = s /\ refs'[t] = <<s>>
  BY <1>2, <1>3 DEF StartFailed, Begin, Connect, KeepSessions
<1>6. /\ \/ pc'[t] = "stop" /\ stack'[t] = <<"unregister">> /\ said'[t] = "Failed" /\ state' = "Failed"
         \/ pc'[t] \in {"unregister", "startFailed"} /\ stack'[t] = <<>> /\ said'[t] = None /\ state' = state
      /\ \A u \in Threads \ {t} : pc'[u] = pc[u] /\ said'[u] = said[u] /\ stack'[u] = stack[u]
  <2>1. CASE StartFailed(t)
    <3>1. pc' = [pc EXCEPT ![t] = "stop"] /\ stack' = [stack EXCEPT ![t] = <<"unregister">> \o @]
      BY <2>1 DEF StartFailed, Call
    <3>2. said' = [said EXCEPT ![t] = "Failed"] /\ state' = "Failed"
      BY <2>1 DEF StartFailed, Transition, IsValidTransition
    <3>3. <<"unregister">> \o <<>> = <<"unregister">>
      OBVIOUS
    <3> QED
      BY <1>0, <1>1, <1>4, <3>1, <3>2, <3>3
  <2>2. CASE Begin(t) /\ IsActive(state)
    <3>1. pc' = [pc EXCEPT ![t] = "unregister"] /\ UNCHANGED <<stack, said, state>>
      BY <2>2 DEF Begin, Goto, Quietly
    <3> QED
      BY <1>0, <1>1, <1>4, <3>1
  <2>3. CASE Connect(t) /\ Goto(t, "startFailed") /\ Quietly
    <3>1. pc' = [pc EXCEPT ![t] = "startFailed"] /\ UNCHANGED <<stack, said, state>>
      BY <2>3 DEF Goto, Quietly
    <3> QED
      BY <1>0, <1>1, <1>4, <3>1
  <2> QED
    BY <2>1, <2>2, <2>3
<1>7. /\ \A u \in Callers \ {t} : pc'[u] = pc[u] /\ stack'[u] = stack[u] /\ refs'[u] = refs[u]
      /\ \A o \in Sessions : pc'[o] = pc[o] /\ refs'[o] = refs[o]
  BY <1>0, <1>5, <1>6 DEF Threads
<1>8. None \notin Closing /\ (said'[t] # None => said'[t] \in Spoken /\ pc'[t] \in Speaking)
  BY <1>6 DEF Closing, SessionStates, Spoken, Speaking, Stops
<1>9. /\ pc'[t] \in {"stop", "unregister", "startFailed"}
      /\ pc'[t] \notin Tearing \cup Started \cup Working \cup {"connect"}
  BY <1>6 DEF Tearing, Started, Working
<1>10. pc'[t] \in Begun \/ (pc'[t] \in Stops /\ stack'[t] = <<"unregister">>)
  BY <1>6 DEF Begun, Stops
<1>11. ~((pc'[t] \in Stops /\ stack'[t] # <<"unregister">>) \/ (pc'[t] = "drop" /\ stack'[t] # <<"return">>))
  BY <1>6 DEF Stops
<1>12. state' = "Stopping" => state = "Stopping" /\ pc[t] \notin Tearing
  BY <1>1, <1>6 DEF Tearing
<1>13. \A o \in Sessions : Spares(t, o)
  BY <1>5 DEF Spares
<1>14. /\ pc'[t] \notin {"retire", "register", "start"}
       /\ stack'[t] \notin {<<"register">>, <<"drop", "register">>}
  <2>1. /\ <<"unregister">> # <<"register">> /\ <<"unregister">> # <<"drop", "register">>
        /\ <<>> # <<"register">> /\ <<>> # <<"drop", "register">>
    OBVIOUS
  <2> QED
    BY <1>6, <2>1
<1>15. active' \in {active, None} /\ \A u \in Threads \ {t} : said'[u] = said[u]
  BY <1>5, <1>6
<1>16. \A o \in Sessions : session'[o].media => session[o].media /\ pc[t] # "teardown"
  BY <1>1, <1>5
<1>17. \A o \in Sessions : active' = o => refs'[t] = <<o>>
  BY <1>3, <1>5
<1> QED
  BY <1>1, <1>3, <1>5, <1>7, <1>8, <1>9, <1>10, <1>11, <1>12, <1>13, <1>14, <1>15, <1>16, <1>17 DEF Moves

\* There is one session at a time.
LEMMA OnlyMade ==
  ASSUME EngineInv, Alone, OneCast, NEW s \in Sessions, session[s].made
  PROVE  \A o \in Sessions \ {s} : ~session[o].made
<1> SUFFICES ASSUME NEW o \in Sessions, o # s, session[o].made PROVE FALSE
  OBVIOUS
<1>1. \A t \in Callers : refs[t] # <<>> => pc[t] # "idle" /\ (active = None \/ refs[t] = <<active>>)
  BY CallerAt DEF OneCast, EngineInv
<1>2. \A t, u \in Callers : refs[t] # <<>> /\ refs[u] # <<>> => t = u
  BY <1>1 DEF Alone
<1>3. \A r \in Sessions : session[r].made => r = active \/ \E t \in Callers : refs[t] = <<r>>
  BY DEF OneCast
<1>4. CASE active = None
  <2>1. s # active /\ o # active
    BY <1>4
  <2>2. PICK t \in Callers : refs[t] = <<s>>
    BY <1>3, <2>1
  <2>3. PICK u \in Callers : refs[u] = <<o>>
    BY <1>3, <2>1
  <2> QED
    BY <1>2, <2>2, <2>3
<1>5. CASE active # None
  <2>1. s = active
    <3> SUFFICES ASSUME s # active PROVE FALSE
      OBVIOUS
    <3>1. PICK t \in Callers : refs[t] = <<s>>
      BY <1>3
    <3> QED
      BY <1>1, <1>5, <3>1
  <2>2. o = active
    <3> SUFFICES ASSUME o # active PROVE FALSE
      OBVIOUS
    <3>1. PICK t \in Callers : refs[t] = <<o>>
      BY <1>3
    <3> QED
      BY <1>1, <1>5, <3>1
  <2> QED
    BY <2>1, <2>2
<1> QED
  BY <1>4, <1>5

\* Before a session begins, nobody has anything to say and nothing runs.
LEMMA AtRest ==
  ASSUME AppsInv, Alone, OneCast, StepInv, NEW t \in Callers, Clears(t), pc[t] # "idle", pc[t] \notin Tearing
  PROVE  /\ NoState /\ NoClosing /\ ~ShownActive /\ ~toggle
         /\ \A u \in Threads : said[u] = None /\ pc[u] \notin Tearing
         /\ \A s \in Sessions : ~session[s].media /\ pc[s] \in {"idle", "ended"}
         /\ state # "Stopping"
         /\ (pending /\ \A i \in DOMAIN posts : posts[i] # "returned") \/ ~Win
<1> USE DEF StepInv
<1>0. EngineInv
  BY DEF AppsInv
<1>1. NoState /\ ~ShownActive /\ \A u \in Threads : said[u] = None
  BY DEF Clear
<1>2. NoClosing
  BY <1>1 DEF NoClosing, NoState, Closing, SessionStates
<1>3. ~toggle
  BY <1>1 DEF Words
<1>4. \A s \in Sessions : pc[s] \in {"idle", "ended"} /\ (session[s].stop \/ pc[s] = "idle")
  <2> SUFFICES ASSUME NEW s \in Sessions, pc[s] # "idle" PROVE pc[s] = "ended" /\ session[s].stop
    OBVIOUS
  <2>1. session[s].made
    BY <1>0 DEF EngineInv, Exists
  <2>2. (pc[t] = "start" /\ refs[t] = <<s>>) \/ Done(s)
    BY <2>1 DEF Clear
  <2>3. CASE pc[t] = "start" /\ refs[t] = <<s>>
    BY <1>0, <2>3 DEF EngineInv, Fresh, Begins
  <2>4. CASE Done(s)
    BY <2>4 DEF Done
  <2> QED
    BY <2>2, <2>3, <2>4
<1>5. \A u \in Threads : pc[u] \notin Tearing
  <2> SUFFICES ASSUME NEW u \in Threads PROVE pc[u] \notin Tearing
    OBVIOUS
  <2>1. CASE u = t
    BY <2>1
  <2>2. CASE u \in Callers \ {t}
    BY <1>0, <2>2, OthersHoldNothing DEF EngineInv, Tearing
  <2>3. CASE u \in Sessions
    BY <1>4, <2>3 DEF Tearing
  <2> QED
    BY <2>1, <2>2, <2>3 DEF Threads
<1>6. state # "Stopping"
  BY <1>5 DEF Stopped
<1>7. \A s \in Sessions : ~session[s].media
  <2> SUFFICES ASSUME NEW s \in Sessions, session[s].media PROVE FALSE
    OBVIOUS
  <2>1. ~session[s].stop /\ pc[s] # "idle"
    BY <1>5 DEF MediaUp, Tearing
  <2> QED
    BY <1>4, <2>1
<1>8. (pending /\ \A i \in DOMAIN posts : posts[i] # "returned") \/ ~Win
  BY DEF Alone
<1> QED
  BY <1>1, <1>2, <1>3, <1>4, <1>5, <1>6, <1>7, <1>8

\* The new session is registered.
LEMMA RegisterInStep ==
  ASSUME AppsInv, Alone, OneCast, Win, StepInv, NEW t \in Callers, Register(t), UNCHANGED appVars
  PROVE  StepInv'
<1> USE DEF StepInv
<1>0. EngineInv /\ EngineSteps(t) /\ ~Connect(t) /\ t \in Threads /\ t \notin Sessions
  BY DEF AppsInv, EngineSteps, StartSteps, Register, At, Connect, Threads
<1>1. pc[t] = "register" /\ stack[t] = <<>> /\ refs[t] = <<>> /\ active = None
  BY <1>0, CallerAt DEF EngineInv, Register, At, OneCast
<1>2. Clears(t) /\ pc[t] \notin Tearing
  BY <1>1 DEF Clears, Tearing
<1>3. /\ NoState /\ NoClosing /\ ~ShownActive /\ ~toggle
      /\ \A u \in Threads : said[u] = None /\ pc[u] \notin Tearing
      /\ \A s \in Sessions : ~session[s].media /\ pc[s] \in {"idle", "ended"}
      /\ state # "Stopping" /\ pending /\ \A i \in DOMAIN posts : posts[i] # "returned"
  BY <1>1, <1>2, AtRest
<1>4. /\ UNCHANGED <<program, posts, shown, pending, toggle, inside>>
      /\ NoState' /\ NoClosing' /\ ~ShownActive'
  BY <1>3 DEF appVars, apiVars, NoState, NoClosing, ShownActive
<1>5. /\ pc \in [Threads -> Labels] /\ stack \in [Threads -> Seq(Labels)] /\ refs \in [Threads -> Seq(Sessions)]
      /\ session \in [Sessions -> Session]
  BY <1>0 DEF EngineInv, Control, EngineTypeOK
<1>6. PICK s \in Sessions : /\ ~session[s].made /\ session' = [session EXCEPT ![s] = NewSession]
                            /\ active' = s /\ Hold(t, s) /\ Goto(t, "start")
  BY <1>1 DEF Register
<1>7. refs'[t] = <<s>> /\ pc'[t] = "start" /\ stack'[t] = <<>>
  <2>1. refs'[t] = <<s>> \o <<>>
    BY <1>0, <1>1, <1>5, <1>6 DEF Hold
  <2>2. <<s>> \o <<>> = <<s>>
    OBVIOUS
  <2> QED
    BY <1>0, <1>1, <1>5, <1>6, <2>1, <2>2 DEF Goto
<1>8. /\ \A u \in Threads \ {t} : pc'[u] = pc[u] /\ stack'[u] = stack[u] /\ refs'[u] = refs[u]
      /\ \A u \in Threads : said'[u] = None
  BY <1>0, <1>3, StepFrame DEF Register, Quietly
<1>9. /\ \A o \in Sessions : ~session'[o].media
      /\ \A o \in Sessions \ {s} : session'[o] = session[o]
      /\ state' = state
  BY <1>3, <1>5, <1>6 DEF NewSession, NoSession, Register, Quietly
<1>10. \A u \in Callers \ {t} : pc'[u] = "idle" /\ stack'[u] = <<>> /\ refs'[u] = <<>> /\ u \in Threads
  BY <1>0, <1>1, <1>8, OthersHoldNothing DEF EngineInv, Threads
<1>11. \A u \in Threads : pc'[u] \notin Tearing
  BY <1>3, <1>7, <1>8 DEF Tearing
<1>12. None \notin Closing /\ s # None
  BY DEF Closing, SessionStates
<1>13. Words'
  BY <1>4, <1>8 DEF Words, ShownActive
<1>14. Silent'
  BY <1>8, <1>12, CallerAt DEF Silent, Threads
<1>15. Stopped'
  BY <1>3, <1>9, <1>11 DEF Stopped
<1>16. Placing'
  <2>1. This(t)' = s
    BY <1>7 DEF This
  <2>2. \A u \in Callers : ~Retires(u)' /\ (Registers(u)' => u = t)
    BY <1>7, <1>10 DEF Retires, Registers, Begun, Stops
  <2> QED
    BY <1>6, <2>1, <2>2 DEF Placing
<1>17. \A o \in Sessions : ~Up(o, Working)' /\ ~Up(o, Working \cup {"connect"})'
  BY <1>6, <1>7 DEF Up, Working, Started
<1>18. Waits'
  <2>1. \A o \in Sessions : active' = o /\ ~session'[o].stop /\ pc'[o] = "idle" =>
          \E u \in Callers : refs'[u] = <<o>> /\ pc'[u] \in {"start", "connect", "startFailed", "unregister", "stop"}
    BY <1>6, <1>7
  <2>2. \A u \in Callers : pc'[u] \notin Started /\ pc'[u] # "connect"
    BY <1>7, <1>10 DEF Started
  <2> QED
    BY <1>17, <2>1, <2>2 DEF Waits
<1>19. MediaUp'
  BY <1>9 DEF MediaUp
<1>20. Shows'
  <2>1. \A u \in Callers : pc'[u] # "connect"
    BY <1>7, <1>10
  <2> QED
    BY <1>17, <2>1 DEF Shows
<1>21. Agrees'
  BY <1>17 DEF Agrees, Going
<1>22. Clear'
  <2> SUFFICES ASSUME NEW u \in Callers, Clears(u)'
               PROVE  /\ pc'[u] \notin Tearing
                      /\ \A o \in Sessions : session'[o].made => (pc'[u] = "start" /\ refs'[u] = <<o>>) \/ Done(o)'
    BY <1>4, <1>8 DEF Clear
  <2>1. u = t
    <3> SUFFICES ASSUME u # t PROVE FALSE
      OBVIOUS
    <3>1. pc'[u] = "idle" /\ stack'[u] = <<>>
      BY <1>10
    <3>2. <<>> # <<"register">> /\ <<>> # <<"drop", "register">>
      OBVIOUS
    <3> QED
      BY <3>1, <3>2 DEF Clears
  <2>2. ASSUME NEW o \in Sessions, session'[o].made PROVE (pc'[t] = "start" /\ refs'[t] = <<o>>) \/ Done(o)'
    <3>1. CASE o = s
      BY <1>7, <3>1
    <3>2. CASE o # s
      <4>1. session'[o] = session[o] /\ Done(o)
        BY <1>1, <1>2, <1>9, <2>2, <3>2 DEF Clear
      <4>2. o \in Threads \ {t}
        BY <1>0 DEF Threads
      <4>3. pc'[o] = pc[o]
        BY <1>8, <4>2
      <4> QED
        BY <4>1, <4>3 DEF Done
    <3> QED
      BY <3>1, <3>2
  <2> QED
    BY <1>11, <2>1, <2>2, <1>0
<1>23. LastWord'
  BY <1>3, <1>4 DEF LastWord
<1> QED
  BY <1>13, <1>14, <1>15, <1>16, <1>18, <1>19, <1>20, <1>21, <1>22, <1>23

\* A session begins: the switches are off, and the window is about to show it.
LEMMA BeginInStep ==
  ASSUME AppsInv, Alone, OneCast, Win, StepInv, NEW t \in Callers, Begin(t), ~IsActive(state), UNCHANGED appVars
  PROVE  StepInv'
<1> USE DEF StepInv
<1>0. EngineInv /\ EngineSteps(t) /\ ~Connect(t) /\ t \in Threads /\ t \notin Sessions
  BY DEF AppsInv, EngineSteps, StartSteps, Begin, At, Connect, Threads
<1>1. pc[t] = "start" /\ stack[t] = <<>> /\ One(refs[t])
  BY <1>0, CallerAt DEF EngineInv, Begin, At, Begun
<1>2. PICK s \in Sessions : refs[t] = <<s>>
  BY <1>1 DEF One
<1>3. This(t) = s /\ active = s /\ s # None
  BY <1>1, <1>2 DEF This, Placing, Registers, Begun
<1>4. Clears(t) /\ pc[t] \notin Tearing
  BY <1>1 DEF Clears, Tearing
<1>5. /\ NoState /\ NoClosing /\ ~ShownActive /\ ~toggle
      /\ \A u \in Threads : said[u] = None /\ pc[u] \notin Tearing
      /\ \A o \in Sessions : ~session[o].media /\ pc[o] \in {"idle", "ended"}
      /\ state # "Stopping" /\ pending /\ \A i \in DOMAIN posts : posts[i] # "returned"
  BY <1>1, <1>4, AtRest
<1>6. /\ UNCHANGED <<program, posts, shown, pending, toggle, inside>>
      /\ NoState' /\ NoClosing' /\ ~ShownActive'
  BY <1>5 DEF appVars, apiVars, NoState, NoClosing, ShownActive
<1>7. /\ pc \in [Threads -> Labels] /\ stack \in [Threads -> Seq(Labels)] /\ refs \in [Threads -> Seq(Sessions)]
      /\ session \in [Sessions -> Session] /\ said \in [Threads -> SessionStates \cup {None}] /\ state \in SessionStates
  BY <1>0 DEF EngineInv, Control, EngineTypeOK
<1>8. /\ session' = [session EXCEPT ![s] = NewSession] /\ Transition(t, "Connecting") /\ Goto(t, "connect")
      /\ active' = active /\ refs' = refs
  BY <1>3 DEF Begin
<1>9. IsValidTransition(state, "Connecting")
  BY <1>5, <1>7 DEF IsValidTransition, IsActive, Successors, SessionStates
<1>10. /\ pc'[t] = "connect" /\ stack'[t] = <<>> /\ refs'[t] = <<s>> /\ active' = s
       /\ said'[t] = "Connecting" /\ state' = "Connecting"
  BY <1>0, <1>1, <1>2, <1>3, <1>7, <1>8, <1>9 DEF Goto, Transition
<1>11. \A u \in Threads \ {t} : pc'[u] = pc[u] /\ stack'[u] = stack[u] /\ refs'[u] = refs[u] /\ said'[u] = None
  BY <1>0, <1>5, StepFrame
<1>12. /\ \A o \in Sessions : ~session'[o].media
       /\ ~session'[s].stop /\ session'[s].frozen = FALSE
  BY <1>5, <1>7, <1>8 DEF NewSession, NoSession
<1>13. \A u \in Callers \ {t} : pc'[u] = "idle" /\ stack'[u] = <<>> /\ refs'[u] = <<>> /\ u \in Threads
  BY <1>0, <1>1, <1>11, OthersHoldNothing DEF EngineInv, Threads
<1>14. \A u \in Threads : pc'[u] \notin Tearing
  BY <1>5, <1>10, <1>11 DEF Tearing
<1>15. None \notin Closing /\ "Connecting" # None /\ "Connecting" \notin Closing
  BY DEF Closing, SessionStates
<1>16. \A u \in Threads : said'[u] \notin Closing /\ (said'[u] # None => u = t)
  BY <1>10, <1>11, <1>15
<1>17. Words'
  BY <1>6, <1>10, <1>11 DEF Words, ShownActive, Spoken
<1>18. Silent'
  <2>1. \A u \in Sessions : u \in Threads /\ u # t
    BY <1>0 DEF Threads
  <2> QED
    BY <1>10, <1>16, <2>1 DEF Silent, Threads, Speaking
<1>19. Stopped'
  BY <1>10, <1>14 DEF Stopped
<1>20. This(t)' = s
  BY <1>10 DEF This
<1>21. Placing'
  <2>1. \A u \in Callers : ~Retires(u)' /\ (Registers(u)' => u = t)
    BY <1>10, <1>13 DEF Retires, Registers, Begun, Stops
  <2> QED
    BY <1>10, <1>20, <2>1 DEF Placing
<1>22. \A o \in Sessions : ~Up(o, Working)' /\ (Up(o, Working \cup {"connect"})' => o = s)
  BY <1>10 DEF Up, Working, Started
<1>23. Waits'
  <2>1. \A o \in Sessions : active' = o /\ ~session'[o].stop /\ pc'[o] = "idle" =>
          \E u \in Callers : refs'[u] = <<o>> /\ pc'[u] \in {"start", "connect", "startFailed", "unregister", "stop"}
    BY <1>10
  <2>2. \A u \in Callers : pc'[u] \notin Started /\ (pc'[u] = "connect" => u = t)
    BY <1>10, <1>13 DEF Started
  <2> QED
    BY <1>12, <1>20, <1>22, <2>1, <2>2 DEF Waits
<1>24. MediaUp'
  BY <1>12 DEF MediaUp
<1>25. Shows'
  <2>1. \A u \in Callers : pc'[u] = "connect" => u = t
    BY <1>13
  <2> QED
    BY <1>6, <1>10, <1>22, <2>1 DEF Shows
<1>26. Agrees'
  <2>1. toggle' = FALSE
    BY <1>5, <1>6 DEF AppsInv, AppsData
  <2>2. \A o \in Sessions : Going(o)' => o = s
    BY <1>22 DEF Going
  <2> QED
    BY <1>6, <1>12, <1>16, <2>1, <2>2 DEF Agrees
<1>27. Clear'
  <2> SUFFICES ASSUME NEW u \in Callers, Clears(u)' PROVE FALSE
    BY DEF Clear
  <2>1. pc'[u] \in {"idle", "connect"} /\ stack'[u] = <<>>
    BY <1>10, <1>13
  <2>2. <<>> # <<"register">> /\ <<>> # <<"drop", "register">>
    OBVIOUS
  <2> QED
    BY <2>1, <2>2 DEF Clears
<1>28. LastWord'
  BY <1>5, <1>6 DEF LastWord
<1> QED
  BY <1>17, <1>18, <1>19, <1>21, <1>23, <1>24, <1>25, <1>26, <1>27, <1>28

\* The TV is connected: from here on the session has a thread.
LEMMA ConnectInStep ==
  ASSUME AppsInv, Alone, OneCast, Win, StepInv, NEW t \in Callers, Connect(t), ~Goto(t, "startFailed"),
         UNCHANGED appVars
  PROVE  StepInv'
<1> USE DEF StepInv
<1>0. EngineInv /\ EngineSteps(t) /\ t \in Threads /\ t \notin Sessions
  BY DEF AppsInv, EngineSteps, StartSteps, Threads
<1>1. pc[t] = "connect" /\ stack[t] = <<>> /\ One(refs[t]) /\ said[t] = None
  BY <1>0, CallerAt DEF EngineInv, Connect, At, Begun
<1>2. PICK s \in Sessions : refs[t] = <<s>>
  BY <1>1 DEF One
<1>3. This(t) = s /\ active = s /\ s # None /\ session[s].made /\ ~session[s].stop
  BY <1>0, <1>1, <1>2 DEF This, Placing, Registers, Begun, EngineInv, Exists, Waits
<1>4. /\ Transition(t, "Connecting")
      /\ pc' = [pc EXCEPT ![t] = "launch", ![s] = "watch"]
      /\ UNCHANGED <<stack, session, active, refs>>
  BY <1>3 DEF Connect, KeepSessions
<1>5. /\ pc \in [Threads -> Labels] /\ said \in [Threads -> SessionStates \cup {None}]
  BY <1>0 DEF EngineInv, Control, EngineTypeOK
<1>6. /\ s \in Threads /\ s # t /\ pc[s] = "idle" /\ said[s] = None
  BY <1>0, <1>1, <1>2 DEF EngineInv, Fresh, Begins, Silent, Threads
<1>7. /\ pc'[t] = "launch" /\ pc'[s] = "watch" /\ \A u \in Threads \ {s, t} : pc'[u] = pc[u]
      /\ said'[t] \in {None, "Connecting"} /\ \A u \in Threads \ {t} : said'[u] = said[u]
      /\ state' \in {state, "Connecting"}
  BY <1>0, <1>1, <1>4, <1>5, <1>6 DEF Transition
<1>8. /\ UNCHANGED <<program, posts, shown, pending, toggle, inside>>
      /\ NoClosing' = NoClosing /\ WillShow' = WillShow
  BY DEF appVars, apiVars, NoClosing, WillShow, ShownActive
<1>9. \A u \in Callers \ {t} :
        pc[u] = "idle" /\ stack[u] = <<>> /\ refs[u] = <<>> /\ u \in Threads \ {s, t} /\ said[u] = None
  <2>1. \A u \in Callers \ {t} : pc[u] = "idle" /\ stack[u] = <<>> /\ refs[u] = <<>> /\ u \in Threads \ {s, t}
    BY <1>0, <1>1, OthersHoldNothing DEF EngineInv, Threads
  <2> QED
    BY <2>1 DEF Silent, Speaking, Stops
<1>10. \A o \in Sessions \ {s} :
         /\ ~session[o].made /\ ~session[o].media /\ pc[o] = "idle" /\ said[o] = None
         /\ o \in Threads \ {s, t}
  <2>1. \A o \in Sessions \ {s} : ~session[o].made
    BY <1>0, <1>3, OnlyMade
  <2> QED
    BY <1>0, <2>1 DEF EngineInv, Exists, Silent, Threads
<1>11. None \notin Closing /\ "Connecting" # None /\ "Connecting" \notin Closing
  BY DEF Closing, SessionStates
<1>12. Up(s, Working \cup {"connect"})
  <2>1. \A u \in Callers : refs[u] = <<s>> => u = t
    BY <1>9
  <2> QED
    BY <1>1, <1>3, <2>1 DEF Up
<1>13. toggle = session[s].frozen /\ NoClosing /\ \A u \in Threads : said[u] \notin Closing
  BY <1>3, <1>12 DEF Agrees, Going
<1>14. WillShow
  BY <1>1, <1>11 DEF Shows
<1>15. \A u \in Threads : said'[u] \notin Closing
  BY <1>7, <1>11, <1>13
<1>16. Words'
  BY <1>7, <1>8 DEF Words, ShownActive, Spoken
<1>17. Silent'
  BY <1>6, <1>7, <1>9, <1>10, <1>15 DEF Silent, Speaking
<1>18. \A u \in Threads : pc'[u] \in Tearing <=> pc[u] \in Tearing
  BY <1>1, <1>6, <1>7 DEF Tearing
<1>19. Stopped'
  <2>1. \A u \in Threads : pc'[u] \in Tearing => session'[This(u)'].stop
    BY <1>4, <1>18 DEF Stopped, This
  <2>2. state' = "Stopping" => \E u \in Threads : pc'[u] \in Tearing
    BY <1>7, <1>18 DEF Stopped
  <2> QED
    BY <2>1, <2>2 DEF Stopped
<1>20. This(t)' = s
  BY <1>2, <1>4 DEF This
<1>21. Placing'
  <2>1. \A u \in Callers : ~Retires(u)' /\ (Registers(u)' => u = t)
    BY <1>7, <1>9 DEF Retires, Registers, Begun, Stops
  <2> QED
    BY <1>3, <1>4, <1>20, <2>1 DEF Placing
<1>22. Waits'
  <2>1. \A o \in Sessions : ~(active' = o /\ ~session'[o].stop /\ pc'[o] = "idle")
    BY <1>3, <1>4, <1>7
  <2>2. \A o \in Sessions : ~(Up(o, Working \cup {"connect"})' /\ session'[o].stop)
    BY <1>3, <1>4 DEF Up
  <2>3. \A u \in Callers : (pc'[u] \in Started => u = t) /\ pc'[u] # "connect"
    BY <1>7, <1>9 DEF Started
  <2> QED
    BY <1>7, <1>20, <2>1, <2>2, <2>3 DEF Waits
<1>23. MediaUp'
  <2>1. \A o \in Sessions \ {s} : ~session'[o].media
    BY <1>4, <1>10
  <2> QED
    BY <1>3, <1>4, <1>7, <2>1 DEF MediaUp
<1>24. Shows'
  BY <1>7, <1>8, <1>9, <1>13, <1>14, <1>15 DEF Shows
<1>25. Agrees'
  <2> SUFFICES ASSUME NEW o \in Sessions, Going(o)'
               PROVE  toggle' = session'[o].frozen /\ NoClosing' /\ \A u \in Threads : said'[u] \notin Closing
    BY DEF Agrees
  <2>1. o = s
    BY <1>3, <1>4 DEF Going, Up
  <2> QED
    BY <1>4, <1>8, <1>13, <1>15, <2>1
<1>26. Clear'
  <2> SUFFICES ASSUME NEW u \in Callers, Clears(u)' PROVE FALSE
    BY DEF Clear
  <2>1. pc'[u] \in {"idle", "launch"} /\ stack'[u] = <<>>
    BY <1>1, <1>4, <1>7, <1>9
  <2>2. <<>> # <<"register">> /\ <<>> # <<"drop", "register">>
    OBVIOUS
  <2> QED
    BY <2>1, <2>2 DEF Clears
<1>27. LastWord'
  <2>1. pending /\ \A i \in DOMAIN posts : posts[i] # "returned"
    BY <1>1 DEF Alone
  <2> QED
    BY <1>8, <2>1 DEF LastWord
<1> QED
  BY <1>16, <1>17, <1>19, <1>21, <1>22, <1>23, <1>24, <1>25, <1>26, <1>27

-----------------------------------------------------------------------------
(* The steps of a session's own thread.                                      *)

\* What they do: the calls and the other sessions are left alone, a stop is
\* for good, and one that was stopped comes to its end.
OwnMoves(s) ==
  /\ pc[s] # "idle" /\ said[s] = None
  /\ \A u \in Threads \ {s} : said'[u] = said[u]
  /\ \A u \in Callers : pc'[u] = pc[u] /\ stack'[u] = stack[u] /\ refs'[u] = refs[u]
  /\ \A o \in Sessions \ {s} : pc'[o] = pc[o] /\ session'[o] = session[o] /\ refs'[o] = refs[o]
  /\ active' = active /\ (session'[s].made <=> session[s].made)
  /\ said'[s] # None => said'[s] \in Spoken /\ pc'[s] # "idle"
  /\ said'[s] \in Closing => pc'[s] = "ended" /\ session'[s].stop
  /\ session[s].stop => session'[s].stop
  /\ (session'[s].stop <=> session[s].stop) => session'[s].frozen = session[s].frozen
  /\ pc'[s] \in Tearing => session'[s].stop /\ refs'[s][1] = s
  /\ state' = "Stopping" => pc'[s] \in Tearing \/ (state = "Stopping" /\ pc[s] \notin Tearing)
  /\ session'[s].stop \/ pc'[s] # "idle"
  /\ session'[s].stop /\ ~session[s].stop => pc'[s] = "teardown"
  /\ session[s].stop /\ pc[s] \in Tearing => pc'[s] \in Tearing \cup {"ended"}
  /\ session[s].stop /\ pc[s] = "ended" => pc'[s] = "idle" /\ said'[s] = None
  /\ session'[s].media => (session[s].media /\ pc[s] # "teardown") \/ ~session'[s].stop

\* A step of the thread leaves the others, their sessions and what they say.
LEMMA OwnFrame ==
  ASSUME AppsInv, NEW s \in Sessions, OwnSteps(s) \/ Lose(s)
  PROVE  /\ pc[s] # "idle" /\ said[s] = None /\ s \in Threads
         /\ \A u \in Threads \ {s} : said'[u] = said[u]
         /\ \A u \in Callers : pc'[u] = pc[u] /\ stack'[u] = stack[u] /\ refs'[u] = refs[u]
         /\ \A o \in Sessions \ {s} : pc'[o] = pc[o] /\ session'[o] = session[o] /\ refs'[o] = refs[o]
         /\ active' = active /\ (session'[s].made <=> session[s].made)
<1>0. EngineInv /\ s \in Threads
  BY DEF AppsInv, Threads
<1>1. /\ pc \in [Threads -> Labels] /\ stack \in [Threads -> Seq(Labels)] /\ refs \in [Threads -> Seq(Sessions)]
      /\ said \in [Threads -> SessionStates \cup {None}] /\ session \in [Sessions -> Session]
  BY <1>0 DEF EngineInv, Control, EngineTypeOK
<1>2. pc[s] # "idle" /\ said[s] = None
  BY DEF OwnSteps, StopSteps, Retry, Recovered, Fail, End, Lose, StopOnce, Teardown, Settle, ToIdle, At
<1>3. \A u \in Threads \ {s} : said'[u] = said[u]
  <2>1. Quietly \/ \E to \in SessionStates : Transition(s, to)
    BY DEF OwnSteps, StopSteps, Retry, Recovered, Fail, End, Lose, StopOnce, Teardown, Settle, ToIdle, SessionStates
  <2>2. (\E to : said' = [said EXCEPT ![s] = to]) \/ said' = said
    BY <2>1 DEF Quietly, Transition
  <2> QED
    BY <1>1, <2>2
<1>4. \A u \in Callers : pc'[u] = pc[u] /\ stack'[u] = stack[u] /\ refs'[u] = refs[u]
  BY <1>0, OwnApart
<1>5. \A o \in Sessions \ {s} : pc'[o] = pc[o] /\ refs'[o] = refs[o]
  <2>1. (\E p : pc' = [pc EXCEPT ![s] = p]) \/ pc' = pc
    BY DEF OwnSteps, StopSteps, Retry, Recovered, Fail, End, Lose, StopOnce, Teardown, Settle, ToIdle,
           Goto, Call, Return
  <2>2. (\E r : refs' = [refs EXCEPT ![s] = r]) \/ refs' = refs
    BY DEF OwnSteps, StopSteps, Retry, Recovered, Fail, End, Lose, StopOnce, Teardown, Settle, ToIdle, Hold
  <2> QED
    BY <1>1, <2>1, <2>2 DEF Threads
<1>6. \A o \in Sessions \ {s} : session'[o] = session[o]
  <2>1. CASE StopSteps(s)
    <3>1. This(s) = s
      BY <1>0, <2>1, OwnAt DEF EngineInv, StopSteps, StopOnce, Teardown, Settle, ToIdle, At, Stops
    <3>2. \/ session' = session
          \/ session' = [session EXCEPT ![s].stop = TRUE, ![s].frozen = FALSE]
          \/ session' = [session EXCEPT ![s].media = FALSE, ![s].recovering = FALSE]
      BY <2>1, <3>1 DEF StopSteps, StopOnce, Teardown, Settle, ToIdle, KeepSessions
    <3> QED
      BY <1>1, <3>2
  <2>2. CASE Retry(s) \/ Recovered(s) \/ Fail(s) \/ End(s) \/ Lose(s)
    <3>1. \/ session' = session
          \/ session' = [session EXCEPT ![s].recovering = FALSE, ![s].media = TRUE]
          \/ session' = [session EXCEPT ![s].media = FALSE]
          \/ session' = [session EXCEPT ![s].fail = TRUE]
          \/ session' = [session EXCEPT ![s].recovering = TRUE, ![s].fail = FALSE]
      BY <2>2 DEF Retry, Recovered, Fail, End, Lose, KeepSessions
    <3> QED
      BY <1>1, <3>1
  <2> QED
    BY <2>1, <2>2 DEF OwnSteps
<1>7. SameMade /\ active' = active
  BY <1>0, OwnSameMade
<1> QED
  BY <1>0, <1>2, <1>3, <1>4, <1>5, <1>6, <1>7 DEF SameMade

\* CastSession::Stop on the session's own thread.
LEMMA OwnStopMoves ==
  ASSUME AppsInv, StepInv, NEW s \in Sessions, StopSteps(s)
  PROVE  OwnMoves(s)
<1> USE DEF StepInv
<1>0. EngineInv /\ OwnSteps(s)
  BY DEF AppsInv, OwnSteps
<1>1. /\ pc[s] # "idle" /\ said[s] = None /\ s \in Threads
      /\ \A u \in Threads \ {s} : said'[u] = said[u]
      /\ \A u \in Callers : pc'[u] = pc[u] /\ stack'[u] = stack[u] /\ refs'[u] = refs[u]
      /\ \A o \in Sessions \ {s} : pc'[o] = pc[o] /\ session'[o] = session[o] /\ refs'[o] = refs[o]
      /\ active' = active /\ (session'[s].made <=> session[s].made)
  BY <1>0, OwnFrame
<1>2. pc[s] \in Stops
  BY DEF StopSteps, StopOnce, Teardown, Settle, ToIdle, At, Stops
<1>3. stack[s] = <<"ended">> /\ This(s) = s /\ refs' = refs
  BY <1>0, <1>2, OwnAt DEF EngineInv, StopSteps, StopOnce, Teardown, Settle, ToIdle
<1>4. /\ pc \in [Threads -> Labels] /\ said \in [Threads -> SessionStates \cup {None}]
      /\ session \in [Sessions -> Session] /\ state \in SessionStates
  BY <1>0 DEF EngineInv, Control, EngineTypeOK
<1>5. refs'[s][1] = s
  BY <1>3 DEF This
<1>6. (Return(s) => pc'[s] = "ended") /\ \A p \in Stops : Goto(s, p) => pc'[s] = p
  BY <1>1, <1>3, <1>4 DEF Return, Goto
<1>7. None \notin Closing /\ None \notin Spoken /\ "Stopping" \notin Closing
  BY DEF Closing, Spoken, SessionStates
<1>8. CASE StopOnce(s) /\ session[s].stop
  <2>1. /\ pc[s] = "stop" /\ pc'[s] = "ended" /\ said'[s] = None /\ state' = state /\ session' = session
    BY <1>1, <1>3, <1>6, <1>8 DEF StopOnce, At, Quietly
  <2> QED
    BY <1>1, <1>7, <1>8, <2>1 DEF OwnMoves, Tearing
<1>9. CASE StopOnce(s) /\ ~session[s].stop
  <2>1. /\ pc[s] = "stop" /\ Goto(s, "teardown")
        /\ session' = [session EXCEPT ![s].stop = TRUE, ![s].frozen = FALSE]
        /\ Quietly \/ Transition(s, "Stopping")
    BY <1>3, <1>9 DEF StopOnce, At
  <2>2. pc'[s] = "teardown" /\ session'[s].stop = TRUE /\ session'[s].media = session[s].media
    BY <1>4, <1>6, <2>1 DEF Stops, Session
  <2>3. said'[s] \in {None, "Stopping"}
    BY <1>1, <1>4, <2>1 DEF Quietly, Transition
  <2> QED
    BY <1>1, <1>5, <1>7, <1>9, <2>1, <2>2, <2>3 DEF OwnMoves, Tearing, Spoken
<1>10. CASE Teardown(s)
  <2>1. /\ pc[s] = "teardown" /\ pc'[s] = "settle" /\ said'[s] = None /\ state' = state
        /\ session' = [session EXCEPT ![s].media = FALSE, ![s].recovering = FALSE]
    BY <1>1, <1>3, <1>6, <1>10 DEF Teardown, At, Quietly, Stops
  <2>2. session'[s].stop = session[s].stop /\ session'[s].frozen = session[s].frozen /\ ~session'[s].media
    BY <1>4, <2>1 DEF Session
  <2>3. session[s].stop
    BY <1>1, <1>3, <2>1 DEF Stopped, Tearing
  <2> QED
    BY <1>1, <1>5, <1>7, <2>1, <2>2, <2>3 DEF OwnMoves, Tearing
<1>11. CASE Settle(s) \/ ToIdle(s)
  <2>1. pc[s] \in {"settle", "toIdle"} /\ session' = session
    BY <1>11 DEF Settle, ToIdle, At, KeepSessions
  <2>2. session[s].stop
    BY <1>1, <1>3, <2>1 DEF Stopped, Tearing
  <2>3. \/ Transition(s, "Failed") /\ Return(s)
        \/ state = "Failed" /\ Transition(s, "Stopping") /\ Goto(s, "toIdle")
        \/ Transition(s, "Idle") /\ Return(s)
    BY <1>11 DEF Settle, ToIdle
  <2>4. CASE Transition(s, "Failed") /\ Return(s)
    <3>1. said'[s] = "Failed" /\ state' = "Failed" /\ pc'[s] = "ended"
      BY <1>1, <1>4, <1>6, <2>4 DEF Transition, IsValidTransition
    <3> QED
      BY <1>1, <2>1, <2>2, <3>1 DEF OwnMoves, Tearing, Spoken, Closing
  <2>5. CASE state = "Failed" /\ Transition(s, "Stopping") /\ Goto(s, "toIdle")
    <3>1. said'[s] = "Stopping" /\ pc'[s] = "toIdle"
      BY <1>1, <1>4, <1>6, <2>5 DEF Transition, IsValidTransition, Stops
    <3> QED
      BY <1>1, <1>5, <1>7, <2>1, <2>2, <3>1 DEF OwnMoves, Tearing, Spoken
  <2>6. CASE Transition(s, "Idle") /\ Return(s)
    <3>1. said'[s] \in {None, "Idle"} /\ pc'[s] = "ended"
      BY <1>1, <1>4, <1>6, <2>6 DEF Transition
    <3>2. IsValidTransition("Stopping", "Idle")
      BY DEF IsValidTransition, Successors
    <3>3. state' # "Stopping"
      BY <1>4, <2>6, <3>2 DEF Transition
    <3> QED
      BY <1>1, <1>7, <2>1, <2>2, <3>1, <3>3 DEF OwnMoves, Tearing, Spoken, Closing
  <2> QED
    BY <2>3, <2>4, <2>5, <2>6
<1> QED
  BY <1>8, <1>9, <1>10, <1>11 DEF StopSteps

\* The other steps.
LEMMA OwnLifeMoves ==
  ASSUME AppsInv, StepInv, NEW s \in Sessions, Retry(s) \/ Recovered(s) \/ Fail(s) \/ End(s) \/ Lose(s)
  PROVE  OwnMoves(s)
<1> USE DEF StepInv
<1>0. EngineInv /\ (OwnSteps(s) \/ Lose(s))
  BY DEF AppsInv, OwnSteps
<1>1. /\ pc[s] # "idle" /\ said[s] = None /\ s \in Threads
      /\ \A u \in Threads \ {s} : said'[u] = said[u]
      /\ \A u \in Callers : pc'[u] = pc[u] /\ stack'[u] = stack[u] /\ refs'[u] = refs[u]
      /\ \A o \in Sessions \ {s} : pc'[o] = pc[o] /\ session'[o] = session[o] /\ refs'[o] = refs[o]
      /\ active' = active /\ (session'[s].made <=> session[s].made)
  BY <1>0, OwnFrame
<1>2. /\ pc \in [Threads -> Labels] /\ said \in [Threads -> SessionStates \cup {None}]
      /\ session \in [Sessions -> Session] /\ state \in SessionStates
  BY <1>0 DEF EngineInv, Control, EngineTypeOK
<1>3. None \notin Closing /\ None \notin Spoken
  BY DEF Closing, Spoken, SessionStates
<1>4. CASE Retry(s)
  <2>1. /\ pc[s] = "retry" /\ ~session[s].stop /\ said'[s] = None /\ state' = state
        /\ \/ session' = [session EXCEPT ![s].recovering = FALSE, ![s].media = TRUE] /\ Goto(s, "recovered")
           \/ session' = [session EXCEPT ![s].media = FALSE] /\ pc' = pc
    BY <1>1, <1>4 DEF Retry, At, Quietly
  <2>2. /\ pc'[s] \in {"retry", "recovered"}
        /\ session'[s].stop = session[s].stop /\ session'[s].frozen = session[s].frozen
    BY <1>1, <1>2, <2>1 DEF Goto, Session
  <2> QED
    BY <1>1, <1>3, <2>1, <2>2 DEF OwnMoves, Tearing
<1>5. CASE Recovered(s)
  <2>1. /\ pc[s] = "recovered" /\ session' = session /\ Transition(s, "Streaming") /\ Goto(s, "watch")
    BY <1>5 DEF Recovered, At, KeepSessions
  <2>2. pc'[s] = "watch" /\ said'[s] \in {None, "Streaming"} /\ state' \in {state, "Streaming"}
    BY <1>1, <1>2, <2>1 DEF Goto, Transition
  <2> QED
    BY <1>1, <1>3, <2>1, <2>2 DEF OwnMoves, Tearing, Spoken, Closing
<1>6. CASE Fail(s)
  <2>1. /\ pc[s] \in {"watch", "retry", "ended"} /\ ~session[s].stop /\ said'[s] = None /\ state' = state
        /\ session' = [session EXCEPT ![s].fail = TRUE] /\ Call(s, "stop", "ended")
    BY <1>1, <1>6 DEF Fail, Quietly
  <2>2. /\ pc'[s] = "stop" /\ session'[s].stop = session[s].stop
        /\ session'[s].frozen = session[s].frozen /\ session'[s].media = session[s].media
    BY <1>1, <1>2, <2>1 DEF Call, Session
  <2> QED
    BY <1>1, <1>3, <2>1, <2>2 DEF OwnMoves, Tearing
<1>7. CASE End(s)
  <2>1. /\ pc[s] \in {"watch", "retry", "ended"} /\ session[s].stop /\ said'[s] = None /\ state' = state
        /\ session' = session /\ Goto(s, "idle")
    BY <1>1, <1>7 DEF End, Quietly, KeepSessions
  <2>2. pc'[s] = "idle"
    BY <1>1, <1>2, <2>1 DEF Goto
  <2> QED
    BY <1>1, <1>3, <2>1, <2>2 DEF OwnMoves, Tearing
<1>8. CASE Lose(s)
  <2>1. /\ pc[s] = "watch" /\ ~session[s].stop
        /\ session' = [session EXCEPT ![s].recovering = TRUE, ![s].fail = FALSE]
        /\ \/ Transition(s, "Reconnecting") /\ Goto(s, "retry")
           \/ Quietly /\ Goto(s, "ended")
    BY <1>8 DEF Lose, At
  <2>2. /\ pc'[s] \in {"retry", "ended"} /\ session'[s].stop = session[s].stop
        /\ session'[s].frozen = session[s].frozen /\ session'[s].media = session[s].media
    BY <1>1, <1>2, <2>1 DEF Goto, Session
  <2>3. said'[s] \in {None, "Reconnecting"} /\ state' \in {state, "Reconnecting"}
    BY <1>1, <1>2, <2>1 DEF Transition, Quietly
  <2> QED
    BY <1>1, <1>3, <2>1, <2>2, <2>3 DEF OwnMoves, Tearing, Spoken, Closing
<1> QED
  BY <1>4, <1>5, <1>6, <1>7, <1>8

\* The window stays in step with them.
LEMMA OwnInStep ==
  ASSUME AppsInv, Alone, OneCast, Win, StepInv, NEW s \in Sessions, OwnMoves(s), UNCHANGED appVars
  PROVE  StepInv'
<1> USE DEF StepInv
<1>0. EngineInv /\ s \in Threads /\ s \notin Callers
  BY DEF AppsInv, Threads
<1>1. /\ pc[s] # "idle" /\ said[s] = None
      /\ \A u \in Callers : pc'[u] = pc[u] /\ stack'[u] = stack[u] /\ refs'[u] = refs[u]
      /\ \A o \in Sessions \ {s} : pc'[o] = pc[o] /\ session'[o] = session[o] /\ refs'[o] = refs[o]
      /\ active' = active /\ (session'[s].made <=> session[s].made)
      /\ (session[s].stop => session'[s].stop)
      /\ \A u \in Threads \ {s} : said'[u] = said[u]
  BY DEF OwnMoves
<1>2. /\ UNCHANGED <<program, posts, shown, pending, toggle, inside>>
      /\ NoState' = NoState /\ NoClosing' = NoClosing /\ WillShow' = WillShow /\ ShownActive' = ShownActive
  BY DEF appVars, apiVars, NoState, NoClosing, WillShow, ShownActive
<1>3. session[s].made /\ s # None
  BY <1>0, <1>1 DEF EngineInv, Exists
<1>4. \A o \in Sessions \ {s} : ~session[o].made /\ pc[o] = "idle" /\ said[o] = None /\ ~session[o].media
  <2>1. \A o \in Sessions \ {s} : ~session[o].made
    BY <1>0, <1>3, OnlyMade
  <2> QED
    BY <1>0, <2>1 DEF EngineInv, Exists, Silent
<1>5. \A u \in Callers : u \in Threads \ {s} /\ said'[u] = said[u]
  BY <1>0, <1>1 DEF Threads
<1>6. \A o \in Sessions \ {s} :
        /\ ~session'[o].made /\ ~session'[o].media /\ pc'[o] = "idle" /\ said'[o] = None
        /\ o \in Threads \ {s}
  BY <1>1, <1>4 DEF Threads
<1>7. \A u \in Callers : One(refs[u]) => This(u) = s /\ This(u)' = s
  <2> SUFFICES ASSUME NEW u \in Callers, NEW o \in Sessions, refs[u] = <<o>> PROVE This(u) = s /\ This(u)' = s
    BY DEF One
  <2>1. This(u) = o /\ session[o].made
    BY <1>0 DEF This, EngineInv, Exists
  <2> QED
    BY <1>1, <1>4, <2>1 DEF This
<1>8. \A u \in Callers : pc[u] \in Begun \cup Tearing => One(refs[u])
  <2>1. \A u \in Callers : pc[u] \in Begun \cup Stops => refs[u] # <<>>
    BY <1>0, CallerAt DEF EngineInv, Stopping, One, Two
  <2> QED
    BY <2>1 DEF OneCast, Tearing, Stops
<1>9. \A u \in Callers : pc[u] \notin {"start", "connect"}
  <2> SUFFICES ASSUME NEW u \in Callers, pc[u] \in {"start", "connect"} PROVE FALSE
    OBVIOUS
  <2>1. PICK o \in Sessions : refs[u] = <<o>>
    BY <1>8 DEF Begun, One
  <2>2. o = s
    BY <1>7, <2>1 DEF This, One
  <2> QED
    BY <1>0, <1>1, <2>1, <2>2 DEF EngineInv, Fresh, Begins
<1>10. None \notin Closing
  BY DEF Closing, SessionStates
<1>11. Words'
  <2>1. said'[s] # None => said'[s] \in Spoken
    BY DEF OwnMoves
  <2> QED
    BY <1>1, <1>2, <2>1 DEF Words
<1>12. Silent'
  <2>1. \A u \in Callers : said'[u] # None => pc'[u] \in Speaking
    BY <1>1, <1>5 DEF Silent
  <2>2. (pc'[s] = "idle" => said'[s] = None) /\ (said'[s] \in Closing => pc'[s] = "ended" /\ session'[s].stop)
    BY DEF OwnMoves
  <2> QED
    BY <1>6, <1>10, <2>1, <2>2 DEF Silent
<1>13. Stopped'
  <2>1. ASSUME NEW u \in Threads, pc'[u] \in Tearing PROVE session'[refs'[u][1]].stop
    <3>1. CASE u = s
      BY <2>1, <3>1 DEF OwnMoves
    <3>2. CASE u \in Callers
      <4>1. pc[u] \in Tearing /\ This(u) = s /\ This(u)' = s
        BY <1>1, <1>7, <1>8, <2>1, <3>2
      <4> QED
        BY <1>1, <4>1 DEF Stopped, This
    <3>3. CASE u \in Sessions \ {s}
      BY <1>6, <2>1, <3>3 DEF Tearing
    <3> QED
      BY <3>1, <3>2, <3>3 DEF Threads
  <2>2. ASSUME state' = "Stopping" PROVE \E u \in Threads : pc'[u] \in Tearing
    <3>1. CASE pc'[s] \in Tearing
      BY <1>0, <3>1
    <3>2. CASE state = "Stopping" /\ pc[s] \notin Tearing
      <4>1. PICK u \in Threads : pc[u] \in Tearing
        BY <3>2 DEF Stopped
      <4>2. u \in Callers
        BY <1>4, <3>2, <4>1 DEF Tearing, Threads
      <4> QED
        BY <1>1, <4>1, <4>2
    <3> QED
      BY <2>2, <3>1, <3>2 DEF OwnMoves
  <2> QED
    BY <2>1, <2>2 DEF Stopped, This
<1>14. Placing'
  BY <1>1 DEF Placing, Registers, Retires, This
<1>15. \A o \in Sessions : /\ Up(o, Working)' <=> Up(o, Working)
                           /\ Up(o, Working \cup {"connect"})' <=> Up(o, Working \cup {"connect"})
  BY <1>1 DEF Up
<1>16. \A o \in Sessions : Up(o, Working) \/ Up(o, Working \cup {"connect"}) => o = s
  <2> SUFFICES ASSUME NEW o \in Sessions, active = o PROVE o = s
    BY DEF Up
  <2>1. session[o].made
    BY <1>0 DEF EngineInv, Exists
  <2> QED
    BY <1>4, <2>1
<1>17. Up(s, Working) => Up(s, Working \cup {"connect"})
  BY DEF Up
<1>18. Up(s, Working \cup {"connect"}) /\ session[s].stop => pc[s] \in Tearing \cup {"ended"}
  BY <1>1 DEF Waits
<1>19. Waits'
  <2>1. \A o \in Sessions : ~(active' = o /\ ~session'[o].stop /\ pc'[o] = "idle")
    <3> SUFFICES ASSUME NEW o \in Sessions, active = o PROVE session'[o].stop \/ pc'[o] # "idle"
      BY <1>1
    <3>1. session[o].made
      BY <1>0 DEF EngineInv, Exists
    <3>2. o = s
      BY <1>4, <3>1
    <3> QED
      BY <3>2 DEF OwnMoves
  <2>2. ASSUME NEW o \in Sessions, Up(o, Working \cup {"connect"})', session'[o].stop
        PROVE  pc'[o] \in Tearing \cup {"ended", "idle"}
    <3>1. o = s /\ Up(s, Working \cup {"connect"})
      BY <1>15, <1>16, <2>2
    <3>2. CASE session[s].stop
      <4>1. pc[s] \in Tearing \cup {"ended"}
        BY <1>18, <3>1, <3>2
      <4> QED
        BY <3>1, <3>2, <4>1 DEF OwnMoves
    <3>3. CASE ~session[s].stop
      BY <2>2, <3>1, <3>3 DEF OwnMoves, Tearing
    <3> QED
      BY <3>2, <3>3
  <2>3. ASSUME NEW u \in Callers, pc'[u] \in Started PROVE pc'[refs'[u][1]] # "idle" \/ session'[refs'[u][1]].stop
    <3>1. This(u)' = s
      BY <1>1, <1>7, <1>8, <2>3 DEF Started, Begun
    <3> QED
      BY <3>1 DEF OwnMoves, This
  <2>4. \A u \in Callers : pc'[u] # "connect"
    BY <1>1, <1>9
  <2> QED
    BY <2>1, <2>2, <2>3, <2>4 DEF Waits, This
<1>20. MediaUp'
  <2> SUFFICES ASSUME session'[s].media, session'[s].stop \/ pc'[s] = "idle"
               PROVE  \E u \in Threads : pc'[u] = "teardown" /\ refs'[u][1] = s
    BY <1>6 DEF MediaUp, This
  <2>1. session'[s].stop
    BY DEF OwnMoves
  <2>2. session[s].media /\ pc[s] # "teardown"
    BY <2>1 DEF OwnMoves
  <2>3. CASE ~session[s].stop
    <3>1. pc'[s] = "teardown"
      BY <2>1, <2>3 DEF OwnMoves
    <3> QED
      BY <1>0, <3>1 DEF OwnMoves, Tearing
  <2>4. CASE session[s].stop
    <3>1. PICK u \in Threads : pc[u] = "teardown" /\ refs[u][1] = s
      BY <2>2, <2>4 DEF MediaUp, This
    <3>2. u \in Callers
      BY <1>4, <2>2, <3>1 DEF Threads
    <3> QED
      BY <1>1, <3>1, <3>2
  <2> QED
    BY <2>3, <2>4
<1>21. Shows'
  <2>1. \A u \in Callers : pc'[u] # "connect"
    BY <1>1, <1>9
  <2>2. ASSUME NEW o \in Sessions, Up(o, Working)', HasThread(o)'
        PROVE  NoClosing /\ WillShow /\ \A u \in Threads : said'[u] \in Closing => u = o
    <3>1. o = s /\ Up(s, Working)
      BY <1>15, <1>16, <2>2
    <3>2. HasThread(s)
      <4>1. CASE ~session[s].stop
        BY <1>1, <4>1 DEF HasThread
      <4>2. CASE session[s].stop /\ pc[s] \in Tearing
        BY <4>2 DEF HasThread
      <4>3. CASE session[s].stop /\ pc[s] = "ended"
        <5>1. pc'[s] = "idle" /\ said'[s] = None /\ session'[s].stop
          BY <4>3 DEF OwnMoves
        <5> QED
          BY <2>2, <3>1, <5>1 DEF HasThread, Tearing
      <4> QED
        BY <1>17, <1>18, <3>1, <4>1, <4>2, <4>3
    <3>3. NoClosing /\ WillShow /\ \A u \in Threads : said[u] \in Closing => u = s
      BY <3>1, <3>2 DEF Shows
    <3> QED
      BY <1>1, <3>1, <3>3
  <2> QED
    BY <1>2, <2>1, <2>2 DEF Shows
<1>22. Agrees'
  <2> SUFFICES ASSUME NEW o \in Sessions, Up(o, Working \cup {"connect"})', ~session'[o].stop
               PROVE  toggle' = session'[o].frozen /\ NoClosing' /\ \A u \in Threads : said'[u] \notin Closing
    BY DEF Agrees, Going
  <2>1. o = s /\ Up(s, Working \cup {"connect"})
    BY <1>15, <1>16
  <2>2. ~session[s].stop
    BY <1>1, <2>1
  <2>3. toggle = session[s].frozen /\ NoClosing /\ \A u \in Threads : said[u] \notin Closing
    BY <2>1, <2>2 DEF Agrees, Going
  <2>4. session'[s].frozen = session[s].frozen
    <3>1. (session'[s].stop <=> session[s].stop)
      BY <2>1, <2>2
    <3> QED
      BY <3>1 DEF OwnMoves
  <2>5. said'[s] \notin Closing
    BY <2>1 DEF OwnMoves
  <2> QED
    BY <1>1, <1>2, <2>1, <2>3, <2>4, <2>5
<1>23. Done(s) => Done(s)' /\ said'[s] = None
  BY <1>1 DEF Done, OwnMoves
<1>24. Clear'
  <2> SUFFICES ASSUME NEW u \in Callers, Clears(u)'
               PROVE  /\ NoState /\ ~ShownActive /\ pc'[u] \notin Tearing
                      /\ \A v \in Threads : said'[v] = None
                      /\ Done(s)'
    BY <1>2, <1>6 DEF Clear
  <2>1. Clears(u)
    BY <1>1 DEF Clears
  <2>2. /\ NoState /\ ~ShownActive /\ pc[u] \notin Tearing
        /\ \A v \in Threads : said[v] = None
    BY <2>1 DEF Clear
  <2>3. Done(s)
    BY <1>3, <1>9, <2>1 DEF Clear
  <2> QED
    BY <1>1, <1>23, <2>2, <2>3
<1>25. Rests => Rests'
  <2> SUFFICES ASSUME Rests PROVE Rests'
    OBVIOUS
  <2>1. Done(s)
    BY <1>3 DEF Rests
  <2>2. \A v \in Threads : said'[v] = None
    BY <1>1, <1>23, <2>1 DEF Rests
  <2> QED
    BY <1>6, <1>23, <2>1, <2>2 DEF Rests
<1>26. LastWord'
  <2>1. \A k \in 0..Len(posts) : View(k)' = View(k)
    BY <1>2 DEF View
  <2>2. \A i \in {0} \cup DOMAIN posts : Final(i) => Final(i)'
    BY <1>2, <1>25, <2>1 DEF Final
  <2> QED
    BY <1>2, <2>2 DEF LastWord
<1> QED
  BY <1>11, <1>12, <1>13, <1>14, <1>19, <1>20, <1>21, <1>22, <1>24, <1>26

-----------------------------------------------------------------------------
(* What reaches the window, and its own steps.                               *)

\* Steps that leave the engine alone, but for what is said.
LEMMA EngineStands ==
  ASSUME StepInv, UNCHANGED <<state, active, session, pc, stack, refs>>
  PROVE  /\ Stopped' /\ Placing' /\ Waits' /\ MediaUp'
         /\ \A s \in Sessions : (Up(s, Working)' <=> Up(s, Working)) /\ (Going(s)' <=> Going(s))
         /\ \A t \in Callers : Clears(t)' <=> Clears(t)
         /\ \A s \in Sessions : Done(s)' <=> Done(s)
<1>1. \A s \in Sessions : /\ Up(s, Working)' <=> Up(s, Working)
                          /\ Up(s, Working \cup {"connect"})' <=> Up(s, Working \cup {"connect"})
  BY DEF Up
<1>2. Waits'
  BY <1>1 DEF StepInv, Waits, This
<1>3. Stopped' /\ Placing' /\ MediaUp'
  BY DEF StepInv, Stopped, Placing, Registers, Retires, MediaUp, This
<1> QED
  BY <1>1, <1>2, <1>3 DEF Going, Clears, Done

\* While a session starts that nobody stops, no end is on its way.
LEMMA NoEndAhead ==
  ASSUME AppsInv, Alone, StepInv, NEW t \in Callers, pc[t] = "connect"
  PROVE  \A u \in Threads : said[u] \notin Closing
<1>1. EngineInv
  BY DEF AppsInv
<1>2. PICK s \in Sessions : refs[t] = <<s>>
  BY <1>1, CallerAt DEF EngineInv, Begun, One
<1>3. This(t) = s /\ active = s /\ ~session[s].stop
  BY <1>2 DEF StepInv, Placing, Registers, Begun, Waits, This
<1>4. \A u \in Callers : refs[u] = <<s>> => u = t
  BY <1>1, OthersHoldNothing DEF EngineInv
<1>5. Going(s)
  BY <1>3, <1>4 DEF Going, Up
<1> QED
  BY <1>5 DEF StepInv, Agrees

\* A transition is posted.
LEMMA HeardInStep ==
  ASSUME AppsInv, Alone, OneCast, Win, StepInv, quitting = "no", NEW t \in Threads, Heard(t)
  PROVE  StepInv'
<1> USE DEF StepInv
<1>0. EngineInv /\ posts \in Seq(Posted) /\ said \in [Threads -> SessionStates \cup {None}] /\ ~Gtk /\ ~Cli
  BY DEF AppsInv, AppsData, EngineInv, EngineTypeOK, Win, Gtk, Cli
<1>1. WinTold(t)
  BY <1>0 DEF Heard, Entering, Leaving, GtkTold, CliTold, Words
<1> DEFINE m == said[t]
           n == Len(posts)
<1>2. /\ m # None /\ m \in SessionStates /\ m \in Spoken /\ posts' = Append(posts, m)
      /\ said' = [said EXCEPT ![t] = None]
      /\ UNCHANGED <<state, active, session, pc, stack, refs, program, shown, pending, toggle, inside>>
  BY <1>0, <1>1 DEF WinTold, Told, Post, Words, control, apiVars
<1>3. /\ n \in Nat /\ Len(posts') = n + 1 /\ posts'[n + 1] = m /\ DOMAIN posts = 1..n /\ DOMAIN posts' = 1..(n + 1)
      /\ \A i \in 1..n : posts'[i] = posts[i]
  BY <1>0, <1>2
<1>4. said'[t] = None /\ \A u \in Threads \ {t} : said'[u] = said[u]
  BY <1>0, <1>2
<1>5. None \notin Closing /\ "returned" \notin SessionStates /\ Closing \subseteq SessionStates
  BY DEF Closing, SessionStates
<1>6. /\ Stopped' /\ Placing' /\ Waits' /\ MediaUp'
      /\ \A s \in Sessions : (Up(s, Working)' <=> Up(s, Working)) /\ (Going(s)' <=> Going(s))
      /\ \A u \in Callers : Clears(u)' <=> Clears(u)
      /\ \A s \in Sessions : Done(s)' <=> Done(s)
  BY <1>2, EngineStands
<1> HIDE DEF m, n
<1>7. /\ WillShow => WillShow'
      /\ WillShow'
      /\ m \notin Closing /\ NoClosing => NoClosing'
  <2>1. ShownActive' = ShownActive
    BY <1>2 DEF ShownActive
  <2>2. WillShow'
    BY <1>2, <1>3 DEF WillShow
  <2>3. m \notin Closing /\ NoClosing => NoClosing'
    BY <1>3 DEF NoClosing
  <2> QED
    BY <2>1, <2>2, <2>3
<1>8. Words'
  <2>1. \A i \in DOMAIN posts' : posts'[i] \in SessionStates => posts'[i] \in Spoken
    BY <1>2, <1>3 DEF Words
  <2>2. \A u \in Threads : said'[u] # None => said'[u] \in Spoken
    BY <1>4 DEF Words
  <2> QED
    BY <1>2, <2>1, <2>2 DEF Words, ShownActive
<1>9. Silent'
  <2>1. \A u \in Threads : said'[u] \in {None, said[u]}
    BY <1>4
  <2> QED
    BY <1>2, <1>5, <2>1 DEF Silent, Threads
<1>10. Shows'
  <2>1. ASSUME NEW u \in Callers, pc[u] = "connect" PROVE NoClosing'
    <3>1. \A v \in Threads : said[v] \notin Closing
      BY <2>1, NoEndAhead
    <3>2. NoClosing
      BY <2>1 DEF Shows
    <3> QED
      BY <1>7, <3>1, <3>2 DEF m
  <2>2. ASSUME NEW s \in Sessions, Up(s, Working)', HasThread(s)'
        PROVE  NoClosing' /\ \A u \in Threads : said'[u] \in Closing => u = s
    <3>1. Up(s, Working) /\ HasThread(s)
      BY <1>2, <1>4, <1>6, <2>2 DEF HasThread, Threads
    <3>2. NoClosing /\ \A u \in Threads : said[u] \in Closing => u = s
      BY <3>1 DEF Shows
    <3>3. m \notin Closing
      <4> SUFFICES ASSUME m \in Closing PROVE FALSE
        OBVIOUS
      <4>1. t = s
        BY <3>2 DEF m
      <4>2. pc[s] = "ended" /\ session[s].stop /\ said'[s] = None
        BY <1>4, <4>1 DEF Silent, m
      <4> QED
        BY <1>2, <2>2, <4>2 DEF HasThread, Tearing
    <3> QED
      BY <1>4, <1>5, <1>7, <3>2, <3>3
  <2> QED
    BY <1>2, <1>7, <2>1, <2>2 DEF Shows
<1>11. Agrees'
  <2> SUFFICES ASSUME NEW s \in Sessions, Going(s)
               PROVE  toggle' = session'[s].frozen /\ NoClosing' /\ \A u \in Threads : said'[u] \notin Closing
    BY <1>6 DEF Agrees
  <2>1. toggle = session[s].frozen /\ NoClosing /\ \A u \in Threads : said[u] \notin Closing
    BY DEF Agrees
  <2> QED
    BY <1>2, <1>4, <1>5, <1>7, <2>1 DEF m
<1>12. Clear'
  <2>1. \A u \in Callers : ~Clears(u)
    BY <1>2 DEF Clear, m
  <2> QED
    BY <1>6, <2>1 DEF Clear
<1>13. LastWord'
  <2>1. ~Rests
    BY <1>2 DEF Rests, m
  <2>2. ASSUME NEW i \in 0..n, Final(i),
               \A u \in Callers : pc[u] = "idle"
        PROVE  Final(i)'
    <3> SUFFICES ASSUME NEW k \in 0..(n + 1), View(k)' \in Closing,
                        \A j \in (k + 1)..i : posts'[j] \notin SessionStates
                 PROVE  Rests' /\ \A j \in (k + 1)..(n + 1) : posts'[j] \notin SessionStates
      BY <1>3 DEF Final
    <3>1. CASE k \in 0..n
      <4>1. View(k)' = View(k)
        BY <1>2, <1>3, <3>1 DEF View
      <4>2. \A j \in (k + 1)..i : posts[j] \notin SessionStates
        BY <1>3, <3>1
      <4> QED
        BY <1>3, <2>1, <2>2, <3>1, <4>1, <4>2 DEF Final, n
    <3>2. CASE k = n + 1
      <4>1. m \in Closing
        BY <1>3, <3>2 DEF View
      <4>2. \A u \in Callers : said[u] = None
        BY <2>2 DEF Silent, Speaking, Stops
      <4>3. t \in Sessions /\ pc[t] = "ended" /\ session[t].stop
        BY <1>2, <4>1, <4>2 DEF Threads, Silent, m
      <4>4. session[t].made
        BY <1>0, <4>3 DEF EngineInv, Exists
      <4>5. \A o \in Sessions \ {t} : ~session[o].made
        BY <1>0, <4>3, <4>4, OnlyMade
      <4>6. \A o \in Sessions \ {t} : said[o] = None
        BY <1>0, <4>5 DEF EngineInv, Exists, Silent
      <4>7. \A u \in Threads : said'[u] = None
        BY <1>4, <4>2, <4>6 DEF Threads
      <4>8. Done(t)'
        BY <1>2, <4>3 DEF Done
      <4>9. \A o \in Sessions : session'[o].made => Done(o)'
        BY <1>2, <4>5, <4>8
      <4> QED
        BY <1>3, <3>2, <4>7, <4>9 DEF Rests
    <3> QED
      BY <1>3, <3>1, <3>2
  <2>3. ASSUME ~pending PROVE Final(0)'
    <3>1. Final(0) /\ \A u \in Callers : pc[u] = "idle"
      BY <2>3 DEF LastWord, Alone
    <3> QED
      BY <1>3, <2>2, <3>1
  <2>4. ASSUME NEW i \in DOMAIN posts', posts'[i] = "returned" PROVE Final(i)'
    <3>1. i \in 1..n /\ posts[i] = "returned"
      BY <1>2, <1>3, <1>5, <2>4
    <3>2. Final(i) /\ \A u \in Callers : pc[u] = "idle"
      BY <1>3, <3>1 DEF LastWord, Alone
    <3> QED
      BY <1>3, <2>2, <3>1, <3>2
  <2> QED
    BY <1>2, <2>3, <2>4 DEF LastWord
<1> QED
  BY <1>6, <1>8, <1>9, <1>10, <1>11, <1>12, <1>13

\* A call has returned: what a window that is about to be told so shows last is
\* a closing state only when nothing runs any more.
LEMMA ReturnsInStep ==
  ASSUME AppsInv, Alone, OneCast, Win, StepInv, quitting = "no", NEW t \in Callers, Returns(t)
  PROVE  StepInv'
<1> USE DEF StepInv
<1>0. EngineInv /\ t \in Threads /\ t \notin Sessions /\ posts \in Seq(Posted)
  BY DEF AppsInv, AppsData, Threads
<1>1. pc[t] = "return" /\ said[t] = None /\ stack[t] = <<>> /\ refs[t] = <<>>
  BY <1>0, CallerAt DEF EngineInv, Returns, At
<1>2. /\ pc' = [pc EXCEPT ![t] = "idle"] /\ stack' = [stack EXCEPT ![t] = <<>>]
      /\ posts' = Append(posts, "returned")
      /\ UNCHANGED <<state, active, session, refs, said, program, shown, pending, toggle, inside>>
  BY DEF Returns, Post, apiVars
<1>3. pc \in [Threads -> Labels] /\ stack \in [Threads -> Seq(Labels)]
  BY <1>0 DEF EngineInv, Control
<1>4. /\ pc'[t] = "idle" /\ stack'[t] = <<>>
      /\ \A u \in Threads \ {t} : pc'[u] = pc[u] /\ stack'[u] = stack[u]
  BY <1>0, <1>2, <1>3
<1>5. PICK n \in Nat : n = Len(posts)
  BY <1>0
<1>6. /\ n \in Nat /\ Len(posts') = n + 1 /\ posts'[n + 1] = "returned"
      /\ DOMAIN posts = 1..n /\ DOMAIN posts' = 1..(n + 1)
      /\ \A i \in 1..n : posts'[i] = posts[i]
  BY <1>0, <1>2, <1>5
<1>7. \A u \in Callers \ {t} :
        pc[u] = "idle" /\ stack[u] = <<>> /\ refs[u] = <<>> /\ u \in Threads \ {t} /\ said[u] = None
  <2>1. \A u \in Callers \ {t} : pc[u] = "idle" /\ stack[u] = <<>> /\ refs[u] = <<>> /\ u \in Threads \ {t}
    BY <1>0, <1>1, OthersHoldNothing DEF EngineInv, Threads
  <2> QED
    BY <2>1 DEF Silent, Speaking, Stops
<1>8. \A s \in Sessions : pc'[s] = pc[s] /\ s \in Threads
  BY <1>0, <1>4 DEF Threads
<1>9. \A u \in Callers : pc'[u] = "idle" /\ stack'[u] = <<>> /\ refs[u] = <<>> /\ said[u] = None
  BY <1>1, <1>4, <1>7
<1>10. "returned" \notin SessionStates /\ Closing \subseteq SessionStates /\ None \notin Closing
  BY DEF Closing, SessionStates
<1>11. \A u \in Threads : pc'[u] \in Tearing <=> pc[u] \in Tearing
  BY <1>1, <1>4 DEF Tearing
<1>12. /\ NoClosing => NoClosing'
       /\ WillShow => WillShow'
  BY <1>2, <1>6, <1>10 DEF NoClosing, WillShow, ShownActive
<1>13. Words'
  BY <1>2, <1>6, <1>10 DEF Words, ShownActive
<1>14. Silent'
  BY <1>2, <1>8, <1>9 DEF Silent
<1>15. Stopped'
  <2>1. \A u \in Threads : pc'[u] \in Tearing => session[refs[u][1]].stop
    BY <1>11 DEF Stopped, This
  <2>2. state = "Stopping" => \E u \in Threads : pc'[u] \in Tearing
    BY <1>11 DEF Stopped
  <2> QED
    BY <1>2, <2>1, <2>2 DEF Stopped, This
<1>16. Placing'
  BY <1>9 DEF Placing, Registers, Retires, Begun, Stops
<1>17. \A s \in Sessions : Up(s, Working)' => Up(s, Working) /\ active = s
  <2>1. \A s \in Sessions : <<s>> # <<>>
    OBVIOUS
  <2> QED
    BY <1>2, <1>9, <2>1 DEF Up
<1>18. \A s \in Sessions : active = s => Up(s, Working) /\ Up(s, Working \cup {"connect"})
  BY <1>9 DEF Up
<1>19. \A s \in Sessions : ~(active = s /\ ~session[s].stop /\ pc[s] = "idle")
  BY <1>9 DEF Waits
<1>20. Waits'
  <2>1. \A s \in Sessions : ~(active' = s /\ ~session'[s].stop /\ pc'[s] = "idle")
    BY <1>2, <1>8, <1>19
  <2>2. \A s \in Sessions : active' = s /\ session'[s].stop => pc'[s] \in Tearing \cup {"ended", "idle"}
    BY <1>2, <1>8, <1>18 DEF Waits
  <2>3. \A u \in Callers : pc'[u] \notin Started /\ pc'[u] # "connect"
    BY <1>9 DEF Started
  <2> QED
    BY <2>1, <2>2, <2>3 DEF Waits, Up
<1>21. MediaUp'
  <2> SUFFICES ASSUME NEW s \in Sessions, session[s].media
               PROVE  (~session[s].stop /\ pc[s] # "idle") \/ \E u \in Threads : pc'[u] = "teardown" /\ This(u) = s
    BY <1>2, <1>8 DEF MediaUp, This
  <2>1. CASE \E u \in Threads : pc[u] = "teardown" /\ This(u) = s
    BY <1>1, <1>4, <2>1
  <2> QED
    BY <2>1 DEF MediaUp
<1>22. Shows'
  <2>1. \A u \in Callers : pc'[u] # "connect"
    BY <1>9
  <2>2. \A s \in Sessions : HasThread(s)' <=> HasThread(s)
    BY <1>2, <1>8 DEF HasThread
  <2> QED
    BY <1>2, <1>12, <1>17, <2>1, <2>2 DEF Shows
<1>23. Agrees'
  <2> SUFFICES ASSUME NEW s \in Sessions, Going(s)'
               PROVE  toggle' = session'[s].frozen /\ NoClosing' /\ \A u \in Threads : said'[u] \notin Closing
    BY DEF Agrees
  <2>1. Going(s)
    BY <1>2, <1>18 DEF Going, Up
  <2> QED
    BY <1>2, <1>12, <2>1 DEF Agrees
<1>24. Clear'
  <2> SUFFICES ASSUME NEW u \in Callers, Clears(u)' PROVE FALSE
    BY DEF Clear
  <2>1. pc'[u] = "idle" /\ stack'[u] = <<>>
    BY <1>9
  <2>2. <<>> # <<"register">> /\ <<>> # <<"drop", "register">>
    OBVIOUS
  <2> QED
    BY <2>1, <2>2 DEF Clears
<1>25. pending /\ \A i \in DOMAIN posts : posts[i] # "returned"
  BY <1>1 DEF Alone
<1>26. ASSUME NEW k \in 0..n, View(k) \in Closing, \A j \in (k + 1)..n : posts[j] \notin SessionStates
       PROVE  Rests'
  <2>1. ~(NoClosing /\ WillShow)
    <3>1. CASE k = 0
      <4>1. ~ShownActive
        BY <1>26, <3>1 DEF View, ShownActive, Closing
      <4>2. \A j \in DOMAIN posts : posts[j] \notin SessionStates
        BY <1>6, <1>26, <3>1
      <4> QED
        BY <4>1, <4>2 DEF WillShow
    <3>2. CASE k # 0
      BY <1>6, <1>26, <3>2 DEF View, NoClosing
    <3> QED
      BY <3>1, <3>2
  <2>2. ASSUME NEW s \in Sessions, session[s].made PROVE Done(s) /\ said[s] = None
    <3>1. active = s
      <4>1. <<s>> # <<>>
        OBVIOUS
      <4> QED
        BY <1>9, <2>2, <4>1 DEF OneCast
    <3>2. ~HasThread(s)
      BY <1>18, <2>1, <3>1 DEF Shows
    <3>3. session[s].stop => pc[s] \in {"ended", "idle"}
      BY <1>18, <3>1, <3>2 DEF Waits, HasThread
    <3>4. session[s].stop
      BY <1>19, <3>1, <3>2 DEF HasThread
    <3> QED
      BY <3>2, <3>3, <3>4 DEF Done, HasThread
  <2>3. \A s \in Sessions : ~session[s].made => said[s] = None
    BY <1>0 DEF EngineInv, Exists, Silent
  <2>4. \A u \in Threads : said'[u] = None
    BY <1>2, <1>9, <2>2, <2>3 DEF Threads
  <2>5. \A s \in Sessions : session'[s].made => Done(s)'
    BY <1>2, <1>8, <2>2 DEF Done
  <2> QED
    BY <2>4, <2>5 DEF Rests
<1>27. Final(n + 1)'
  <2> SUFFICES ASSUME NEW k \in 0..(n + 1), View(k)' \in Closing,
                      \A j \in (k + 1)..(n + 1) : posts'[j] \notin SessionStates
               PROVE  Rests'
    BY <1>6 DEF Final
  <2>1. k # n + 1
    BY <1>6, <1>10 DEF View
  <2>2. k \in 0..n /\ View(k)' = View(k) /\ \A j \in (k + 1)..n : posts[j] \notin SessionStates
    BY <1>2, <1>6, <2>1 DEF View
  <2> QED
    BY <1>26, <2>2
<1>28. LastWord'
  <2>1. pending' /\ \A i \in DOMAIN posts' : posts'[i] = "returned" => i = n + 1
    BY <1>2, <1>6, <1>25
  <2> QED
    BY <1>27, <2>1 DEF LastWord
<1> QED
  BY <1>13, <1>14, <1>15, <1>16, <1>20, <1>21, <1>22, <1>23, <1>24, <1>28

\* The window applies the first of what waits.
LEMMA AppliesInStep ==
  ASSUME AppsInv, Alone, OneCast, Win, StepInv, ApplyPosted
  PROVE  StepInv'
<1> USE DEF StepInv
<1> DEFINE n == Len(posts)
           h == Head(posts)
<1>0. EngineInv /\ posts \in Seq(Posted)
  BY DEF AppsInv, AppsData
<1>1. /\ posts # <<>> /\ posts' = Tail(posts)
      /\ IF h \in SessionStates THEN Show(h) ELSE UNCHANGED <<shown, toggle>>
      /\ pending' = (pending /\ h # "returned")
      /\ UNCHANGED <<state, active, session, pc, stack, refs, said, program, inside>>
  BY DEF ApplyPosted, engineVars, control, apiVars
<1>2. /\ n \in Nat \ {0} /\ h = posts[1] /\ h \in Posted /\ DOMAIN posts = 1..n
      /\ Len(posts') = n - 1 /\ DOMAIN posts' = 1..(n - 1) /\ \A i \in 1..(n - 1) : posts'[i] = posts[i + 1]
  BY <1>0, <1>1
<1> HIDE DEF n, h
<1>3. "returned" \notin SessionStates /\ Closing \subseteq SessionStates /\ None \notin Closing
  BY DEF Closing, SessionStates
<1>4. h \in SessionStates => h \in Spoken /\ shown' = h
  BY <1>1, <1>2 DEF Words, Show
<1>5. h \notin SessionStates => shown' = shown /\ toggle' = toggle
  BY <1>1
<1>6. /\ Stopped' /\ Placing' /\ Waits' /\ MediaUp'
      /\ \A s \in Sessions : (Up(s, Working)' <=> Up(s, Working)) /\ (Going(s)' <=> Going(s))
      /\ \A t \in Callers : Clears(t)' <=> Clears(t)
      /\ \A s \in Sessions : Done(s)' <=> Done(s)
  BY <1>1, EngineStands
<1>7. NoState => NoState' /\ ShownActive' = ShownActive
  BY <1>2, <1>5 DEF NoState, ShownActive
<1>8. NoClosing => /\ NoClosing'
                   /\ h \in SessionStates => ShownActive'
                   /\ toggle' = toggle
  <2> SUFFICES ASSUME NoClosing PROVE NoClosing' /\ (h \in SessionStates => ShownActive') /\ toggle' = toggle
    OBVIOUS
  <2>1. NoClosing'
    BY <1>2 DEF NoClosing
  <2>2. h \notin Closing
    BY <1>2 DEF NoClosing
  <2>3. ASSUME h \in SessionStates PROVE ShownActive' /\ toggle' = toggle
    <3>1. h \in {"Connecting", "Negotiating", "Streaming", "Reconnecting", "Stopping"}
      BY <1>4, <2>2, <2>3 DEF Spoken
    <3>2. toggle' = (toggle /\ TRUE)
      BY <1>1, <2>3, <3>1 DEF Show
    <3>3. toggle \in BOOLEAN
      BY DEF AppsInv, AppsData
    <3> QED
      BY <1>4, <2>3, <3>1, <3>2, <3>3 DEF ShownActive
  <2> QED
    BY <1>5, <2>1, <2>3
<1>9. NoClosing /\ WillShow => WillShow'
  <2> SUFFICES ASSUME NoClosing, WillShow, h \notin SessionStates PROVE WillShow'
    BY <1>8 DEF WillShow
  <2>1. CASE ShownActive
    BY <1>5, <2>1 DEF WillShow, ShownActive
  <2>2. CASE \E i \in DOMAIN posts : posts[i] \in SessionStates
    <3>1. PICK i \in 1..n : posts[i] \in SessionStates
      BY <1>2, <2>2
    <3>2. i # 1
      BY <1>2, <3>1
    <3>3. i - 1 \in 1..(n - 1) /\ posts'[i - 1] = posts[i]
      BY <1>2, <3>1, <3>2
    <3> QED
      BY <1>2, <3>1, <3>3 DEF WillShow
  <2> QED
    BY <2>1, <2>2 DEF WillShow
<1>10. Words'
  <2>1. shown' \in Spoken
    BY <1>4, <1>5 DEF Words
  <2>2. toggle' => ShownActive'
    BY <1>1, <1>5 DEF Words, ShownActive, Show
  <2>3. \A i \in DOMAIN posts' : posts'[i] \in SessionStates => posts'[i] \in Spoken
    BY <1>2 DEF Words
  <2> QED
    BY <1>1, <2>1, <2>2, <2>3 DEF Words
<1>11. Silent'
  BY <1>1 DEF Silent
<1>12. Shows'
  <2>1. \A s \in Sessions : HasThread(s)' <=> HasThread(s)
    BY <1>1 DEF HasThread
  <2>2. \A u \in Callers : pc'[u] = "connect" => NoClosing' /\ (said'[u] = "Connecting" \/ WillShow')
    BY <1>1, <1>8, <1>9 DEF Shows
  <2>3. \A s \in Sessions : Up(s, Working)' /\ HasThread(s)' =>
          NoClosing' /\ WillShow' /\ \A u \in Threads : said'[u] \in Closing => u = s
    BY <1>1, <1>6, <1>8, <1>9, <2>1 DEF Shows
  <2> QED
    BY <2>2, <2>3 DEF Shows
<1>13. Agrees'
  BY <1>1, <1>6, <1>8 DEF Agrees
<1>14. Clear'
  BY <1>1, <1>6, <1>7 DEF Clear
<1>15. Rests' <=> Rests
  BY <1>1, <1>6 DEF Rests
<1>16. ASSUME NEW i \in 0..n, NEW o \in Nat, Final(i), o = IF i = 0 THEN 0 ELSE i - 1 PROVE Final(o)'
  <2> SUFFICES ASSUME NEW k \in 0..(n - 1), View(k)' \in Closing,
                      \A j \in (k + 1)..o : posts'[j] \notin SessionStates
               PROVE  Rests /\ \A j \in (k + 1)..(n - 1) : posts'[j] \notin SessionStates
    BY <1>2, <1>15 DEF Final
  <2>1. CASE k \in 1..(n - 1) \/ h \in SessionStates
    <3>1. k + 1 \in 0..n /\ View(k + 1) = View(k)'
      BY <1>2, <1>4, <2>1 DEF View
    <3>2. \A j \in ((k + 1) + 1)..i : posts[j] \notin SessionStates
      <4> SUFFICES ASSUME NEW j \in ((k + 1) + 1)..i PROVE posts[j] \notin SessionStates
        OBVIOUS
      <4>1. j - 1 \in (k + 1)..o /\ j - 1 \in 1..(n - 1)
        BY <1>2, <1>16
      <4>2. posts'[j - 1] = posts[j]
        BY <1>2, <4>1
      <4> QED
        BY <4>1, <4>2
    <3>3. Rests /\ \A j \in ((k + 1) + 1)..n : posts[j] \notin SessionStates
      BY <1>16, <3>1, <3>2 DEF Final, n
    <3>4. \A j \in (k + 1)..(n - 1) : j + 1 \in ((k + 1) + 1)..n /\ posts'[j] = posts[j + 1]
      BY <1>2
    <3> QED
      BY <3>3, <3>4
  <2>2. CASE k = 0 /\ h \notin SessionStates
    <3>1. 0 \in 0..n /\ View(0) = View(k)'
      BY <1>2, <1>5, <2>2 DEF View
    <3>2. \A j \in (0 + 1)..i : posts[j] \notin SessionStates
      <4> SUFFICES ASSUME NEW j \in 1..i PROVE posts[j] \notin SessionStates
        OBVIOUS
      <4>1. CASE j = 1
        BY <1>2, <2>2, <4>1
      <4>2. CASE j # 1
        <5>1. j - 1 \in (k + 1)..o /\ j - 1 \in 1..(n - 1)
          BY <1>2, <1>16, <2>2, <4>2
        <5>2. posts'[j - 1] = posts[j]
          BY <1>2, <5>1
        <5> QED
          BY <5>1, <5>2
      <4> QED
        BY <4>1, <4>2
    <3>3. Rests /\ \A j \in (0 + 1)..n : posts[j] \notin SessionStates
      BY <1>16, <3>1, <3>2 DEF Final, n
    <3>4. \A j \in (k + 1)..(n - 1) : j + 1 \in (0 + 1)..n /\ posts'[j] = posts[j + 1]
      BY <1>2, <2>2
    <3> QED
      BY <3>3, <3>4
  <2> QED
    BY <2>1, <2>2
<1>17. LastWord'
  <2>1. ASSUME ~pending' PROVE Final(0)'
    <3>1. ~pending \/ h = "returned"
      BY <1>1, <2>1
    <3>2. CASE ~pending
      <4>1. Final(0)
        BY <3>2 DEF LastWord
      <4> QED
        BY <1>2, <1>16, <4>1
    <3>3. CASE h = "returned"
      <4>1. 1 \in DOMAIN posts /\ posts[1] = "returned" /\ 1 \in 0..n
        BY <1>2, <3>3
      <4>2. Final(1)
        BY <4>1 DEF LastWord
      <4> QED
        BY <1>16, <4>1, <4>2
    <3> QED
      BY <3>1, <3>2, <3>3
  <2>2. ASSUME NEW i \in DOMAIN posts', posts'[i] = "returned" PROVE Final(i)'
    <3>1. /\ i + 1 \in 0..n /\ i \in Nat /\ i + 1 # 0 /\ i = (i + 1) - 1
          /\ posts[i + 1] = "returned" /\ i + 1 \in DOMAIN posts
      BY <1>2, <2>2
    <3>2. Final(i + 1)
      BY <3>1 DEF LastWord
    <3> QED
      BY <1>16, <3>1, <3>2
  <2> QED
    BY <2>1, <2>2 DEF LastWord
<1> QED
  BY <1>6, <1>10, <1>11, <1>12, <1>13, <1>14, <1>17

\* A click: a start finds the last word said.
LEMMA ToggleInStep ==
  ASSUME AppsInv, Alone, OneCast, Win, StepInv, WinToggle
  PROVE  StepInv'
<1> USE DEF StepInv
<1>0. EngineInv
  BY DEF AppsInv
<1>1. PICK t \in Starters : IF ShownActive THEN StopCasting(t, "return") ELSE StartCasting(t)
  BY DEF WinToggle
<1>2. /\ t \in Callers /\ t \in Threads /\ t \notin Sessions /\ ~pending /\ pending' = TRUE
      /\ UNCHANGED <<state, active, session, refs, said, program, posts, shown, toggle, inside>>
  BY <1>0, <1>1, CallerAt DEF WinToggle, StopCasting, StartCasting, apiVars, EngineInv
<1>3. \A u \in Callers : pc[u] = "idle" /\ stack[u] = <<>> /\ refs[u] = <<>> /\ u \in Threads /\ u \notin Sessions
  BY <1>0, <1>2, CallerAt DEF Alone, EngineInv
<1>4. \A u \in Callers : said[u] = None
  BY <1>3 DEF Silent, Speaking, Stops
<1>5. pc \in [Threads -> Labels] /\ stack \in [Threads -> Seq(Labels)]
  BY <1>0 DEF EngineInv, Control
<1>6. /\ \A u \in Threads \ {t} : pc'[u] = pc[u] /\ stack'[u] = stack[u]
      /\ \/ ShownActive /\ pc'[t] = "detach" /\ stack'[t] = <<"return">>
         \/ ~ShownActive /\ pc'[t] = "retire" /\ stack'[t] = <<>>
  <2>1. CASE ShownActive
    <3>1. pc' = [pc EXCEPT ![t] = "detach"] /\ stack' = [stack EXCEPT ![t] = <<"return">> \o @]
      BY <1>1, <2>1 DEF StopCasting, Call
    <3>2. <<"return">> \o <<>> = <<"return">>
      OBVIOUS
    <3> QED
      BY <1>2, <1>3, <1>5, <2>1, <3>1, <3>2
  <2>2. CASE ~ShownActive
    <3>1. pc' = [pc EXCEPT ![t] = "retire"] /\ stack' = stack
      BY <1>1, <2>2 DEF StartCasting
    <3> QED
      BY <1>2, <1>3, <1>5, <2>2, <3>1
  <2> QED
    BY <2>1, <2>2
<1>7. \A s \in Sessions : pc'[s] = pc[s] /\ s \in Threads
  BY <1>2, <1>6 DEF Threads
<1>8. \A u \in Callers : pc'[u] \in {"idle", "detach", "retire"} /\ (u # t => pc'[u] = "idle" /\ stack'[u] = <<>>)
  BY <1>3, <1>6
<1>9. /\ NoClosing' = NoClosing /\ WillShow' = WillShow /\ ShownActive' = ShownActive /\ NoState' = NoState
  BY <1>2 DEF NoClosing, WillShow, ShownActive, NoState
<1>10. \A u \in Threads : pc'[u] \in Tearing <=> pc[u] \in Tearing
  BY <1>3, <1>7, <1>8 DEF Threads, Tearing
<1>11. Words'
  BY <1>2 DEF Words, ShownActive
<1>12. Silent'
  BY <1>2, <1>4, <1>7 DEF Silent
<1>13. Stopped'
  <2>1. \A u \in Threads : pc'[u] \in Tearing => session[refs[u][1]].stop
    BY <1>10 DEF Stopped, This
  <2>2. state = "Stopping" => \E u \in Threads : pc'[u] \in Tearing
    BY <1>10 DEF Stopped
  <2> QED
    BY <1>2, <2>1, <2>2 DEF Stopped, This
<1>14. Placing'
  BY <1>8 DEF Placing, Registers, Retires, Begun, Stops
<1>15. \A s \in Sessions : active = s => Up(s, Working) /\ Up(s, Working \cup {"connect"})
  <2>1. \A s \in Sessions : <<s>> # <<>>
    OBVIOUS
  <2> QED
    BY <1>3, <2>1 DEF Up
<1>16. Waits'
  <2>1. \A s \in Sessions : ~(active = s /\ ~session[s].stop /\ pc[s] = "idle")
    BY <1>3 DEF Waits
  <2>2. \A s \in Sessions : ~(active' = s /\ ~session'[s].stop /\ pc'[s] = "idle")
    BY <1>2, <1>7, <2>1
  <2>3. \A s \in Sessions : active' = s /\ session'[s].stop => pc'[s] \in Tearing \cup {"ended", "idle"}
    BY <1>2, <1>7, <1>15 DEF Waits
  <2>4. \A u \in Callers : pc'[u] \notin Started /\ pc'[u] # "connect"
    BY <1>8 DEF Started
  <2> QED
    BY <2>2, <2>3, <2>4 DEF Waits, Up
<1>17. MediaUp'
  <2> SUFFICES ASSUME NEW s \in Sessions, session[s].media
               PROVE  (~session[s].stop /\ pc[s] # "idle") \/ \E u \in Threads : pc'[u] = "teardown" /\ This(u) = s
    BY <1>2, <1>7 DEF MediaUp, This
  <2>1. CASE \E u \in Threads : pc[u] = "teardown" /\ This(u) = s
    BY <1>3, <1>7, <2>1 DEF Threads
  <2> QED
    BY <2>1 DEF MediaUp
<1>18. Shows'
  <2>1. \A u \in Callers : pc'[u] # "connect"
    BY <1>8
  <2>2. \A s \in Sessions : HasThread(s)' <=> HasThread(s)
    BY <1>2, <1>7 DEF HasThread
  <2>3. \A s \in Sessions : Up(s, Working)' => Up(s, Working)
    BY <1>2, <1>15 DEF Up
  <2> QED
    BY <1>2, <1>9, <2>1, <2>2, <2>3 DEF Shows
<1>19. Agrees'
  <2> SUFFICES ASSUME NEW s \in Sessions, Going(s)'
               PROVE  toggle' = session'[s].frozen /\ NoClosing' /\ \A u \in Threads : said'[u] \notin Closing
    BY DEF Agrees
  <2>1. Going(s)
    BY <1>2, <1>15 DEF Going, Up
  <2> QED
    BY <1>2, <1>9, <2>1 DEF Agrees
<1>20. Clear'
  <2> SUFFICES ASSUME NEW u \in Callers, Clears(u)'
               PROVE  /\ NoState /\ ~ShownActive /\ pc'[u] \notin Tearing
                      /\ \A v \in Threads : said[v] = None
                      /\ \A s \in Sessions : session[s].made => Done(s)'
    BY <1>2, <1>9 DEF Clear
  <2>1. u = t /\ ~ShownActive
    <3>1. /\ <<>> # <<"register">> /\ <<>> # <<"drop", "register">>
          /\ <<"return">> # <<"register">> /\ <<"return">> # <<"drop", "register">>
      OBVIOUS
    <3> QED
      BY <1>6, <1>8, <3>1 DEF Clears
  <2>2. Final(0)
    BY <1>2 DEF LastWord
  <2>3. View(0) \in Closing
    BY <2>1 DEF View, Words, Spoken, ShownActive
  <2>4. Len(posts) \in Nat /\ DOMAIN posts = 1..Len(posts)
    BY DEF AppsInv, AppsData
  <2>5. Rests /\ \A j \in (0 + 1)..Len(posts) : posts[j] \notin SessionStates
    <3>1. 0 \in 0..Len(posts) /\ \A j \in (0 + 1)..0 : posts[j] \notin SessionStates
      BY <2>4
    <3> QED
      BY <2>2, <2>3, <3>1 DEF Final
  <2>6. NoState
    BY <2>4, <2>5 DEF NoState
  <2>7. \A s \in Sessions : session[s].made => Done(s)'
    BY <1>2, <1>7, <2>5 DEF Rests, Done
  <2> QED
    BY <1>8, <2>1, <2>5, <2>6, <2>7 DEF Rests, Tearing
<1>21. LastWord'
  <2>1. \A i \in DOMAIN posts : posts[i] # "returned"
    BY <1>2 DEF Alone
  <2> QED
    BY <1>2, <2>1 DEF LastWord
<1> QED
  BY <1>11, <1>12, <1>13, <1>14, <1>16, <1>17, <1>18, <1>19, <1>20, <1>21

\* The switch is set in the session and in the window.
LEMMA FreezeInStep ==
  ASSUME AppsInv, Alone, OneCast, Win, StepInv, Freeze
  PROVE  StepInv'
<1> USE DEF StepInv
<1>0. session \in [Sessions -> Session] /\ active \in Sessions \cup {None}
  BY DEF AppsInv, EngineInv, EngineTypeOK
<1>1. /\ shown = "Streaming"
      /\ UNCHANGED <<state, active, pc, stack, refs, said, program, posts, shown, pending, inside>>
      /\ session' = IF active = None THEN session ELSE [session EXCEPT ![active].frozen = toggle']
  BY DEF Freeze, SetFreezeStream, control, apiVars
<1>2. \A s \in Sessions : /\ session'[s].made = session[s].made /\ session'[s].stop = session[s].stop
                          /\ session'[s].media = session[s].media
                          /\ active = s => session'[s].frozen = toggle'
  BY <1>0, <1>1 DEF Session
<1>3. ShownActive /\ ShownActive' /\ NoClosing' = NoClosing /\ WillShow' = WillShow
  BY <1>1 DEF ShownActive, NoClosing, WillShow
<1>4. \A u \in Threads : pc[u] \in Tearing => This(u) \in Sessions
  <2> SUFFICES ASSUME NEW u \in Threads, pc[u] \in Tearing PROVE This(u) \in Sessions
    OBVIOUS
  <2>1. CASE u \in Callers
    <3>1. One(refs[u])
      BY <2>1, CallerAt DEF AppsInv, EngineInv, Tearing, Stops, Stopping, One, Two, OneCast
    <3> QED
      BY <3>1 DEF One, This
  <2>2. CASE u \in Sessions
    BY <2>2, OwnAt DEF AppsInv, EngineInv, Tearing, Stops
  <2> QED
    BY <2>1, <2>2 DEF Threads
<1>5. \A u \in Callers : pc[u] \in Begun => This(u) \in Sessions
  <2> SUFFICES ASSUME NEW u \in Callers, pc[u] \in Begun PROVE This(u) \in Sessions
    OBVIOUS
  <2>1. One(refs[u])
    BY CallerAt DEF AppsInv, EngineInv
  <2> QED
    BY <2>1 DEF One, This
<1>6. Words' /\ Silent'
  BY <1>1, <1>2, <1>3 DEF Words, Silent
<1>7. Stopped'
  <2>1. \A u \in Threads : pc'[u] \in Tearing => session'[refs'[u][1]].stop
    BY <1>1, <1>2, <1>4 DEF Stopped, This
  <2> QED
    BY <1>1, <2>1 DEF Stopped, This
<1>8. Placing'
  BY <1>1 DEF Placing, Registers, Retires, This
<1>9. \A s \in Sessions : /\ Up(s, Working)' <=> Up(s, Working)
                          /\ Up(s, Working \cup {"connect"})' <=> Up(s, Working \cup {"connect"})
  BY <1>1 DEF Up
<1>10. Waits'
  <2>1. \A s \in Sessions : active' = s /\ ~session'[s].stop /\ pc'[s] = "idle" =>
          \E u \in Callers : refs'[u] = <<s>> /\ pc'[u] \in {"start", "connect", "startFailed", "unregister", "stop"}
    BY <1>1, <1>2 DEF Waits
  <2>2. \A s \in Sessions : Up(s, Working \cup {"connect"})' /\ session'[s].stop =>
          pc'[s] \in Tearing \cup {"ended", "idle"}
    BY <1>1, <1>2, <1>9 DEF Waits
  <2>3. \A u \in Callers : /\ pc'[u] \in Started => pc'[refs'[u][1]] # "idle" \/ session'[refs'[u][1]].stop
                           /\ pc'[u] = "connect" => ~session'[refs'[u][1]].stop
    BY <1>1, <1>2, <1>5 DEF Waits, This, Started, Begun
  <2> QED
    BY <2>1, <2>2, <2>3 DEF Waits, This
<1>11. MediaUp'
  <2>1. \A s \in Sessions : session'[s].media =>
           \/ ~session'[s].stop /\ pc'[s] # "idle"
           \/ \E u \in Threads : pc'[u] = "teardown" /\ refs'[u][1] = s
    BY <1>1, <1>2 DEF MediaUp, This
  <2> QED
    BY <2>1 DEF MediaUp, This
<1>12. Shows'
  <2>1. \A s \in Sessions : HasThread(s)' <=> HasThread(s)
    BY <1>1, <1>2 DEF HasThread
  <2> QED
    BY <1>1, <1>3, <1>9, <2>1 DEF Shows
<1>13. Agrees'
  <2> SUFFICES ASSUME NEW s \in Sessions, Going(s)'
               PROVE  toggle' = session'[s].frozen /\ NoClosing' /\ \A u \in Threads : said'[u] \notin Closing
    BY DEF Agrees
  <2>1. Going(s) /\ active = s
    BY <1>1, <1>2, <1>9 DEF Going, Up
  <2> QED
    BY <1>1, <1>2, <1>3, <2>1 DEF Agrees
<1>14. Clear'
  <2>1. \A u \in Callers : ~Clears(u)
    BY <1>3 DEF Clear
  <2>2. \A u \in Callers : ~Clears(u)'
    BY <1>1, <2>1 DEF Clears
  <2> QED
    BY <2>2 DEF Clear
<1>15. LastWord'
  <2>1. Rests => Rests'
    BY <1>1, <1>2 DEF Rests, Done
  <2>2. \A k \in 0..Len(posts) : View(k)' = View(k)
    BY <1>1 DEF View
  <2>3. \A i \in {0} \cup DOMAIN posts : Final(i) => Final(i)'
    BY <1>1, <2>1, <2>2 DEF Final
  <2> QED
    BY <1>1, <2>3 DEF LastWord
<1> QED
  BY <1>6, <1>7, <1>8, <1>10, <1>11, <1>12, <1>13, <1>14, <1>15

\* Nothing of it changes.
LEMMA StillInStep ==
  ASSUME StepInv, UNCHANGED <<engineVars, program, posts, shown, pending, toggle, inside>>
  PROVE  StepInv'
<1> USE DEF StepInv
<1>1. UNCHANGED <<state, active, session, pc, stack, refs, said, posts, shown, pending, toggle, inside>>
  BY DEF engineVars, control
<1>2. /\ Stopped' /\ Placing' /\ Waits' /\ MediaUp'
      /\ \A s \in Sessions : (Up(s, Working)' <=> Up(s, Working)) /\ (Going(s)' <=> Going(s))
      /\ \A t \in Callers : Clears(t)' <=> Clears(t)
      /\ \A s \in Sessions : Done(s)' <=> Done(s)
  BY <1>1, EngineStands
<1>3. NoState' = NoState /\ NoClosing' = NoClosing /\ WillShow' = WillShow /\ ShownActive' = ShownActive
  BY <1>1 DEF NoState, NoClosing, WillShow, ShownActive
<1>4. Words' /\ Silent'
  BY <1>1, <1>3 DEF Words, Silent
<1>5. \A s \in Sessions : HasThread(s)' <=> HasThread(s)
  BY <1>1 DEF HasThread
<1>6. Shows'
  BY <1>1, <1>2, <1>3, <1>5 DEF Shows
<1>7. Agrees'
  BY <1>1, <1>2, <1>3 DEF Agrees
<1>8. Clear'
  BY <1>1, <1>2, <1>3 DEF Clear
<1>9. LastWord'
  <2>1. Rests => Rests'
    BY <1>1, <1>2 DEF Rests
  <2>2. \A k \in 0..Len(posts) : View(k)' = View(k)
    BY <1>1 DEF View
  <2>3. \A i \in {0} \cup DOMAIN posts : Final(i) => Final(i)'
    BY <1>1, <2>1, <2>2 DEF Final
  <2> QED
    BY <1>1, <2>3 DEF LastWord
<1> QED
  BY <1>2, <1>4, <1>6, <1>7, <1>8, <1>9

\* And so does every other.
LEMMA InStepNext ==
  ASSUME "gtk" \notin Programs
  PROVE  AppsInv /\ AppsInv' /\ Single /\ InStep /\ [Next]_vars => InStep'
<1> SUFFICES ASSUME AppsInv, AppsInv', Single, InStep, [Next]_vars, Win', quitting' = "no" PROVE StepInv'
  BY DEF InStep
<1>0. EngineInv /\ "ui" \in Callers
  BY DEF AppsInv
<1>1. quitting = "no"
  <2> SUFFICES ASSUME quitting # "no" PROVE quitting' # "no"
    OBVIOUS
  <2>1. ~UiSteps
    BY DEF UiSteps, ApplyPosted, WinToggle, GtkToggle, GtkTray, CloseAlert, Freeze, CliCasts, CliStops, UiIdle
  <2>2. CASE QuitSteps
    BY <2>2 DEF QuitSteps, Quit, TrayJoined, QuitStops, Cleared, Waited, EngineShutdown, Quits
  <2>3. ASSUME NEW t, Heard(t) PROVE quitting' = quitting
    BY <2>3, HearsOnly
  <2>4. UNCHANGED appVars => quitting' = quitting
    BY DEF appVars, apiVars
  <2>5. ASSUME NEW t \in Callers, Returns(t) PROVE quitting' = quitting
    BY <2>5 DEF Returns, apiVars
  <2>6. CASE UNCHANGED vars
    BY <2>4, <2>6 DEF vars
  <2> QED
    BY <2>1, <2>2, <2>3, <2>4, <2>5, <2>6 DEF Next, Engine, Own, Lost
<1>2. program' = program
  <2>1. ASSUME NEW t, Heard(t) PROVE program' = program
    BY <2>1, HearsOnly
  <2>2. UNCHANGED appVars => program' = program
    BY DEF appVars
  <2>3. ASSUME NEW t \in Callers, Returns(t) PROVE program' = program
    BY <2>3 DEF Returns
  <2>4. CASE UiSteps
    BY <2>2, <2>4 DEF UiSteps, ApplyPosted, WinToggle, GtkToggle, GtkTray, CloseAlert, Freeze, CliCasts, CliStops
  <2>5. CASE QuitSteps
    BY <2>5 DEF QuitSteps, Quit, TrayJoined, QuitStops, Cleared, Waited, EngineShutdown
  <2>6. CASE UNCHANGED vars
    BY <2>2, <2>6 DEF vars
  <2> QED
    BY <2>1, <2>2, <2>3, <2>4, <2>5, <2>6 DEF Next, Engine, Own, Lost
<1>3. Win /\ ~Gtk /\ ~Cli /\ StepInv /\ Alone /\ OneCast
  BY <1>1, <1>2 DEF Win, Gtk, Cli, InStep, Single
<1>4. ASSUME NEW t \in Callers, Engine(t) PROVE StepInv'
  <2>1. CASE EngineSteps(t) /\ UNCHANGED appVars
    <3>1. pc[t] # "idle"
      BY <1>0, <2>1, Apart
    <3>2. CASE Moves(t)
      BY <1>3, <2>1, <3>1, <3>2, CallerInStep
    <3>3. CASE Retire(t) \/ NotFound(t) \/ Detach(t) \/ Detached(t)
      BY <1>3, <3>2, <3>3, TakesMoves
    <3>4. CASE Register(t)
      BY <1>3, <2>1, <3>4, RegisterInStep
    <3>5. CASE Begin(t)
      BY <1>3, <2>1, <3>2, <3>5, FailsMoves, BeginInStep
    <3>6. CASE Connect(t)
      <4>1. Goto(t, "startFailed") => Quietly \/ ~Goto(t, "startFailed")
        <5> SUFFICES ASSUME Goto(t, "startFailed") PROVE Quietly
          OBVIOUS
        <5>1. pc'[t] = "startFailed"
          BY <1>0 DEF Goto, EngineInv, Control, Threads
        <5>2. This(t) \in Sessions /\ t \notin Sessions
          BY <1>0, <3>6, CallerAt DEF EngineInv, Connect, At, Begun, One, This
        <5>3. pc' # [pc EXCEPT ![t] = "launch", ![This(t)] = "watch"]
          BY <1>0, <5>1, <5>2 DEF EngineInv, Control, Threads
        <5> QED
          BY <3>6, <5>3 DEF Connect
      <4>2. CASE Goto(t, "startFailed")
        BY <1>3, <3>2, <3>6, <4>1, <4>2, FailsMoves
      <4>3. CASE ~Goto(t, "startFailed")
        BY <1>3, <2>1, <3>6, <4>3, ConnectInStep
      <4> QED
        BY <4>2, <4>3
    <3>7. CASE Launched(t) \/ Answered(t) \/ StartMedia(t) \/ Streaming(t)
      BY <1>3, <3>2, <3>7, StartedMoves
    <3>8. CASE StartFailed(t)
      BY <1>3, <3>2, <3>8, FailsMoves
    <3>9. CASE Unregister(t)
      BY <1>3, <3>2, <3>9, UnregisterMoves
    <3>10. CASE Drop(t)
      BY <1>3, <3>2, <3>10, DropMoves
    <3>11. CASE StopSteps(t)
      BY <1>3, <3>2, <3>11, StopMoves
    <3> QED
      BY <2>1, <3>3, <3>4, <3>5, <3>6, <3>7, <3>8, <3>9, <3>10, <3>11 DEF EngineSteps, StartSteps
  <2>2. CASE Returns(t)
    BY <1>1, <1>3, <2>2, ReturnsInStep
  <2>3. CASE Heard(t)
    BY <1>1, <1>3, <2>3, HeardInStep DEF Threads
  <2> QED
    BY <1>4, <2>1, <2>2, <2>3 DEF Engine
<1>5. ASSUME NEW s \in Sessions, Own(s) \/ Lost(s) PROVE StepInv'
  <2>1. CASE (OwnSteps(s) \/ Lose(s)) /\ UNCHANGED appVars
    <3>1. OwnMoves(s)
      BY <1>3, <2>1, OwnStopMoves, OwnLifeMoves DEF OwnSteps
    <3> QED
      BY <1>3, <2>1, <3>1, OwnInStep
  <2>2. CASE Heard(s)
    BY <1>1, <1>3, <2>2, HeardInStep DEF Threads
  <2> QED
    BY <1>5, <2>1, <2>2 DEF Own, Lost
<1>6. ASSUME UiSteps PROVE StepInv'
  <2>1. CASE ApplyPosted
    BY <1>3, <2>1, AppliesInStep
  <2>2. CASE WinToggle
    BY <1>3, <2>2, ToggleInStep
  <2>3. CASE Freeze
    BY <1>3, <2>3, FreezeInStep
  <2>4. CASE CloseAlert
    BY <1>3, <2>4, StillInStep DEF CloseAlert, apiVars
  <2>5. CASE GtkToggle \/ GtkTray \/ CliCasts \/ CliStops
    BY <1>3, <2>5 DEF GtkToggle, GtkTray, CliCasts, CliStops
  <2> QED
    BY <1>6, <2>1, <2>2, <2>3, <2>4, <2>5 DEF UiSteps
<1>7. ~QuitSteps
  BY <1>1, <1>3 DEF QuitSteps, Quit, TrayJoined, QuitStops, Cleared, Waited, EngineShutdown, Quits
<1>8. CASE UNCHANGED vars
  BY <1>3, <1>8, StillInStep DEF vars, appVars, apiVars
<1> QED
  BY <1>4, <1>5, <1>6, <1>7, <1>8 DEF Next

\* Before the first click there is nothing to be out of step with.
LEMMA InStepInit == Init => InStep
<1> SUFFICES ASSUME Init PROVE StepInv
  BY DEF InStep
<1>1. /\ state = "Idle" /\ active = None /\ posts = <<>> /\ shown = "Idle" /\ ~pending /\ ~toggle /\ inside = {}
      /\ \A s \in Sessions : session[s] = NoSession /\ None # s
      /\ \A t \in Threads : pc[t] = "idle" /\ stack[t] = <<>> /\ refs[t] = <<>> /\ said[t] = None
      /\ Callers \subseteq Threads /\ Sessions \subseteq Threads /\ None \notin Closing
  BY DEF Init, EngineInit, Threads, Closing, SessionStates
<1>2. Words /\ Silent
  BY <1>1 DEF Words, Silent, Spoken, Closing
<1>3. Stopped /\ Placing
  BY <1>1 DEF Stopped, Placing, Registers, Retires, Tearing, Begun, Stops
<1>4. Waits /\ MediaUp
  BY <1>1 DEF Waits, MediaUp, Up, Started, NoSession
<1>5. Shows /\ Agrees
  BY <1>1 DEF Shows, Agrees, Going, Up
<1>6. Clear
  <2>1. <<>> # <<"register">> /\ <<>> # <<"drop", "register">>
    OBVIOUS
  <2> QED
    BY <1>1, <2>1 DEF Clear, Clears
<1>7. LastWord
  <2>1. Rests /\ Len(posts) = 0 /\ DOMAIN posts = {}
    BY <1>1 DEF Rests, NoSession
  <2> QED
    BY <2>1 DEF LastWord, Final
<1> QED
  BY <1>2, <1>3, <1>4, <1>5, <1>6, <1>7 DEF StepInv

\* At rest, a session that streams is registered, and runs.
LEMMA LiveRuns ==
  ASSUME AppsInv, Single, InStep, Settled, ~Cli, ~Gtk, NEW s \in Sessions, Live(s)
  PROVE  StepInv /\ active = s /\ Up(s, Working) /\ Going(s) /\ HasThread(s)
<1>1. StepInv /\ OneCast /\ EngineInv
  <2>1. program \in {"winui", "gtk", "cli"}
    BY DEF AppsInv, AppsData
  <2> QED
    BY <2>1 DEF InStep, Settled, Single, AppsInv, Win, Gtk, Cli
<1>2. session[s].made
  BY <1>1 DEF Live, EngineInv, Exists
<1>3. \A t \in Callers : pc[t] = "idle" /\ \A o \in Sessions : refs[t] # <<o>>
  <2>1. \A o \in Sessions : <<o>> # <<>>
    OBVIOUS
  <2> QED
    BY <1>1, <2>1, CallerAt DEF Settled, EngineInv
<1>4. active = s
  BY <1>1, <1>2, <1>3 DEF OneCast
<1>5. Up(s, Working) /\ Up(s, Working \cup {"connect"})
  BY <1>3, <1>4 DEF Up
<1>6. ~session[s].stop /\ pc[s] # "idle"
  <2>1. \A t \in Threads : pc[t] # "teardown"
    BY DEF Settled, Threads
  <2> QED
    BY <1>1, <2>1 DEF StepInv, MediaUp, Live
<1> QED
  BY <1>1, <1>4, <1>5, <1>6 DEF Going, HasThread

\* MainViewModel hears of transitions from several threads and late, but in
\* order, and lets one call work at a time: once all is said and applied, a
\* session that streams is one that the window shows and can stop.  The GTK
\* program's main thread overtakes what is posted, and is left to the runs.
THEOREM LiveIsShownAlone ==
  ASSUME "gtk" \notin Programs
  PROVE  Spec => []LiveIsShown
<1>1. AppsInv /\ Single /\ InStep => LiveIsShown
  <2> SUFFICES ASSUME AppsInv, Single, InStep, Settled, ~Cli, NEW s \in Sessions, Live(s)
               PROVE  ShownActive /\ active # None
    BY DEF LiveIsShown
  <2>1. ~Gtk
    BY DEF AppsInv, AppsData, Gtk
  <2>2. StepInv /\ active = s /\ Up(s, Working) /\ HasThread(s)
    BY <2>1, LiveRuns
  <2>3. WillShow
    BY <2>2 DEF StepInv, Shows
  <2>4. posts = <<>>
    BY DEF Settled
  <2> QED
    BY <2>2, <2>3, <2>4 DEF WillShow
<1>2. Init => Single
  BY DEF Init, EngineInit, Single, Alone, OneCast, NoSession, Threads
<1> QED
  BY <1>1, <1>2, InStepInit, InStepNext, SingleNext, AppsInvAlways, PTL DEF Spec

\* ApplyState turns the switches off with a state that is not active, a new
\* session begins with the picture moving, and the setter reaches the session
\* that is registered: once all is applied, the switches stand as a session
\* that streams does.
THEOREM TogglesAgreeAlone ==
  ASSUME "gtk" \notin Programs
  PROVE  Spec => []TogglesAgree
<1>1. AppsInv /\ Single /\ InStep => TogglesAgree
  <2> SUFFICES ASSUME AppsInv, Single, InStep, Settled, ~Cli, active # None, Live(active)
               PROVE  toggle = session[active].frozen
    BY DEF TogglesAgree
  <2>1. ~Gtk /\ active \in Sessions
    BY DEF AppsInv, AppsData, EngineInv, EngineTypeOK, Gtk
  <2>2. StepInv /\ Going(active)
    BY <2>1, LiveRuns
  <2> QED
    BY <2>1, <2>2 DEF StepInv, Agrees
<1>2. Init => Single
  BY DEF Init, EngineInit, Single, Alone, OneCast, NoSession, Threads
<1> QED
  BY <1>1, <1>2, InStepInit, InStepNext, SingleNext, AppsInvAlways, PTL DEF Spec
=============================================================================
