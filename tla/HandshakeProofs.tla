--------------------------- MODULE HandshakeProofs ---------------------------
(***************************************************************************)
(* What a cast streams was answered by the TV to this very attempt, for    *)
(* every number of attempts, faults and other senders, provided the TV's   *)
(* app answers on the connection it was asked on.                          *)
(***************************************************************************)
EXTENDS Handshake, SequenceTheorems, TLAPS

Places ==
  {"negotiate", "tcp", "tls", "authenticate", "awaitAuth", "launch", "awaitLaunch",
   "offer", "awaitAnswer", "media", "streaming", "failed", "drop", "hangup",
   "release", "retry", "ended"}

\* Messages from and to the TV while attempt k is under way and n apps were
\* started on it.
Incoming(k, n) ==
  [type : {"AUTH"}, verdict : {"verified", "refused"}]
  \cup [type : {"STATUS", "CLOSE"}, app : 0..n]
  \cup [type : {"ANSWER"}, offer : {k}, app : 0..n, streams : SUBSET (0..1)]
Outgoing(k, n) ==
  [type : {"AUTH", "LAUNCH"}]
  \cup [type : {"OFFER"}, offer : {k}, app : 0..n]
  \cup [type : {"STOP"}, app : 0..n]

Request ==
  [type : {"AUTH", "LAUNCH"}] \cup [type : {"OFFER"}, offer : Nat, app : Nat]
  \cup [type : {"STOP"}, app : Nat]

Params == [offer : Nat, app : Nat, video : BOOLEAN, audio : BOOLEAN]
SessRecords ==
  [pc : Places, keys : Nat, stop : BOOLEAN, recovering : BOOLEAN, launchSent : BOOLEAN,
   launched : BOOLEAN, answered : BOOLEAN, refused : BOOLEAN, app : Nat, params : Params]
ChanRecords ==
  [connected : BOOLEAN, shouldStop : BOOLEAN, notified : BOOLEAN,
   auth : {"none", "asked", "verified", "refused"}, missed : Nat]
TvRecords ==
  [link : {"none", "up", "silent", "closed"}, app : Nat, apps : Nat, ours : SUBSET Nat,
   served : Nat, todo : Seq(Request), faults : Nat, others : Nat]

SessType == sess \in SessRecords
ChanType ==
  /\ chan \in ChanRecords
  /\ recv \in {"none", "read", "handle", "notify", "done"}
  /\ beat \in {"none", "wait", "notify", "done"}
TvType == tv \in TvRecords
Types == SessType /\ ChanType /\ TvType

\* No attempt beyond the last, and no ANSWER to one that was not made.
Tried ==
  /\ sess.keys <= MaxAttempts /\ (sess.pc = "negotiate" => sess.keys < MaxAttempts)
  /\ sess.params.offer <= sess.keys
\* No app is named that was not started.
Named == sess.app <= tv.apps /\ tv.app <= tv.apps
\* A channel that missed too many answers is given up.
Beating == chan.missed <= MissedPongs /\ (chan.connected => chan.missed < MissedPongs)

\* What is on its way belongs to this attempt.
Mailboxes ==
  /\ tv.todo \in Seq(Outgoing(sess.keys, tv.apps))
  /\ inbox \in Seq(Incoming(sess.keys, tv.apps))
  /\ recv = "handle" => inbox # <<>>

\* Nothing of an attempt is left when the next one begins.
Between ==
  sess.pc \in {"retry", "negotiate"} => inbox = <<>> /\ tv.todo = <<>> /\ tv.link = "none"

\* From LAUNCH on, an ANSWER that counts is one to this attempt's OFFER.
Current ==
  /\ sess.pc \in {"awaitLaunch", "offer", "awaitAnswer", "media", "streaming"} /\ sess.answered
       => sess.params.offer = sess.keys
  /\ sess.pc \in {"media", "streaming"} => sess.answered

HandshakeInv == Types /\ Tried /\ Named /\ Beating /\ Mailboxes /\ Between /\ Current

-----------------------------------------------------------------------------
\* Messages stay well-formed while apps are started.
LEMMA MessagesKept ==
  ASSUME NEW k \in Nat, NEW n \in Nat, NEW m \in Nat, n <= m
  PROVE  /\ Incoming(k, n) \subseteq Incoming(k, m) /\ Outgoing(k, n) \subseteq Outgoing(k, m)
         /\ Seq(Incoming(k, n)) \subseteq Seq(Incoming(k, m))
         /\ Seq(Outgoing(k, n)) \subseteq Seq(Outgoing(k, m))
<1>1. 0..n \subseteq 0..m
  OBVIOUS
<1>2. Incoming(k, n) \subseteq Incoming(k, m)
  BY <1>1 DEF Incoming
<1>3. Outgoing(k, n) \subseteq Outgoing(k, m)
  BY <1>1 DEF Outgoing
<1>4. ASSUME NEW S, NEW T, S \subseteq T PROVE Seq(S) \subseteq Seq(T)
  BY <1>4
<1> QED
  BY <1>2, <1>3, <1>4

\* Taking a message out leaves the others.
LEMMA RemovedOne ==
  ASSUME NEW S, NEW s \in Seq(S), NEW i \in DOMAIN s
  PROVE  RemoveAt(s, i) \in Seq(S)
<1>1. SubSeq(s, 1, i - 1) \in Seq(S) /\ SubSeq(s, i + 1, Len(s)) \in Seq(S)
  OBVIOUS
<1> QED
  BY <1>1 DEF RemoveAt

\* Sent adds one message or none.
LEMMA SentType ==
  ASSUME NEW S, tv.todo \in Seq(S), NEW m \in S
  PROVE  Sent(m) \in Seq(S)
BY DEF Sent

-----------------------------------------------------------------------------
(* The session's record.                                                     *)

\* A report of a loss changes the recovery window or the stop flag.
LEMMA ReportedType ==
  ASSUME Types, NEW out \in BOOLEAN
  PROVE  RequestReconnect(sess, out) \in SessRecords
BY DEF Types, SessType, SessRecords, RequestReconnect

\* What a message does to the record.
LEMMA HandledType ==
  ASSUME Types, NEW m,
         \/ m.app \in Nat /\ HandleReceiverStatus(m)
         \/ m.app \in Nat /\ m.offer \in Nat /\ HandleAnswer(m)
         \/ HandleClose(m)
  PROVE  SessType'
<1>1. CASE m.app \in Nat /\ HandleReceiverStatus(m)
  BY <1>1 DEF HandleReceiverStatus, Types, SessType, SessRecords
<1>2. CASE m.app \in Nat /\ m.offer \in Nat /\ HandleAnswer(m)
  <2>1. ParseAnswer(m) \in Params
    BY <1>2 DEF ParseAnswer, Params
  <2>2. ASSUME NEW p \in Params
        PROVE  /\ [sess EXCEPT !.params = p, !.answered = TRUE] \in SessRecords
               /\ [sess EXCEPT !.refused = TRUE] \in SessRecords
    BY DEF Types, SessType, SessRecords
  <2> QED
    BY <1>2, <2>1, <2>2 DEF HandleAnswer, SessType
<1>3. CASE HandleClose(m)
  BY <1>3, ReportedType DEF HandleClose, Types, SessType, SessRecords
<1> QED
  BY <1>1, <1>2, <1>3

\* The message at the head of the inbox.
LEMMA HeadType ==
  ASSUME HandshakeInv, recv = "handle"
  PROVE  /\ Head(inbox) \in Incoming(sess.keys, tv.apps)
         /\ Tail(inbox) \in Seq(Incoming(sess.keys, tv.apps))
         /\ Head(inbox).type \in {"STATUS", "CLOSE", "ANSWER"}
              => Head(inbox).app \in Nat /\ Head(inbox).app <= tv.apps
         /\ Head(inbox).type = "ANSWER" => Head(inbox).offer = sess.keys
         /\ Head(inbox).type = "AUTH" => Head(inbox).verdict \in {"verified", "refused"}
<1>1. inbox \in Seq(Incoming(sess.keys, tv.apps)) /\ inbox # <<>>
  BY DEF HandshakeInv, Mailboxes
<1>2. Head(inbox) \in Incoming(sess.keys, tv.apps) /\ Tail(inbox) \in Seq(Incoming(sess.keys, tv.apps))
  BY <1>1
<1> QED
  BY <1>2 DEF Incoming, HandshakeInv, Types, TvType, TvRecords

\* Every step of the session, of the channel and of the TV keeps the record's type.
LEMMA SessTypeKept ==
  ASSUME HandshakeInv, Next
  PROVE  SessType'
<1>0. Types
  BY DEF HandshakeInv
<1>1. CASE NewAttempt
  <2>1. sess' = [sess EXCEPT !.pc = "tcp", !.keys = sess.keys + 1] /\ sess.keys + 1 \in Nat
    BY <1>0, <1>1 DEF NewAttempt, Types, SessType, SessRecords
  <2>2. ASSUME NEW k \in Nat PROVE [sess EXCEPT !.pc = "tcp", !.keys = k] \in SessRecords
    BY <1>0 DEF Types, SessType, SessRecords, Places
  <2> QED
    BY <2>1, <2>2 DEF SessType
<1>2. ASSUME NEW l \in Places, To(l) PROVE SessType'
  BY <1>0, <1>2 DEF To, Types, SessType, SessRecords
<1>3. CASE ConnectTcp \/ ConnectTls \/ AuthenticateDevice \/ AwaitAuth \/ AwaitLaunch \/ SendOffer
           \/ AwaitAnswer \/ Drop \/ HangUp \/ Release
  BY <1>2, <1>3 DEF ConnectTcp, ConnectTls, AuthenticateDevice, AwaitAuth, AwaitLaunch, SendOffer,
                    AwaitAnswer, Drop, HangUp, Release, Give, Places
<1>4. CASE Launch
  BY <1>0, <1>4 DEF Launch, FlagsCleared, Types, SessType, SessRecords, Places
<1>5. CASE StartMedia
  <2>1. CASE sess' = [sess EXCEPT !.pc = "streaming",
                                  !.recovering = IF sess.keys = 1 THEN @ ELSE FALSE]
    BY <1>0, <2>1 DEF Types, SessType, SessRecords, Places
  <2> QED
    BY <1>2, <1>5, <2>1 DEF StartMedia, Give, Places
<1>6. CASE AttemptFailed
  <2>1. CASE sess' = [sess EXCEPT !.pc = "drop", !.stop = TRUE]
    BY <1>0, <2>1 DEF Types, SessType, SessRecords, Places
  <2> QED
    BY <1>2, <1>6, <2>1 DEF AttemptFailed, Give, Places
<1>7. CASE Watch
  BY <1>0, <1>2, <1>7, ReportedType DEF Watch, SessType, Places
<1>8. CASE Retry
  <2>1. PICK out \in HasTimedOut :
          sess' = [sess EXCEPT !.pc = IF out \/ sess.stop THEN "ended" ELSE "negotiate",
                               !.stop = @ \/ out]
    BY <1>8 DEF Retry
  <2> QED
    BY <1>0, <2>1 DEF Types, SessType, SessRecords, Places
<1>9. CASE ReceiveNotifies \/ HeartbeatNotifies
  <2>1. NotifyDisconnected
    BY <1>9 DEF ReceiveNotifies, HeartbeatNotifies
  <2> QED
    BY <1>0, <2>1, ReportedType DEF NotifyDisconnected, Types, SessType
<1>10. CASE OnChannelMessage
  <2>1. recv = "handle"
    BY <1>10 DEF OnChannelMessage
  <2>2. CASE UNCHANGED sess
    BY <1>0, <2>2 DEF Types, SessType
  <2> QED
    BY <1>0, <1>10, <2>1, <2>2, HeadType, HandledType
       DEF OnChannelMessage, HandshakeInv, Types, SessType, SessRecords
<1>11. CASE UserStops
  BY <1>0, <1>11 DEF UserStops, Types, SessType, SessRecords
<1>12. CASE UNCHANGED sess
  BY <1>0, <1>12 DEF Types, SessType
<1> QED
  BY <1>1, <1>3, <1>4, <1>5, <1>6, <1>7, <1>8, <1>9, <1>10, <1>11, <1>12
     DEF Next, Negotiate, Recover, Receive, Heartbeat, Environment, ReadMessage, ReadEof, ReceiveEnds,
         HeartbeatLoop, HeartbeatEnds, Pong, StopDisconnects, TlsServerLoop, TvUserCloses,
         OtherSenderStarts, LinkDies, Done, vars

-----------------------------------------------------------------------------
(* The channel's and the TV's records.                                       *)

\* Every step keeps the type of the channel and of its threads.
LEMMA ChanTypeKept ==
  ASSUME HandshakeInv, Next
  PROVE  ChanType'
<1>0. Types
  BY DEF HandshakeInv
<1>1. CASE NewAttempt
  BY <1>0, <1>1 DEF NewAttempt, Types, ChanType, ChanRecords
<1>2. CASE ConnectTcp
  BY <1>0, <1>2 DEF ConnectTcp, Give, Types, ChanType, ChanRecords
<1>3. CASE ConnectTls
  <2>1. CASE Give("failed")
    BY <1>0, <2>1 DEF Give, Types, ChanType
  <2>2. CASE /\ chan' = [chan EXCEPT !.connected = TRUE, !.notified = FALSE, !.missed = 0]
             /\ recv' = "read" /\ beat' = "wait"
    BY <1>0, <2>2 DEF Types, ChanType, ChanRecords
  <2> QED
    BY <1>3, <2>1, <2>2 DEF ConnectTls
<1>4. CASE AuthenticateDevice
  BY <1>0, <1>4 DEF AuthenticateDevice, Give, Types, ChanType, ChanRecords
<1>5. CASE Drop \/ HangUp \/ StopDisconnects
  <2>1. chan' = Disconnected(chan) /\ UNCHANGED <<recv, beat>>
    BY <1>5 DEF Drop, HangUp, StopDisconnects
  <2>2. Disconnected(chan) \in ChanRecords
    BY <1>0 DEF Disconnected, Types, ChanType, ChanRecords
  <2> QED
    BY <1>0, <2>1, <2>2 DEF Types, ChanType
<1>6. CASE ReadMessage \/ ReadEof \/ ReceiveEnds \/ HeartbeatEnds \/ Pong
  <2>1. CASE ReadMessage \/ ReceiveEnds \/ HeartbeatEnds
    BY <1>0, <2>1 DEF ReadMessage, ReceiveEnds, HeartbeatEnds, Types, ChanType
  <2>2. CASE ReadEof
    BY <1>0, <2>2 DEF ReadEof, Types, ChanType, ChanRecords
  <2>3. CASE Pong
    BY <1>0, <2>3 DEF Pong, Types, ChanType, ChanRecords
  <2> QED
    BY <1>6, <2>1, <2>2, <2>3
<1>7. CASE ReceiveNotifies \/ HeartbeatNotifies
  BY <1>0, <1>7 DEF ReceiveNotifies, HeartbeatNotifies, NotifyDisconnected, Types, ChanType, ChanRecords
<1>8. CASE OnChannelMessage
  <2>1. CASE UNCHANGED chan
    BY <1>0, <1>8, <2>1 DEF OnChannelMessage, Types, ChanType
  <2>2. CASE Head(inbox).type = "AUTH" /\ chan' = [chan EXCEPT !.auth = Head(inbox).verdict]
    <3>1. recv = "handle" /\ recv' = "read" /\ UNCHANGED beat
      BY <1>8 DEF OnChannelMessage
    <3>2. Head(inbox).verdict \in {"verified", "refused"}
      BY <2>2, <3>1, HeadType
    <3> QED
      BY <1>0, <2>2, <3>1, <3>2 DEF Types, ChanType, ChanRecords
  <2> QED
    BY <1>8, <2>1, <2>2 DEF OnChannelMessage
<1>9. CASE HeartbeatLoop
  <2>1. /\ chan' = [chan EXCEPT !.missed = chan.missed + 1,
                                !.connected = (chan.missed + 1 < MissedPongs)]
        /\ beat' \in {"wait", "notify"} /\ UNCHANGED recv
    BY <1>9 DEF HeartbeatLoop
  <2>2. chan.missed + 1 \in Nat /\ (chan.missed + 1 < MissedPongs) \in BOOLEAN
    BY <1>0, HandshakeAssumption DEF Types, ChanType, ChanRecords
  <2>3. ASSUME NEW n \in Nat, NEW b \in BOOLEAN
        PROVE  [chan EXCEPT !.missed = n, !.connected = b] \in ChanRecords
    BY <1>0 DEF Types, ChanType, ChanRecords
  <2> QED
    BY <1>0, <2>1, <2>2, <2>3 DEF Types, ChanType
<1>10. CASE Release
  BY <1>0, <1>10 DEF Release, ReleaseConnection, Types, ChanType
<1>11. CASE UNCHANGED <<chan, recv, beat>>
  BY <1>0, <1>11 DEF Types, ChanType
<1> QED
  BY <1>1, <1>2, <1>3, <1>4, <1>5, <1>6, <1>7, <1>8, <1>9, <1>10, <1>11
     DEF Next, Negotiate, Recover, Receive, Heartbeat, Environment, AwaitAuth, Launch, AwaitLaunch,
         SendOffer, AwaitAnswer, StartMedia, AttemptFailed, Watch, Retry, Give, UserStops,
         TlsServerLoop, TvUserCloses, OtherSenderStarts, LinkDies, Done, vars

\* A message to the TV joins what it has still to do, over a live link.
LEMMA SentMail ==
  ASSUME HandshakeInv, NEW m \in Outgoing(sess.keys, tv.apps)
  PROVE  /\ Sent(m) \in Seq(Outgoing(sess.keys, tv.apps)) /\ Sent(m) \in Seq(Request)
         /\ tv.link # "up" => Sent(m) = tv.todo
<1>1. m \in Request
  BY DEF Outgoing, Request, HandshakeInv, Types, SessType, SessRecords, TvType, TvRecords
<1>2. tv.todo \in Seq(Outgoing(sess.keys, tv.apps)) /\ tv.todo \in Seq(Request)
  BY DEF HandshakeInv, Mailboxes, Types, TvType, TvRecords
<1> QED
  BY <1>1, <1>2, SentType DEF Sent

\* The four messages the session sends.
LEMMA SessionMail ==
  ASSUME HandshakeInv
  PROVE  /\ [type |-> "AUTH"] \in Outgoing(sess.keys, tv.apps)
         /\ [type |-> "LAUNCH"] \in Outgoing(sess.keys, tv.apps)
         /\ [type |-> "OFFER", offer |-> sess.keys, app |-> sess.app] \in Outgoing(sess.keys, tv.apps)
         /\ [type |-> "STOP", app |-> sess.app] \in Outgoing(sess.keys, tv.apps)
<1>1. sess.app \in 0..tv.apps
  BY DEF HandshakeInv, Named, Types, SessType, SessRecords, TvType, TvRecords
<1> QED
  BY <1>1 DEF Outgoing

\* What the TV does next, and what is left for it to do.
LEMMA TvTurn ==
  ASSUME HandshakeInv, NEW i \in Turn
  PROVE  /\ tv.todo[i] \in Outgoing(sess.keys, tv.apps)
         /\ RemoveAt(tv.todo, i) \in Seq(Outgoing(sess.keys, tv.apps))
         /\ RemoveAt(tv.todo, i) \in Seq(Request)
<1>1. i \in DOMAIN tv.todo
  BY DEF Turn
<1>2. tv.todo \in Seq(Outgoing(sess.keys, tv.apps)) /\ tv.todo \in Seq(Request)
  BY DEF HandshakeInv, Mailboxes, Types, TvType, TvRecords
<1> QED
  BY <1>1, <1>2, RemovedOne

\* Every step keeps the type of the TV.
LEMMA TvTypeKept ==
  ASSUME HandshakeInv, ~LateAnswers, Next
  PROVE  TvType'
<1>0. tv \in TvRecords
  BY DEF HandshakeInv, Types, TvType
<1>1. CASE AuthenticateDevice \/ Launch \/ SendOffer \/ Drop \/ StopDisconnects
  <2>1. ASSUME NEW s \in Seq(Request) PROVE [tv EXCEPT !.todo = s] \in TvRecords
    BY <1>0 DEF TvRecords
  <2>2. PICK s \in Seq(Request) : tv' = [tv EXCEPT !.todo = s]
    <3>1. tv.todo \in Seq(Request) /\ tv = [tv EXCEPT !.todo = tv.todo]
      BY <1>0 DEF TvRecords
    <3> QED
      BY <1>1, <3>1, SessionMail, SentMail
         DEF AuthenticateDevice, Launch, SendOffer, Drop, StopDisconnects, Give
  <2> QED
    BY <2>1, <2>2 DEF TvType
<1>2. CASE ConnectTls
  BY <1>0, <1>2 DEF ConnectTls, Give, TvType, TvRecords
<1>3. CASE Release
  <2>1. Unanswered = <<>> /\ <<>> \in Seq(Request)
    BY DEF Unanswered
  <2>2. ASSUME NEW s \in Seq(Request)
        PROVE  [tv EXCEPT !.link = "none", !.served = 0, !.todo = s] \in TvRecords
    BY <1>0 DEF TvRecords
  <2> QED
    BY <1>3, <2>1, <2>2 DEF Release, ReleaseConnection, TvType
<1>4. CASE TlsServerLoop
  <2>1. PICK i \in Turn : TvAnswers(tv.todo[i], RemoveAt(tv.todo, i))
    BY <1>4 DEF TlsServerLoop
  <2> DEFINE m == tv.todo[i]
             rest == RemoveAt(tv.todo, i)
  <2>2. rest \in Seq(Request) /\ m \in Outgoing(sess.keys, tv.apps)
    BY TvTurn
  <2>3. m.type \in {"OFFER", "STOP"} => m.app \in Nat
    BY <1>0, <2>2 DEF Outgoing, TvRecords
  <2>4. CASE tv' = [tv EXCEPT !.todo = rest]
    BY <1>0, <2>2, <2>4 DEF TvType, TvRecords
  <2>5. ASSUME NEW a \in Nat,
               tv' = [tv EXCEPT !.todo = rest, !.app = a, !.ours = @ \cup {a},
                                !.apps = IF a > @ THEN a ELSE @]
        PROVE  TvType'
    <3>1. tv.ours \cup {a} \in SUBSET Nat /\ (IF a > tv.apps THEN a ELSE tv.apps) \in Nat
      BY <1>0 DEF TvRecords
    <3> QED
      BY <1>0, <2>2, <2>5, <3>1 DEF TvType, TvRecords
  <2>6. CASE m.app \in Nat /\ tv' = [tv EXCEPT !.todo = rest,
                                               !.served = IF m.app = tv.app THEN m.app ELSE @]
    BY <1>0, <2>2, <2>6 DEF TvType, TvRecords
  <2>7. CASE tv' = [tv EXCEPT !.todo = rest, !.app = IF m.app = @ THEN 0 ELSE @]
    BY <1>0, <2>2, <2>7 DEF TvType, TvRecords
  <2>8. {tv.apps + 1} \cup ({tv.app} \cap tv.ours) \subseteq Nat
    BY <1>0 DEF TvRecords
  <2> QED
    BY <2>1, <2>3, <2>4, <2>5, <2>6, <2>7, <2>8 DEF TvAnswers
<1>5. CASE TvUserCloses
  BY <1>0, <1>5 DEF TvUserCloses, TvType, TvRecords
<1>6. CASE OtherSenderStarts
  <2>1. tv' = [tv EXCEPT !.app = tv.apps + 1, !.apps = tv.apps + 1, !.others = tv.others + 1]
    BY <1>6 DEF OtherSenderStarts
  <2>2. tv.apps + 1 \in Nat /\ tv.others + 1 \in Nat
    BY <1>0 DEF TvRecords
  <2>3. ASSUME NEW a \in Nat, NEW o \in Nat
        PROVE  [tv EXCEPT !.app = a, !.apps = a, !.others = o] \in TvRecords
    BY <1>0 DEF TvRecords
  <2> QED
    BY <2>1, <2>2, <2>3 DEF TvType
<1>7. CASE LinkDies
  <2>1. PICK l \in {"silent", "closed"} : tv' = [tv EXCEPT !.link = l, !.faults = tv.faults + 1]
    BY <1>7 DEF LinkDies
  <2>2. tv.faults + 1 \in Nat
    BY <1>0 DEF TvRecords
  <2>3. ASSUME NEW f \in Nat PROVE [tv EXCEPT !.link = l, !.faults = f] \in TvRecords
    BY <1>0 DEF TvRecords
  <2> QED
    BY <2>1, <2>2, <2>3 DEF TvType
<1>8. CASE UNCHANGED tv
  BY <1>0, <1>8 DEF TvType
<1> QED
  BY <1>1, <1>2, <1>3, <1>4, <1>5, <1>6, <1>7, <1>8
     DEF Next, Negotiate, Recover, Receive, Heartbeat, Environment, NewAttempt, ConnectTcp, AwaitAuth,
         AwaitLaunch, AwaitAnswer, StartMedia, AttemptFailed, Watch, HangUp, Retry, Give, UserStops,
         ReadMessage, ReadEof, ReceiveEnds, ReceiveNotifies, HeartbeatNotifies, NotifyDisconnected,
         OnChannelMessage, HeartbeatLoop, HeartbeatEnds, Pong, Done, vars

-----------------------------------------------------------------------------
(* Bounds, mailboxes and flags.                                              *)

\* An attempt is made only while fewer than MaxAttempts were.
LEMMA TriedKept ==
  ASSUME HandshakeInv, Next
  PROVE  Tried'
<1>0. sess \in SessRecords /\ Tried
  BY DEF HandshakeInv, Types, SessType
<1>1. CASE NewAttempt
  <2>1. sess' = [sess EXCEPT !.pc = "tcp", !.keys = sess.keys + 1] /\ sess.keys < MaxAttempts
    BY <1>0, <1>1 DEF NewAttempt, At, Tried
  <2>2. sess'.pc = "tcp" /\ sess'.keys = sess.keys + 1 /\ sess'.params = sess.params
    BY <1>0, <2>1 DEF SessRecords
  <2> QED
    BY <1>0, <2>1, <2>2, HandshakeAssumption DEF Tried, SessRecords, Params
<1>2. ASSUME sess'.keys = sess.keys, sess'.pc # "negotiate", sess'.params = sess.params
      PROVE  Tried'
  BY <1>0, <1>2 DEF Tried
<1>3. ASSUME NEW l, l # "negotiate", To(l) PROVE Tried'
  BY <1>0, <1>2, <1>3 DEF To, SessRecords
<1>4. CASE ConnectTcp \/ ConnectTls \/ AuthenticateDevice \/ AwaitAuth \/ AwaitLaunch \/ SendOffer
           \/ AwaitAnswer \/ Drop \/ HangUp \/ Release
  BY <1>3, <1>4 DEF ConnectTcp, ConnectTls, AuthenticateDevice, AwaitAuth, AwaitLaunch, SendOffer,
                    AwaitAnswer, Drop, HangUp, Release, Give
<1>5. CASE Launch
  BY <1>0, <1>2, <1>5 DEF Launch, FlagsCleared, SessRecords
<1>6. CASE StartMedia \/ AttemptFailed
  BY <1>0, <1>2, <1>3, <1>6 DEF StartMedia, AttemptFailed, Give, SessRecords
<1>7. ASSUME sess'.keys = sess.keys, sess'.pc = sess.pc,
             sess'.params = sess.params \/ sess'.params.offer = sess.keys
      PROVE  Tried'
  BY <1>0, <1>7 DEF Tried, SessRecords
<1>8. ASSUME NEW out, sess' = RequestReconnect(sess, out) PROVE Tried'
  BY <1>0, <1>7, <1>8 DEF RequestReconnect, SessRecords
<1>9. CASE Watch
  BY <1>3, <1>8, <1>9 DEF Watch
<1>10. CASE Retry
  <2>1. PICK out \in HasTimedOut :
          sess' = [sess EXCEPT !.pc = IF out \/ sess.stop THEN "ended" ELSE "negotiate",
                               !.stop = @ \/ out]
    BY <1>10 DEF Retry
  <2>2. /\ sess'.keys = sess.keys /\ sess'.params = sess.params
        /\ sess'.pc = (IF out \/ sess.stop THEN "ended" ELSE "negotiate")
    BY <1>0, <2>1 DEF SessRecords
  <2>3. sess'.pc = "negotiate" => sess.keys < MaxAttempts
    <3>1. sess.keys >= MaxAttempts => out = TRUE
      BY DEF HasTimedOut
    <3>2. sess.keys \in Nat /\ MaxAttempts \in Nat
      BY <1>0, HandshakeAssumption DEF SessRecords
    <3>3. sess'.pc = "negotiate" => ~(out = TRUE)
      BY <2>2
    <3> QED
      BY <3>1, <3>2, <3>3
  <2> QED
    BY <1>0, <2>2, <2>3 DEF Tried
<1>11. CASE UNCHANGED sess
  BY <1>0, <1>11 DEF Tried
<1>12. CASE ReceiveNotifies \/ HeartbeatNotifies
  BY <1>8, <1>11, <1>12 DEF ReceiveNotifies, HeartbeatNotifies, NotifyDisconnected
<1>13. CASE OnChannelMessage
  <2>1. recv = "handle"
    BY <1>13 DEF OnChannelMessage
  <2> DEFINE m == Head(inbox)
  <2>2. CASE HandleReceiverStatus(m)
    BY <1>0, <1>7, <2>2 DEF HandleReceiverStatus, SessRecords
  <2>3. CASE m.type = "ANSWER" /\ HandleAnswer(m)
    <3>1. ParseAnswer(m).offer = sess.keys
      BY <2>1, <2>3, HeadType DEF ParseAnswer
    <3> QED
      BY <1>0, <1>7, <2>3, <3>1 DEF HandleAnswer, SessRecords
  <2>4. CASE HandleClose(m)
    <3>1. CASE sess' = [sess EXCEPT !.stop = TRUE]
      BY <1>0, <1>7, <3>1 DEF SessRecords
    <3> QED
      BY <1>8, <2>4, <3>1 DEF HandleClose
  <2> QED
    BY <1>11, <1>13, <2>2, <2>3, <2>4 DEF OnChannelMessage
<1>14. CASE UserStops
  BY <1>0, <1>7, <1>14 DEF UserStops, SessRecords
<1> QED
  BY <1>1, <1>4, <1>5, <1>6, <1>9, <1>10, <1>11, <1>12, <1>13, <1>14
     DEF Next, Negotiate, Recover, Receive, Heartbeat, Environment, ReadMessage, ReadEof, ReceiveEnds,
         HeartbeatLoop, HeartbeatEnds, Pong, StopDisconnects, TlsServerLoop, TvUserCloses,
         OtherSenderStarts, LinkDies, Done, vars

\* Each beat counts a missing answer and gives up at the bound.
LEMMA BeatingKept ==
  ASSUME HandshakeInv, Next
  PROVE  Beating'
<1>0. chan \in ChanRecords /\ Beating
  BY DEF HandshakeInv, Types, ChanType
<1>1. MissedPongs \in Nat \ {0}
  BY HandshakeAssumption
<1>2. ASSUME chan'.missed = chan.missed, chan'.connected => chan.connected
      PROVE  Beating'
  BY <1>0, <1>2 DEF Beating
<1>3. CASE UNCHANGED chan
  BY <1>2, <1>3
<1>4. CASE NewAttempt
  BY <1>1, <1>4 DEF NewAttempt, Beating
<1>5. CASE ConnectTcp \/ AuthenticateDevice
  BY <1>0, <1>2, <1>5 DEF ConnectTcp, AuthenticateDevice, Give, ChanRecords
<1>6. CASE ConnectTls
  <2>1. CASE chan' = [chan EXCEPT !.connected = TRUE, !.notified = FALSE, !.missed = 0]
    BY <1>0, <1>1, <2>1 DEF Beating, ChanRecords
  <2> QED
    BY <1>3, <1>6, <2>1 DEF ConnectTls, Give
<1>7. CASE Drop \/ HangUp \/ StopDisconnects
  BY <1>0, <1>2, <1>7 DEF Drop, HangUp, StopDisconnects, Disconnected, ChanRecords
<1>8. CASE ReadEof \/ ReceiveNotifies \/ HeartbeatNotifies
  BY <1>0, <1>2, <1>8 DEF ReadEof, ReceiveNotifies, HeartbeatNotifies, NotifyDisconnected, ChanRecords
<1>9. CASE OnChannelMessage
  BY <1>0, <1>2, <1>9 DEF OnChannelMessage, ChanRecords
<1>10. CASE Pong
  BY <1>0, <1>1, <1>10 DEF Pong, Beating, ChanRecords
<1>11. CASE HeartbeatLoop
  <2>1. chan.missed < MissedPongs
    BY <1>0, <1>11 DEF HeartbeatLoop, Lives, Beating
  <2>2. chan' = [chan EXCEPT !.missed = chan.missed + 1,
                             !.connected = (chan.missed + 1 < MissedPongs)]
    BY <1>11 DEF HeartbeatLoop
  <2>3. chan'.missed = chan.missed + 1
    BY <1>0, <2>2 DEF ChanRecords
  <2>4. chan'.connected => chan.missed + 1 < MissedPongs
    BY <1>0, <2>2 DEF ChanRecords
  <2> QED
    BY <1>0, <1>1, <2>1, <2>3, <2>4 DEF Beating, ChanRecords
<1> QED
  BY <1>3, <1>4, <1>5, <1>6, <1>7, <1>8, <1>9, <1>10, <1>11
     DEF Next, Negotiate, Recover, Receive, Heartbeat, Environment, AwaitAuth, Launch, AwaitLaunch,
         SendOffer, AwaitAnswer, StartMedia, AttemptFailed, Watch, Release, Retry, Give, UserStops,
         ReadMessage, ReceiveEnds, HeartbeatEnds, TlsServerLoop, TvUserCloses, OtherSenderStarts,
         LinkDies, Done, vars

\* How the TV's apps change: the number of those that were started never falls.
LEMMA AppsGrow ==
  ASSUME HandshakeInv, Next
  PROVE  tv.apps <= tv'.apps /\ tv'.app <= tv'.apps
<1>0. tv \in TvRecords /\ tv.app <= tv.apps
  BY DEF HandshakeInv, Types, TvType, Named
<1>1. CASE tv'.app = tv.app /\ tv'.apps = tv.apps
  BY <1>0, <1>1 DEF TvRecords
<1>2. CASE AuthenticateDevice \/ Launch \/ SendOffer \/ Drop \/ StopDisconnects \/ ConnectTls
           \/ Release \/ LinkDies
  BY <1>0, <1>1, <1>2
     DEF AuthenticateDevice, Launch, SendOffer, Drop, StopDisconnects, ConnectTls, Release,
         ReleaseConnection, LinkDies, Give, TvRecords
<1>3. CASE TvUserCloses \/ OtherSenderStarts
  <2>1. CASE TvUserCloses
    BY <1>0, <2>1 DEF TvUserCloses, TvRecords
  <2>2. CASE OtherSenderStarts
    <3>1. tv'.app = tv.apps + 1 /\ tv'.apps = tv.apps + 1
      BY <1>0, <2>2 DEF OtherSenderStarts, TvRecords
    <3> QED
      BY <1>0, <3>1 DEF TvRecords
  <2> QED
    BY <1>3, <2>1, <2>2
<1>4. CASE TlsServerLoop
  <2>1. PICK i \in Turn : TvAnswers(tv.todo[i], RemoveAt(tv.todo, i))
    BY <1>4 DEF TlsServerLoop
  <2> DEFINE rest == RemoveAt(tv.todo, i)
             m == tv.todo[i]
  <2>2. ASSUME NEW a \in {tv.apps + 1} \cup ({tv.app} \cap tv.ours),
               tv' = [tv EXCEPT !.todo = rest, !.app = a, !.ours = @ \cup {a},
                                !.apps = IF a > @ THEN a ELSE @]
        PROVE  tv.apps <= tv'.apps /\ tv'.app <= tv'.apps
    <3>1. tv'.app = a /\ tv'.apps = IF a > tv.apps THEN a ELSE tv.apps
      BY <1>0, <2>2 DEF TvRecords
    <3> QED
      BY <1>0, <3>1 DEF TvRecords
  <2>3. CASE tv' = [tv EXCEPT !.todo = rest]
    BY <1>0, <1>1, <2>3 DEF TvRecords
  <2>4. CASE tv' = [tv EXCEPT !.todo = rest, !.served = IF m.app = tv.app THEN m.app ELSE @]
    BY <1>0, <1>1, <2>4 DEF TvRecords
  <2>5. CASE tv' = [tv EXCEPT !.todo = rest, !.app = IF m.app = @ THEN 0 ELSE @]
    BY <1>0, <2>5 DEF TvRecords
  <2> QED
    BY <2>1, <2>2, <2>3, <2>4, <2>5 DEF TvAnswers
<1> QED
  BY <1>1, <1>2, <1>3, <1>4
     DEF Next, Negotiate, Recover, Receive, Heartbeat, Environment, NewAttempt, ConnectTcp, AwaitAuth,
         AwaitLaunch, AwaitAnswer, StartMedia, AttemptFailed, Watch, HangUp, Retry, Give, UserStops,
         ReadMessage, ReadEof, ReceiveEnds, ReceiveNotifies, HeartbeatNotifies, NotifyDisconnected,
         OnChannelMessage, HeartbeatLoop, HeartbeatEnds, Pong, Done, vars

-----------------------------------------------------------------------------
(* What the session's thread and its callbacks do to the negotiated values.  *)

\* Going to another place changes nothing else.
LEMMA Moved ==
  ASSUME HandshakeInv, NEW l, To(l)
  PROVE  /\ sess'.pc = l /\ sess'.keys = sess.keys /\ sess'.app = sess.app
         /\ sess'.params = sess.params /\ sess'.answered = sess.answered
BY DEF To, HandshakeInv, Types, SessType, SessRecords

\* A report of a loss leaves the negotiated values alone.
LEMMA Reported ==
  ASSUME HandshakeInv, NEW out, sess' = RequestReconnect(sess, out)
  PROVE  /\ sess'.pc = sess.pc /\ sess'.keys = sess.keys /\ sess'.app = sess.app
         /\ sess'.params = sess.params /\ sess'.answered = sess.answered
BY DEF RequestReconnect, HandshakeInv, Types, SessType, SessRecords

\* The messages and the reports the threads bring in leave the attempt and the
\* place alone; an ANSWER they bring in is one to this attempt's OFFER.
LEMMA BroughtIn ==
  ASSUME HandshakeInv, OnChannelMessage \/ ReceiveNotifies \/ HeartbeatNotifies \/ UserStops
  PROVE  /\ sess'.pc = sess.pc /\ sess'.keys = sess.keys
         /\ sess'.app = sess.app \/ sess'.app <= tv.apps
         /\ \/ sess'.params = sess.params /\ sess'.answered = sess.answered
            \/ sess'.params.offer = sess.keys /\ sess'.answered = TRUE
<1>0. sess \in SessRecords
  BY DEF HandshakeInv, Types, SessType
<1>1. CASE sess' = sess
  BY <1>1
<1>2. CASE ReceiveNotifies \/ HeartbeatNotifies
  BY <1>1, <1>2, Reported DEF ReceiveNotifies, HeartbeatNotifies, NotifyDisconnected
<1>3. CASE sess' = [sess EXCEPT !.stop = TRUE]
  BY <1>0, <1>3 DEF SessRecords
<1>4. CASE OnChannelMessage
  <2>1. recv = "handle"
    BY <1>4 DEF OnChannelMessage
  <2> DEFINE m == Head(inbox)
  <2>2. CASE m.type = "STATUS" /\ HandleReceiverStatus(m)
    <3>1. CASE sess' = [sess EXCEPT !.app = m.app, !.launched = TRUE]
      BY <1>0, <2>1, <2>2, <3>1, HeadType DEF SessRecords
    <3> QED
      BY <1>1, <2>2, <3>1 DEF HandleReceiverStatus
  <2>3. CASE m.type = "ANSWER" /\ HandleAnswer(m)
    <3>1. ParseAnswer(m).offer = sess.keys
      BY <2>1, <2>3, HeadType DEF ParseAnswer
    <3>2. CASE sess' = [sess EXCEPT !.params = ParseAnswer(m), !.answered = TRUE]
      BY <1>0, <3>1, <3>2 DEF SessRecords
    <3>3. CASE sess' = [sess EXCEPT !.refused = TRUE]
      BY <1>0, <3>3 DEF SessRecords
    <3> QED
      BY <2>3, <3>2, <3>3 DEF HandleAnswer
  <2>4. CASE HandleClose(m)
    BY <1>3, <2>4, Reported DEF HandleClose
  <2> QED
    BY <1>1, <1>4, <2>2, <2>3, <2>4 DEF OnChannelMessage
<1> QED
  BY <1>2, <1>3, <1>4 DEF UserStops

\* The steps of the session's thread that go to another place and do no more.
LEMMA Moves ==
  ASSUME HandshakeInv,
         \/ ConnectTcp \/ ConnectTls \/ AuthenticateDevice \/ AwaitAuth \/ AwaitLaunch
         \/ SendOffer \/ AwaitAnswer \/ StartMedia \/ AttemptFailed \/ Watch \/ Drop \/ HangUp
         \/ Release \/ Retry
  PROVE  /\ sess'.keys = sess.keys /\ sess'.app = sess.app
         /\ sess'.params = sess.params /\ sess'.answered = sess.answered
<1>0. sess \in SessRecords
  BY DEF HandshakeInv, Types, SessType
<1>1. CASE ConnectTcp \/ ConnectTls \/ AuthenticateDevice \/ AwaitAuth \/ AwaitLaunch \/ SendOffer
           \/ AwaitAnswer \/ Drop \/ HangUp \/ Release
  BY <1>1, Moved
     DEF ConnectTcp, ConnectTls, AuthenticateDevice, AwaitAuth, AwaitLaunch, SendOffer, AwaitAnswer,
         Drop, HangUp, Release, Give
<1>2. CASE StartMedia
  BY <1>0, <1>2, Moved DEF StartMedia, Give, SessRecords
<1>3. CASE AttemptFailed
  BY <1>0, <1>3, Moved DEF AttemptFailed, Give, SessRecords
<1>4. CASE Watch
  BY <1>4, Moved, Reported DEF Watch
<1>5. CASE Retry
  BY <1>0, <1>5 DEF Retry, SessRecords
<1> QED
  BY <1>1, <1>2, <1>3, <1>4, <1>5

\* A step outside NewAttempt, Launch, Moves and BroughtIn leaves the session alone.
LEMMA SessionSteps ==
  ASSUME Next
  PROVE  \/ NewAttempt \/ Launch
         \/ ConnectTcp \/ ConnectTls \/ AuthenticateDevice \/ AwaitAuth \/ AwaitLaunch
         \/ SendOffer \/ AwaitAnswer \/ StartMedia \/ AttemptFailed \/ Watch \/ Drop \/ HangUp
         \/ Release \/ Retry
         \/ OnChannelMessage \/ ReceiveNotifies \/ HeartbeatNotifies \/ UserStops
         \/ UNCHANGED sess
BY DEF Next, Negotiate, Recover, Receive, Heartbeat, Environment, ReadMessage, ReadEof, ReceiveEnds,
       HeartbeatLoop, HeartbeatEnds, Pong, StopDisconnects, TlsServerLoop, TvUserCloses,
       OtherSenderStarts, LinkDies, Done, vars

\* The number of the attempt changes only when one is made, and the app only
\* to one the TV has named.
LEMMA KeysKept ==
  ASSUME HandshakeInv, Next
  PROVE  /\ NewAttempt \/ sess'.keys = sess.keys
         /\ sess'.app = sess.app \/ sess'.app <= tv.apps
<1>0. sess \in SessRecords
  BY DEF HandshakeInv, Types, SessType
<1>1. CASE NewAttempt
  BY <1>0, <1>1 DEF NewAttempt, SessRecords
<1>2. CASE Launch
  BY <1>0, <1>2 DEF Launch, FlagsCleared, SessRecords
<1> QED
  BY <1>1, <1>2, SessionSteps, Moves, BroughtIn

\* No step names an app that was not started.
LEMMA NamedKept ==
  ASSUME HandshakeInv, ~LateAnswers, Next
  PROVE  Named'
<1>1. tv.apps <= tv'.apps /\ tv'.app <= tv'.apps /\ sess.app <= tv.apps
  BY AppsGrow DEF HandshakeInv, Named
<1>2. tv.apps \in Nat /\ tv'.apps \in Nat /\ sess.app \in Nat /\ sess'.app \in Nat
  BY SessTypeKept, TvTypeKept
     DEF HandshakeInv, Types, SessType, SessRecords, TvType, TvRecords
<1>3. sess'.app <= tv.apps
  BY <1>1, <1>2, KeysKept
<1> QED
  BY <1>1, <1>2, <1>3 DEF Named

-----------------------------------------------------------------------------
(* What is on its way.                                                       *)

\* What was fit to be sent before a step is fit after it, unless an attempt begins.
LEMMA StillFits ==
  ASSUME HandshakeInv, ~LateAnswers, Next, ~NewAttempt
  PROVE  /\ Seq(Outgoing(sess.keys, tv.apps)) \subseteq Seq(Outgoing(sess'.keys, tv'.apps))
         /\ Seq(Incoming(sess.keys, tv.apps)) \subseteq Seq(Incoming(sess'.keys, tv'.apps))
<1>1. sess'.keys = sess.keys /\ tv.apps <= tv'.apps
  BY KeysKept, AppsGrow
<1>2. sess.keys \in Nat /\ tv.apps \in Nat /\ tv'.apps \in Nat
  BY TvTypeKept DEF HandshakeInv, Types, SessType, SessRecords, TvType, TvRecords
<1> QED
  BY <1>1, <1>2, MessagesKept

\* What the TV has still to do was asked for by this attempt.
LEMMA TodoKept ==
  ASSUME HandshakeInv, ~LateAnswers, Next
  PROVE  tv'.todo \in Seq(Outgoing(sess'.keys, tv'.apps))
<1>0. tv \in TvRecords /\ tv.todo \in Seq(Outgoing(sess.keys, tv.apps))
  BY DEF HandshakeInv, Types, TvType, Mailboxes
<1>1. CASE NewAttempt
  <2>1. tv' = tv /\ tv.todo = <<>>
    BY <1>1 DEF NewAttempt, At, HandshakeInv, Between
  <2> QED
    BY <2>1
<1>2. CASE ~NewAttempt
  <2>1. SUFFICES tv'.todo \in Seq(Outgoing(sess.keys, tv.apps))
    BY <1>2, StillFits
  <2>2. CASE tv'.todo = tv.todo
    BY <1>0, <2>2
  <2>3. CASE AuthenticateDevice \/ Launch \/ SendOffer \/ Drop \/ StopDisconnects
    <3>1. ASSUME NEW q \in Seq(Outgoing(sess.keys, tv.apps)), tv' = [tv EXCEPT !.todo = q]
          PROVE  tv'.todo \in Seq(Outgoing(sess.keys, tv.apps))
      BY <1>0, <3>1 DEF TvRecords
    <3>2. tv = [tv EXCEPT !.todo = tv.todo]
      BY <1>0 DEF TvRecords
    <3> QED
      BY <1>0, <2>3, <3>1, <3>2, SessionMail, SentMail
         DEF AuthenticateDevice, Launch, SendOffer, Drop, StopDisconnects, Give
  <2>4. CASE Release
    BY <1>0, <2>4 DEF Release, ReleaseConnection, Unanswered, TvRecords
  <2>5. CASE TlsServerLoop
    <3>1. PICK j \in Turn : TvAnswers(tv.todo[j], RemoveAt(tv.todo, j))
      BY <2>5 DEF TlsServerLoop
    <3>2. tv'.todo = RemoveAt(tv.todo, j)
      BY <1>0, <3>1 DEF TvAnswers, TvRecords
    <3> QED
      BY <3>2, TvTurn
  <2>6. CASE ConnectTls
    BY <1>0, <2>6 DEF ConnectTls, Give, TvRecords
  <2>7. CASE TvUserCloses \/ OtherSenderStarts \/ LinkDies
    BY <1>0, <2>7 DEF TvUserCloses, OtherSenderStarts, LinkDies, TvRecords
  <2> QED
    BY <1>2, <2>2, <2>3, <2>4, <2>5, <2>6, <2>7
       DEF Next, Negotiate, Recover, Receive, Heartbeat, Environment, ConnectTcp, AwaitAuth,
           AwaitLaunch, AwaitAnswer, StartMedia, AttemptFailed, Watch, HangUp, Retry, Give, UserStops,
           ReadMessage, ReadEof, ReceiveEnds, ReceiveNotifies, HeartbeatNotifies, NotifyDisconnected,
           OnChannelMessage, HeartbeatLoop, HeartbeatEnds, Pong, Done, vars
<1> QED
  BY <1>1, <1>2

\* What the TV says is about this attempt and the apps started so far.
LEMMA SaidFits ==
  ASSUME HandshakeInv, ~LateAnswers, Next, TlsServerLoop \/ TvUserCloses \/ OtherSenderStarts
  PROVE  /\ \/ UNCHANGED inbox
            \/ \E msgs \in Seq(Incoming(sess'.keys, tv'.apps)) : Says(msgs)
         /\ UNCHANGED <<sess, recv>>
<1>0. tv \in TvRecords /\ tv.app <= tv.apps
  BY DEF HandshakeInv, Types, TvType, Named
<1>1. sess' = sess /\ recv' = recv
  BY DEF TlsServerLoop, TvUserCloses, OtherSenderStarts
<1>2. tv.apps <= tv'.apps /\ tv'.app <= tv'.apps /\ tv'.apps \in Nat /\ tv'.app \in Nat
  BY AppsGrow, TvTypeKept DEF TvType, TvRecords
<1>3. tv.app \in 0..tv'.apps
  BY <1>0, <1>2 DEF TvRecords
<1> DEFINE In == Incoming(sess'.keys, tv'.apps)
<1>4. ASSUME NEW a \in 0..tv'.apps
      PROVE  [type |-> "STATUS", app |-> a] \in In /\ [type |-> "CLOSE", app |-> a] \in In
  BY DEF Incoming
<1>9. ASSUME NEW x \in In PROVE <<x>> \in Seq(In)
  OBVIOUS
<1> DEFINE Fits == UNCHANGED inbox \/ \E msgs \in Seq(In) : Says(msgs)
<1>10. ASSUME NEW x \in In, Says(<<x>>) PROVE Fits
  BY <1>9, <1>10
<1>11. ASSUME NEW q \in Seq(In), Says(q) PROVE Fits
  BY <1>11
<1>5. ASSUME TlsServerLoop PROVE Fits
  <2>1. PICK j \in Turn : TvAnswers(tv.todo[j], RemoveAt(tv.todo, j))
    BY <1>5 DEF TlsServerLoop
  <2> DEFINE m == tv.todo[j]
  <2>2. m \in Outgoing(sess.keys, tv.apps)
    BY TvTurn
  <2>3. ASSUME NEW v \in {"verified", "refused"} PROVE [type |-> "AUTH", verdict |-> v] \in In
    BY DEF Incoming
  <2>4. ASSUME m.type = "OFFER", NEW q \in Accepts \cup {{}}, m.app = tv.app
        PROVE  [type |-> "ANSWER", offer |-> m.offer, app |-> m.app, streams |-> q] \in In
    <3>1. m.offer \in {sess'.keys} /\ m.app \in 0..tv'.apps
      BY <1>1, <1>3, <2>2, <2>4 DEF Outgoing
    <3>2. q \in SUBSET (0..1)
      BY HandshakeAssumption
    <3>3. ASSUME NEW o \in {sess'.keys}, NEW a \in 0..tv'.apps
          PROVE  [type |-> "ANSWER", offer |-> o, app |-> a, streams |-> q] \in In
      BY <3>2 DEF Incoming
    <3> QED
      BY <3>1, <3>3
  <2>5. ASSUME NEW a, tv' = [tv EXCEPT !.todo = RemoveAt(tv.todo, j), !.app = a,
                                       !.ours = @ \cup {a}, !.apps = IF a > @ THEN a ELSE @]
        PROVE  [type |-> "STATUS", app |-> a] \in In
    <3>1. tv'.app = a
      BY <1>0, <2>5 DEF TvRecords
    <3>2. a \in 0..tv'.apps
      BY <1>2, <3>1
    <3> QED
      BY <1>4, <3>2
  <2> HIDE DEF m, In, Fits
  <2>7. ASSUME m.type = "AUTH" PROVE Fits
    BY <1>10, <2>1, <2>3, <2>7 DEF TvAnswers, m
  <2>8. ASSUME m.type = "LAUNCH" PROVE Fits
    BY <1>10, <2>1, <2>5, <2>8 DEF TvAnswers, m
  <2>9. ASSUME m.type = "OFFER" PROVE Fits
    BY <1>10, <2>1, <2>4, <2>9 DEF TvAnswers, Fits, m
  <2>10. ASSUME m.type = "STOP" PROVE Fits
    BY <2>1, <2>10 DEF TvAnswers, Fits, m
  <2>11. m.type \in {"AUTH", "LAUNCH", "OFFER", "STOP"}
    BY <2>2 DEF Outgoing
  <2> QED
    BY <2>7, <2>8, <2>9, <2>10, <2>11
<1> HIDE DEF In, Fits
<1>6. Farewell \in Seq(In)
  <2>1. <<>> \in Seq(In)
    OBVIOUS
  <2>2. <<[type |-> "CLOSE", app |-> tv.app]>> \in Seq(In)
    BY <1>3, <1>4, <1>9
  <2> QED
    BY <2>1, <2>2 DEF Farewell
<1>7. ASSUME TvUserCloses PROVE Fits
  BY <1>6, <1>7, <1>11 DEF TvUserCloses
<1>8. ASSUME OtherSenderStarts PROVE Fits
  <2> DEFINE status == <<[type |-> "STATUS", app |-> tv.apps + 1]>>
  <2>1. tv'.apps = tv.apps + 1
    BY <1>0, <1>8 DEF OtherSenderStarts, TvRecords
  <2>2. tv.apps + 1 \in 0..tv'.apps
    BY <1>2, <2>1
  <2>3. status \in Seq(In)
    BY <1>4, <1>9, <2>2
  <2>4. Farewell \o status \in Seq(In) /\ status \o Farewell \in Seq(In)
    BY <1>6, <2>3
  <2>5. UNCHANGED inbox => Fits
    BY DEF Fits
  <2> QED
    BY <1>8, <1>11, <2>4, <2>5 DEF OtherSenderStarts
<1> QED
  BY <1>1, <1>5, <1>7, <1>8 DEF Fits, In

\* What has come from the TV is about this attempt, and a message is handled
\* only when there is one.
LEMMA InboxKept ==
  ASSUME HandshakeInv, ~LateAnswers, Next
  PROVE  /\ inbox' \in Seq(Incoming(sess'.keys, tv'.apps))
         /\ recv' = "handle" => inbox' # <<>>
<1>0. /\ inbox \in Seq(Incoming(sess.keys, tv.apps))
      /\ recv = "handle" => inbox # <<>>
  BY DEF HandshakeInv, Mailboxes
<1>1. CASE NewAttempt
  <2>1. inbox' = <<>> /\ recv' # "handle"
    BY <1>1 DEF NewAttempt, At, Joined, HandshakeInv, Between
  <2> QED
    BY <2>1
<1>2. CASE ~NewAttempt
  <2> DEFINE In == Incoming(sess'.keys, tv'.apps)
  <2>1. inbox \in Seq(In)
    BY <1>0, <1>2, StillFits
  <2>2. CASE UNCHANGED inbox /\ (recv' = recv \/ recv' # "handle")
    BY <1>0, <2>1, <2>2
  <2>3. CASE TlsServerLoop \/ TvUserCloses \/ OtherSenderStarts
    <3>1. CASE \E msgs \in Seq(In) : Says(msgs)
      <4>1. PICK msgs \in Seq(In) : inbox' = inbox \o msgs
        BY <3>1 DEF Says
      <4>2. recv' = recv
        BY <2>3, SaidFits
      <4> QED
        BY <1>0, <2>1, <4>1, <4>2
    <3> QED
      BY <2>2, <2>3, <3>1, SaidFits
  <2>4. CASE Release
    BY <2>4 DEF Release, ReleaseConnection
  <2>5. CASE ReadMessage
    BY <2>1, <2>5 DEF ReadMessage
  <2>6. CASE OnChannelMessage
    BY <1>0, <2>1, <2>6 DEF OnChannelMessage
  <2> HIDE DEF In
  <2>7. CASE ConnectTls
    BY <2>2, <2>7 DEF ConnectTls, Give
  <2> QED
    BY <1>2, <2>2, <2>3, <2>4, <2>5, <2>6, <2>7
       DEF In, Next, Negotiate, Recover, Receive, Heartbeat, Environment, ConnectTcp,
           AuthenticateDevice, AwaitAuth, Launch, AwaitLaunch, SendOffer, AwaitAnswer, StartMedia,
           AttemptFailed, Watch, Drop, HangUp, Retry, Give, UserStops, StopDisconnects, ReadEof,
           ReceiveEnds, ReceiveNotifies, HeartbeatNotifies, NotifyDisconnected, HeartbeatLoop,
           HeartbeatEnds, Pong, LinkDies, Done, vars
<1> QED
  BY <1>1, <1>2

\* While the thread is about to begin an attempt nothing is on its way: there is
\* no link, and Release emptied both mailboxes.
LEMMA BetweenKept ==
  ASSUME HandshakeInv, ~LateAnswers, Next
  PROVE  Between'
<1>0. sess \in SessRecords /\ tv \in TvRecords
  BY DEF HandshakeInv, Types, SessType, TvType
<1> DEFINE Idle == sess.pc \in {"retry", "negotiate"}
<1>1. CASE Release
  BY <1>0, <1>1 DEF Release, ReleaseConnection, Unanswered, Between, TvRecords
<1>2. CASE ~Release /\ sess'.pc \in {"retry", "negotiate"}
  <2>1. Idle
    <3>1. ASSUME NEW l, To(l), Idle \/ l \notin {"retry", "negotiate"} PROVE Idle
      BY <1>2, <3>1, Moved DEF HandshakeInv
    <3>2. CASE sess'.pc = sess.pc
      BY <1>2, <3>2
    <3>3. CASE ConnectTcp \/ ConnectTls \/ AuthenticateDevice \/ AwaitAuth \/ AwaitLaunch
               \/ SendOffer \/ AwaitAnswer \/ Drop \/ HangUp
      BY <3>1, <3>3
         DEF ConnectTcp, ConnectTls, AuthenticateDevice, AwaitAuth, AwaitLaunch, SendOffer,
             AwaitAnswer, Drop, HangUp, Give
    <3>4. CASE StartMedia
      BY <1>0, <1>2, <3>1, <3>4 DEF StartMedia, Give, SessRecords
    <3>5. CASE AttemptFailed
      BY <1>0, <1>2, <3>1, <3>5 DEF AttemptFailed, Give, SessRecords
    <3>6. CASE NewAttempt \/ Launch
      BY <1>0, <1>2, <3>6 DEF NewAttempt, Launch, FlagsCleared, SessRecords
    <3>7. CASE Watch
      BY <3>1, <3>2, <3>7, Reported DEF Watch
    <3>8. CASE Retry
      BY <3>8 DEF Retry, At
    <3> QED
      BY <1>2, <3>2, <3>3, <3>4, <3>5, <3>6, <3>7, <3>8, SessionSteps, BroughtIn
  <2>2. inbox = <<>> /\ tv.todo = <<>> /\ tv.link = "none" /\ recv # "handle"
    BY <2>1 DEF HandshakeInv, Between, Mailboxes
  <2>3. CASE UNCHANGED <<inbox, tv>>
    BY <2>2, <2>3 DEF Between
  <2>4. CASE NewAttempt \/ Retry
    BY <2>3, <2>4 DEF NewAttempt, Retry
  <2>5. CASE StopDisconnects
    <3>1. Sent([type |-> "STOP", app |-> sess.app]) = tv.todo
      BY <2>2 DEF Sent
    <3>2. tv'.todo = tv.todo /\ tv'.link = tv.link /\ inbox' = inbox
      BY <1>0, <2>5, <3>1 DEF StopDisconnects, TvRecords
    <3> QED
      BY <2>2, <3>2 DEF Between
  <2>6. CASE OtherSenderStarts
    BY <1>0, <2>2, <2>6 DEF OtherSenderStarts, Between, TvRecords
  <2>7. ~(TlsServerLoop \/ TvUserCloses \/ LinkDies \/ OnChannelMessage)
    BY <2>2 DEF TlsServerLoop, TvUserCloses, LinkDies, OnChannelMessage
  <2>8. ~(ConnectTcp \/ ConnectTls \/ AuthenticateDevice \/ AwaitAuth \/ Launch \/ AwaitLaunch
          \/ SendOffer \/ AwaitAnswer \/ StartMedia \/ AttemptFailed \/ Watch \/ Drop \/ HangUp)
    BY <2>1
       DEF ConnectTcp, ConnectTls, AuthenticateDevice, AwaitAuth, Launch, AwaitLaunch, SendOffer,
           AwaitAnswer, StartMedia, AttemptFailed, Watch, Drop, HangUp, At
  <2> QED
    BY <1>2, <2>3, <2>4, <2>5, <2>6, <2>7, <2>8
       DEF Next, Negotiate, Recover, Receive, Heartbeat, Environment, UserStops, ReadMessage, ReadEof,
           ReceiveEnds, ReceiveNotifies, HeartbeatNotifies, NotifyDisconnected, HeartbeatLoop,
           HeartbeatEnds, Pong, Done, vars
<1>3. CASE sess'.pc \notin {"retry", "negotiate"}
  BY <1>3 DEF Between
<1> QED
  BY <1>1, <1>2, <1>3

\* From LAUNCH on, an ANSWER that counts is one to this attempt: Launch clears
\* the flag of an earlier one, and what comes in later is about this attempt.
LEMMA CurrentKept ==
  ASSUME HandshakeInv, Next
  PROVE  Current'
<1>0. sess \in SessRecords /\ Current
  BY DEF HandshakeInv, Types, SessType
<1> DEFINE Late == {"awaitLaunch", "offer", "awaitAnswer", "media", "streaming"}
<1>1. CASE sess'.pc \notin Late
  BY <1>1 DEF Current
<1>2. CASE Launch
  <2>1. sess'.pc = "awaitLaunch" /\ sess'.answered = FALSE
    BY <1>0, <1>2 DEF Launch, FlagsCleared, SessRecords
  <2> QED
    BY <2>1 DEF Current
<1>3. ASSUME /\ sess'.keys = sess.keys /\ sess'.params = sess.params
             /\ sess'.answered = sess.answered /\ sess.pc \in Late
             /\ sess'.pc \in {"media", "streaming"}
                  => sess.answered \/ sess.pc \in {"media", "streaming"}
      PROVE  Current'
  BY <1>0, <1>3 DEF Current
<1>4. CASE AwaitLaunch \/ SendOffer
  BY <1>1, <1>3, <1>4, Moved, Moves DEF AwaitLaunch, SendOffer, Give, At
<1>5. CASE AwaitAnswer
  BY <1>1, <1>3, <1>5, Moved, Moves DEF AwaitAnswer, Give, At
<1>6. CASE StartMedia
  BY <1>3, <1>6, Moves DEF StartMedia, At
<1>7. CASE ConnectTcp \/ ConnectTls \/ AuthenticateDevice \/ AwaitAuth \/ Drop \/ HangUp \/ Release
  BY <1>1, <1>7, Moved
     DEF ConnectTcp, ConnectTls, AuthenticateDevice, AwaitAuth, Drop, HangUp, Release, Give
<1>8. CASE AttemptFailed
  <2>1. CASE sess' = [sess EXCEPT !.pc = "drop", !.stop = TRUE]
    BY <1>0, <1>1, <2>1 DEF SessRecords
  <2>2. CASE Give("hangup")
    BY <1>1, <2>2, Moved DEF Give
  <2> QED
    BY <1>8, <2>1, <2>2 DEF AttemptFailed
<1>9. CASE NewAttempt \/ Retry
  BY <1>0, <1>1, <1>9 DEF NewAttempt, Retry, SessRecords
<1>10. CASE Watch
  <2>1. CASE To("drop")
    BY <1>1, <2>1, Moved
  <2>2. CASE sess' = RequestReconnect(sess, FALSE)
    BY <1>0, <2>2, Reported DEF Current
  <2> QED
    BY <1>10, <2>1, <2>2 DEF Watch
<1>11. CASE OnChannelMessage \/ ReceiveNotifies \/ HeartbeatNotifies \/ UserStops
  BY <1>0, <1>11, BroughtIn DEF Current
<1>12. CASE UNCHANGED sess
  BY <1>0, <1>12 DEF Current
<1> QED
  BY <1>2, <1>4, <1>5, <1>6, <1>7, <1>8, <1>9, <1>10, <1>11, <1>12, SessionSteps

-----------------------------------------------------------------------------
(* The theorems.                                                             *)

\* The invariant holds at the start.
LEMMA HandshakeInit ==
  ASSUME Init
  PROVE  HandshakeInv
<1>1. Types
  BY DEF Init, NoParams, Types, SessType, SessRecords, Params, Places, ChanType, ChanRecords, TvType,
         TvRecords
<1>2. Tried /\ Named /\ Beating
  BY HandshakeAssumption DEF Init, NoParams, Tried, Named, Beating
<1>3. Mailboxes
  BY DEF Init, Mailboxes
<1>4. Between /\ Current
  BY DEF Init, Between, Current
<1> QED
  BY <1>1, <1>2, <1>3, <1>4 DEF HandshakeInv

\* Every step keeps it.
LEMMA HandshakeStep ==
  ASSUME HandshakeInv, ~LateAnswers, [Next]_vars
  PROVE  HandshakeInv'
<1>1. CASE Next
  <2>1. Types'
    BY <1>1, SessTypeKept, ChanTypeKept, TvTypeKept DEF Types
  <2>2. Tried' /\ Named' /\ Beating' /\ Between' /\ Current'
    BY <1>1, TriedKept, NamedKept, BeatingKept, BetweenKept, CurrentKept
  <2>3. Mailboxes'
    BY <1>1, TodoKept, InboxKept DEF Mailboxes
  <2> QED
    BY <2>1, <2>2, <2>3 DEF HandshakeInv
<1>2. CASE UNCHANGED vars
  BY <1>2 DEF vars, HandshakeInv, Types, SessType, ChanType, TvType, Tried, Named, Beating, Mailboxes,
              Between, Current
<1> QED
  BY <1>1, <1>2

\* The invariant bounds and types the state.
LEMMA HandshakeTypes ==
  ASSUME HandshakeInv
  PROVE  TypeOK
<1>1. sess \in SessRecords /\ tv \in TvRecords /\ chan \in ChanRecords
  BY DEF HandshakeInv, Types, SessType, TvType, ChanType
<1>2. sess.pc \in Places /\ sess.keys \in 0..MaxAttempts /\ sess.app \in 0..tv.apps
      /\ sess.params.offer \in 0..sess.keys
  BY <1>1, HandshakeAssumption DEF HandshakeInv, Tried, Named, SessRecords, Params, TvRecords
<1>3. chan.missed \in 0..MissedPongs
  BY <1>1, HandshakeAssumption DEF HandshakeInv, Beating, ChanRecords
<1>4. tv.link \in {"none", "up", "silent", "closed"} /\ tv.app \in 0..tv.apps
  BY <1>1 DEF HandshakeInv, Named, TvRecords
<1>5. Incoming(sess.keys, tv.apps) \subseteq Messages
  BY <1>2 DEF Incoming, Messages
<1>6. Range(inbox) \subseteq Incoming(sess.keys, tv.apps)
  BY DEF HandshakeInv, Mailboxes, Range
<1> QED
  BY <1>2, <1>3, <1>4, <1>5, <1>6 DEF TypeOK, Places, HandshakeInv, Types, ChanType

\* The state of a control connection is well-formed in every cast, for every
\* number of attempts, link faults, missed answers and other senders.
THEOREM HandshakeTypeCorrect ==
  ASSUME ~LateAnswers
  PROVE  Spec => []TypeOK
<1>1. Init => HandshakeInv
  BY HandshakeInit
<1>2. HandshakeInv /\ [Next]_vars => HandshakeInv'
  BY HandshakeStep
<1>3. HandshakeInv => TypeOK
  BY HandshakeTypes
<1> QED
  BY <1>1, <1>2, <1>3, PTL DEF Spec

\* What a session streams was agreed in the TV's answer to the OFFER of this very
\* attempt, with the keys made for it, however often the connection was lost,
\* whatever the channel's threads were doing then, and whoever else used the TV.
\* The premise: an app answers no OFFER of a connection that is gone.
THEOREM HandshakeAnswersThisOffer ==
  ASSUME ~LateAnswers
  PROVE  Spec => []AnswersThisOffer
<1>1. Init => HandshakeInv
  BY HandshakeInit
<1>2. HandshakeInv /\ [Next]_vars => HandshakeInv'
  BY HandshakeStep
<1>3. HandshakeInv => AnswersThisOffer
  BY DEF HandshakeInv, Current, AnswersThisOffer, Streaming
<1> QED
  BY <1>1, <1>2, <1>3, PTL DEF Spec
=============================================================================
