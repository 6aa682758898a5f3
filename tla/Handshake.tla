------------------------------ MODULE Handshake ------------------------------
(***************************************************************************)
(* The control plane of a cast: what CastSession::NegotiateControlPlane    *)
(* and its message handlers say to a TV over a CastChannel, and what the   *)
(* channel's two threads notice about the connection.  CastSession.tla has *)
(* the threads and locks of a session with an anonymous TV; here the TV    *)
(* has a memory.  An attempt is numbered, and its number stands for the    *)
(* keys made for it and for the OFFER that carries them.  The TV is the    *)
(* one tools/fake-receiver plays, plus what a real one does: its user      *)
(* closes the app, another sender takes it over, the link dies.            *)
(***************************************************************************)
EXTENDS Naturals, Sequences, FiniteSets, SequencesExt

CONSTANTS
  Verify,          \* options_.verify_device_cert
  EnableAudio,     \* enable_audio_
  Accepts,         \* the index sets of OFFERed streams a TV may accept
  LateAnswers,     \* the TV's app may answer an OFFER of an earlier connection
  OtherSenders,    \* how often another sender starts mirroring to the TV
  MaxAttempts,     \* bounds the attempts that fit in the recovery window
  MaxFaults,       \* bounds the times the link dies
  MissedPongs      \* heartbeats of 2 s in the 6 s a PONG may take

ASSUME HandshakeAssumption ==
  /\ Verify \in BOOLEAN /\ EnableAudio \in BOOLEAN /\ LateAnswers \in BOOLEAN
  /\ Accepts \subseteq SUBSET (0..1)
  /\ OtherSenders \in Nat /\ MaxAttempts \in Nat \ {0} /\ MaxFaults \in Nat
  /\ MissedPongs \in Nat \ {0}

VARIABLES
  sess,     \* the session's negotiation state and the thread that negotiates
  chan,     \* the CastChannel of the current attempt
  recv,     \* its receive thread
  beat,     \* its heartbeat thread
  inbox,    \* messages from the TV on this connection, not read yet
  tv        \* the TV and the link to it

vars == <<sess, chan, recv, beat, inbox, tv>>

NoParams == [offer |-> 0, app |-> 0, video |-> FALSE, audio |-> FALSE]

Init ==
  /\ sess = [pc |-> "negotiate", keys |-> 0, stop |-> FALSE, recovering |-> FALSE,
             launchSent |-> FALSE, launched |-> FALSE, answered |-> FALSE, refused |-> FALSE,
             app |-> 0, params |-> NoParams]
  /\ chan = [connected |-> FALSE, shouldStop |-> FALSE, notified |-> FALSE,
             auth |-> "none", missed |-> 0]
  /\ recv = "none" /\ beat = "none"
  /\ inbox = <<>>
  /\ tv = [link |-> "none", app |-> 0, apps |-> 0, ours |-> {}, served |-> 0, todo |-> <<>>,
           faults |-> 0, others |-> 0]

----------------------------------------------------------------------------
(* CastChannel                                                             *)

\* Messages reach the TV only over a live link; a dead one swallows them.
Sent(msg) == IF chan.connected /\ tv.link = "up" THEN Append(tv.todo, msg) ELSE tv.todo

\* Faulty HeartbeatTimedOut: a channel known to be down counts as alive.
TimedOutOnlyByPong == chan.connected /\ chan.missed >= MissedPongs

HeartbeatTimedOut == ~chan.connected \/ chan.missed >= MissedPongs

\* Disconnect, up to ReleaseConnection's wait for the two threads.
Disconnected(c) == [c EXCEPT !.connected = FALSE, !.shouldStop = TRUE]

Joined == recv \in {"none", "done"} /\ beat \in {"none", "done"}

\* Whatever the TV had not read when a connection ended is gone, but the
\* app may have read an OFFER it has not answered yet.
Unanswered == IF LateAnswers THEN SelectSeq(tv.todo, LAMBDA m : m.type = "OFFER") ELSE <<>>

ReleaseConnection ==
  /\ inbox' = <<>> /\ recv' = "none" /\ beat' = "none"
  /\ tv' = [tv EXCEPT !.link = "none", !.served = 0, !.todo = Unanswered]

----------------------------------------------------------------------------
(* One attempt: NegotiateControlPlane, then StartStreamingMedia            *)

At(l) == sess.pc = l
To(l) == sess' = [sess EXCEPT !.pc = l]
Give(l) == To(l) /\ UNCHANGED <<chan, recv, beat, inbox, tv>>

NewAttempt ==
  /\ At("negotiate") /\ Joined
  /\ sess' = [sess EXCEPT !.pc = "tcp", !.keys = @ + 1]
  /\ chan' = [connected |-> FALSE, shouldStop |-> FALSE, notified |-> FALSE,
              auth |-> "none", missed |-> 0]
  /\ UNCHANGED <<recv, beat, inbox, tv>>

\* Connect up to the TCP connection: refused, unreachable, or cancelled.
ConnectTcp ==
  /\ At("tcp")
  /\ \/ Give("failed")
     \/ /\ To("tls") /\ chan' = [chan EXCEPT !.shouldStop = FALSE]
        /\ UNCHANGED <<recv, beat, inbox, tv>>

\* The rest of Connect: the TLS handshake, and the two threads it starts.
ConnectTls ==
  /\ At("tls")
  /\ \/ Give("failed")
     \/ /\ To(IF Verify THEN "authenticate" ELSE "launch")
        /\ chan' = [chan EXCEPT !.connected = TRUE, !.notified = FALSE, !.missed = 0]
        /\ recv' = "read" /\ beat' = "wait"
        /\ tv' = [tv EXCEPT !.link = "up"]
        /\ UNCHANGED inbox

AuthenticateDevice ==
  /\ At("authenticate")
  /\ IF chan.connected
     THEN /\ To("awaitAuth")
          /\ chan' = [chan EXCEPT !.auth = "asked"]
          /\ tv' = [tv EXCEPT !.todo = Sent([type |-> "AUTH"])]
          /\ UNCHANGED <<recv, beat, inbox>>
     ELSE Give("failed")

\* Its wait ends with a verdict, because the channel went down, or by timeout:
\* at any moment, as far as the steps of the others go.
AwaitAuth ==
  /\ At("awaitAuth")
  /\ Give(IF chan.auth = "verified" THEN "launch" ELSE "failed")

\* Faulty FlagsCleared: an earlier attempt's ANSWER still counts.
LaunchFlagCleared == [sess EXCEPT !.launched = FALSE, !.refused = FALSE, !.launchSent = TRUE]

\* The flags of an earlier attempt are cleared before LAUNCH goes out.
FlagsCleared ==
  [sess EXCEPT !.launched = FALSE, !.answered = FALSE, !.refused = FALSE, !.launchSent = TRUE]

Launch ==
  /\ At("launch")
  /\ sess' = [FlagsCleared EXCEPT !.pc = "awaitLaunch"]
  /\ tv' = [tv EXCEPT !.todo = Sent([type |-> "LAUNCH"])]
  /\ UNCHANGED <<chan, recv, beat, inbox>>

\* launch_timeout_s may run out at any time before the flag is seen.
AwaitLaunch ==
  /\ At("awaitLaunch")
  /\ Give(IF sess.launched /\ ~sess.stop THEN "offer" ELSE "failed")

SendOffer ==
  /\ At("offer") /\ To("awaitAnswer")
  /\ tv' = [tv EXCEPT !.todo = Sent([type |-> "OFFER", offer |-> sess.keys, app |-> sess.app])]
  /\ UNCHANGED <<chan, recv, beat, inbox>>

AwaitAnswer ==
  /\ At("awaitAnswer")
  /\ Give(IF sess.answered /\ ~sess.stop THEN "media" ELSE "failed")

\* StartStreamingMedia, then Start's or AdaptationLoop's way to Streaming:
\* only a retry closes the recovery window.
StartMedia ==
  /\ At("media")
  /\ \/ Give("failed")
     \/ /\ ~sess.stop
        /\ sess' = [sess EXCEPT !.pc = "streaming",
                                !.recovering = IF sess.keys = 1 THEN @ ELSE FALSE]
        /\ UNCHANGED <<chan, recv, beat, inbox, tv>>

\* A failed first attempt ends the cast (Start stops what it started).
AttemptFailed ==
  /\ At("failed")
  /\ IF sess.keys = 1 THEN /\ sess' = [sess EXCEPT !.pc = "drop", !.stop = TRUE]
                           /\ UNCHANGED <<chan, recv, beat, inbox, tv>>
                      ELSE Give("hangup")

Negotiate == NewAttempt \/ ConnectTcp \/ ConnectTls \/ AuthenticateDevice \/ AwaitAuth \/ Launch
             \/ AwaitLaunch \/ SendOffer \/ AwaitAnswer \/ StartMedia \/ AttemptFailed
----------------------------------------------------------------------------
(* AdaptationLoop: noticing a loss, dropping the connection, retrying      *)

\* The recovery window may have run out when it is looked at; with MaxAttempts
\* tries it has.
HasTimedOut == IF sess.keys >= MaxAttempts THEN {TRUE} ELSE BOOLEAN

\* RequestReconnect opens the window, or ends the cast if it has run out.
RequestReconnect(s, out) ==
  IF s.stop THEN s
  ELSE IF ~s.recovering THEN [s EXCEPT !.recovering = TRUE]
  ELSE [s EXCEPT !.stop = out]

Watch ==
  /\ At("streaming")
  /\ \/ (sess.stop \/ sess.recovering) /\ To("drop")
     \/ /\ ~sess.stop /\ ~sess.recovering /\ HeartbeatTimedOut
        /\ sess' = RequestReconnect(sess, FALSE)
  /\ UNCHANGED <<chan, recv, beat, inbox, tv>>

\* The media and the TV's app are stopped, and the connection cut.
Drop ==
  /\ At("drop") /\ To("release")
  /\ tv' = [tv EXCEPT !.todo = IF sess.app # 0 THEN Sent([type |-> "STOP", app |-> sess.app])
                                              ELSE @]
  /\ chan' = Disconnected(chan)
  /\ UNCHANGED <<recv, beat, inbox>>

\* After a retry that failed the connection is cut, and the app left alone.
HangUp ==
  /\ At("hangup") /\ To("release")
  /\ chan' = Disconnected(chan)
  /\ UNCHANGED <<recv, beat, inbox, tv>>

\* What NotifyDisconnected then reports changes nothing: the window is open
\* or the cast has ended.
Release ==
  /\ At("release") /\ Joined
  /\ To(IF sess.stop THEN "ended" ELSE "retry")
  /\ ReleaseConnection
  /\ UNCHANGED chan

Retry ==
  /\ At("retry")
  /\ \E out \in HasTimedOut :
       sess' = [sess EXCEPT !.pc = IF out \/ sess.stop THEN "ended" ELSE "negotiate",
                            !.stop = @ \/ out]
  /\ UNCHANGED <<chan, recv, beat, inbox, tv>>

Recover == Watch \/ Drop \/ HangUp \/ Release \/ Retry

\* The user's Stop, and the part of Stop that ends a negotiation under way.
UserStops ==
  /\ ~sess.stop /\ sess.pc # "ended"
  /\ sess' = [sess EXCEPT !.stop = TRUE]
  /\ UNCHANGED <<chan, recv, beat, inbox, tv>>

StopDisconnects ==
  /\ sess.stop /\ chan.connected
  /\ tv' = [tv EXCEPT !.todo = IF sess.app # 0 THEN Sent([type |-> "STOP", app |-> sess.app])
                                              ELSE @]
  /\ chan' = Disconnected(chan)
  /\ UNCHANGED <<sess, recv, beat, inbox>>

----------------------------------------------------------------------------
(* The channel's threads                                                   *)

Lives == chan.connected /\ ~chan.shouldStop

\* A message is read while the channel lives and handled whatever happens.
ReadMessage ==
  /\ recv = "read" /\ Lives /\ inbox # <<>>
  /\ recv' = "handle"
  /\ UNCHANGED <<sess, chan, beat, inbox, tv>>

ReadEof ==
  /\ recv = "read" /\ Lives /\ inbox = <<>> /\ tv.link = "closed"
  /\ recv' = "notify" /\ chan' = [chan EXCEPT !.connected = FALSE]
  /\ UNCHANGED <<sess, beat, inbox, tv>>

ReceiveEnds ==
  /\ recv = "read" /\ ~Lives /\ recv' = "done"
  /\ UNCHANGED <<sess, chan, beat, inbox, tv>>

NotifyDisconnected ==
  /\ chan' = [chan EXCEPT !.notified = TRUE]
  /\ \E out \in BOOLEAN : sess' = IF chan.notified THEN sess ELSE RequestReconnect(sess, out)
  /\ UNCHANGED <<inbox, tv>>

ReceiveNotifies == recv = "notify" /\ recv' = "done" /\ UNCHANGED beat /\ NotifyDisconnected

\* Any RECEIVER_STATUS that names a mirroring app, once LAUNCH was ever sent.
HandleReceiverStatus(m) ==
  sess' = IF sess.launchSent /\ m.app # 0
          THEN [sess EXCEPT !.app = m.app, !.launched = TRUE] ELSE sess

\* Index 0 is the audio if audio keys were made; every other one is the video.
ParseAnswer(m) ==
  [offer |-> m.offer, app |-> m.app,
   audio |-> EnableAudio /\ 0 \in m.streams,
   video |-> m.streams \ (IF EnableAudio THEN {0} ELSE {}) # {}]

\* Every OFFER has sequence number 1001, so every ANSWER fits the last one.
HandleAnswer(m) ==
  sess' = IF m.streams = {} THEN [sess EXCEPT !.refused = TRUE]
          ELSE [sess EXCEPT !.params = ParseAnswer(m), !.answered = TRUE]

HandleClose(m) ==
  IF ~sess.stop /\ sess.app # 0 /\ m.app = sess.app
  THEN sess' = [sess EXCEPT !.stop = TRUE]
  ELSE \E out \in BOOLEAN : sess' = RequestReconnect(sess, out)

OnChannelMessage ==
  /\ recv = "handle" /\ recv' = "read" /\ inbox' = Tail(inbox)
  /\ LET m == Head(inbox) IN
     \/ m.type = "AUTH" /\ chan' = [chan EXCEPT !.auth = m.verdict] /\ UNCHANGED sess
     \/ m.type = "STATUS" /\ HandleReceiverStatus(m) /\ UNCHANGED chan
     \/ m.type = "ANSWER" /\ HandleAnswer(m) /\ UNCHANGED chan
     \/ m.type = "CLOSE" /\ HandleClose(m) /\ UNCHANGED chan
  /\ UNCHANGED <<beat, tv>>

Pong ==
  /\ recv = "read" /\ Lives /\ tv.link = "up" /\ chan.missed > 0
  /\ chan' = [chan EXCEPT !.missed = 0]
  /\ UNCHANGED <<sess, recv, beat, inbox, tv>>

\* Every 2 s: PING, and a look at when the last PONG came.
HeartbeatLoop ==
  /\ beat = "wait" /\ Lives
  /\ chan' = [chan EXCEPT !.missed = @ + 1, !.connected = chan.missed + 1 < MissedPongs]
  /\ beat' = IF chan'.connected THEN "wait" ELSE "notify"
  /\ UNCHANGED <<sess, recv, inbox, tv>>

HeartbeatEnds ==
  /\ beat = "wait" /\ ~Lives /\ beat' = "done"
  /\ UNCHANGED <<sess, chan, recv, inbox, tv>>

HeartbeatNotifies == beat = "notify" /\ beat' = "done" /\ UNCHANGED recv /\ NotifyDisconnected

Receive == ReadMessage \/ ReadEof \/ ReceiveEnds \/ ReceiveNotifies \/ OnChannelMessage
Heartbeat == HeartbeatLoop \/ HeartbeatEnds \/ HeartbeatNotifies

----------------------------------------------------------------------------
(* The TV                                                                  *)

Says(msgs) == inbox' = inbox \o msgs

\* The platform and the app each take their requests in order.
Turn == {i \in DOMAIN tv.todo : \A j \in 1..(i - 1) :
           (tv.todo[j].type = "OFFER") # (tv.todo[i].type = "OFFER")}

\* The TV does what m asks; rest is what it has still to do.
TvAnswers(m, rest) ==
  \/ /\ m.type = "AUTH"
     /\ \E v \in {"verified", "refused"} : Says(<<[type |-> "AUTH", verdict |-> v]>>)
     /\ tv' = [tv EXCEPT !.todo = rest]
  \/ /\ m.type = "LAUNCH"
     \* An instance that is still there from an earlier attempt may be kept.
     /\ \E a \in {tv.apps + 1} \cup ({tv.app} \cap tv.ours) :
          /\ tv' = [tv EXCEPT !.todo = rest, !.app = a, !.ours = @ \cup {a},
                              !.apps = IF a > @ THEN a ELSE @]
          /\ Says(<<[type |-> "STATUS", app |-> a]>>)
  \/ /\ m.type = "OFFER"
     /\ tv' = [tv EXCEPT !.todo = rest, !.served = IF m.app = tv.app THEN m.app ELSE @]
     /\ IF m.app = tv.app
        THEN \E s \in Accepts \cup {{}} :
               Says(<<[type |-> "ANSWER", offer |-> m.offer, app |-> m.app, streams |-> s]>>)
        ELSE UNCHANGED inbox
  \/ /\ m.type = "STOP" /\ UNCHANGED inbox
     /\ tv' = [tv EXCEPT !.todo = rest, !.app = IF m.app = @ THEN 0 ELSE @]

TlsServerLoop ==
  /\ tv.link = "up" /\ \E i \in Turn : TvAnswers(tv.todo[i], RemoveAt(tv.todo, i))
  /\ UNCHANGED <<sess, chan, recv, beat>>

\* An app that closes says so to the senders that have joined it.
Farewell == IF tv.app # 0 /\ tv.served = tv.app THEN <<[type |-> "CLOSE", app |-> tv.app]>>
                                               ELSE <<>>

\* Back on the TV's remote.
TvUserCloses ==
  /\ tv.link = "up" /\ tv.app \in tv.ours
  /\ tv' = [tv EXCEPT !.app = 0] /\ Says(Farewell)
  /\ UNCHANGED <<sess, chan, recv, beat>>

\* Another sender starts the same mirroring app: everyone connected hears of
\* it, and the instance it replaces closes.
OtherSenderStarts ==
  /\ tv.others < OtherSenders
  /\ tv' = [tv EXCEPT !.app = tv.apps + 1, !.apps = @ + 1, !.others = @ + 1]
  /\ LET status == <<[type |-> "STATUS", app |-> tv.apps + 1]>>
     IN IF tv.link = "up" THEN Says(Farewell \o status) \/ Says(status \o Farewell)
                          ELSE UNCHANGED inbox
  /\ UNCHANGED <<sess, chan, recv, beat>>

LinkDies ==
  /\ tv.link = "up" /\ tv.faults < MaxFaults
  /\ \E l \in {"silent", "closed"} : tv' = [tv EXCEPT !.link = l, !.faults = @ + 1]
  /\ UNCHANGED <<sess, chan, recv, beat, inbox>>

Environment == TlsServerLoop \/ TvUserCloses \/ OtherSenderStarts \/ LinkDies

Done == sess.pc = "ended" /\ UNCHANGED vars

Next == Negotiate \/ Recover \/ Receive \/ Heartbeat \/ Pong \/ UserStops \/ StopDisconnects
        \/ Environment \/ Done

Spec == Init /\ [][Next]_vars

\* The session's thread and the channel's two run; what the TV, its user and
\* the network do is up to them.
FairSpec == /\ Spec /\ WF_vars(Negotiate) /\ WF_vars(Recover) /\ WF_vars(Receive)
            /\ WF_vars(Heartbeat)

----------------------------------------------------------------------------
(* Properties                                                              *)

Messages == [type : {"AUTH"}, verdict : {"verified", "refused"}]
            \cup [type : {"STATUS", "CLOSE"}, app : 0..tv.apps]
            \cup [type : {"ANSWER"}, offer : 0..MaxAttempts, app : 0..tv.apps,
                  streams : SUBSET (0..1)]

TypeOK ==
  /\ sess.pc \in {"negotiate", "tcp", "tls", "authenticate", "awaitAuth", "launch", "awaitLaunch",
                   "offer", "awaitAnswer", "media", "streaming", "failed", "drop", "hangup",
                   "release", "retry", "ended"}
  /\ sess.keys \in 0..MaxAttempts /\ sess.app \in 0..tv.apps
  /\ sess.params.offer \in 0..sess.keys
  /\ chan.missed \in 0..MissedPongs
  /\ recv \in {"none", "read", "handle", "notify", "done"}
  /\ beat \in {"none", "wait", "notify", "done"}
  /\ Range(inbox) \subseteq Messages
  /\ tv.link \in {"none", "up", "silent", "closed"} /\ tv.app \in 0..tv.apps

Streaming == sess.pc = "streaming"

\* The ANSWER a stream runs on is the TV's answer to the OFFER of this very
\* attempt, so the keys it encrypts with are the keys the TV decrypts with: no
\* flag and no message of an earlier attempt is taken for it, whatever the
\* channel's threads were doing when that attempt ended.  A TV that answers an
\* OFFER of a connection that is gone (LateAnswers) is not covered.
AnswersThisOffer == Streaming => sess.params.offer = sess.keys

\* A TV that hangs up or falls silent does not go unnoticed (docs/ARCHITECTURE.md:
\* "Heartbeat miss -> reconnect"), not even when the loss comes while a retry
\* is completing, whose report the open recovery window swallows.
LossNoticed == (Streaming /\ tv.link \in {"silent", "closed"}) ~> ~Streaming

\* "only ones after this point can confirm our launch" (cast_session.cc,
\* NegotiateControlPlane): the app a stream runs to is one this sender launched.
LaunchIsOurs == Streaming => sess.params.app \in tv.ours

\* "The mirroring app itself closed (Back on the TV remote, another app took
\* over). Relaunching would fight the user, so end the cast." (OnChannelMessage)
CloseEnds ==
  [][recv = "handle" /\ recv' = "read" /\ Head(inbox).type = "CLOSE"
     /\ Head(inbox).app = sess.params.app => sess'.stop]_vars

\* "ANSWER as source of truth" (docs/ARCHITECTURE.md, capabilities): what is
\* streamed, the video always and the audio if it is enabled, was accepted.
StreamsAccepted ==
  Streaming => sess.params.video /\ (EnableAudio => sess.params.audio)

\* STOP names an app this sender launched, never another sender's.
StopsOwnApp ==
  \A i \in DOMAIN tv.todo : tv.todo[i].type = "STOP" => tv.todo[i].app \in tv.ours
=============================================================================
