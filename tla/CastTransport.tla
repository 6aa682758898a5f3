--------------------------- MODULE CastTransport ---------------------------
(***************************************************************************)
(* castcore::CastTransport (cast_transport.cc) and the frame ids of        *)
(* RtcpParser (rtcp_parser.cc), for one media stream: a sending thread     *)
(* caches the packets of a frame and sends them, and the receive thread    *)
(* takes the receiver's feedback, drops acknowledged frames from the cache *)
(* and answers NACKs from it.  The network and the receiver are external:  *)
(* datagrams are lost and reordered, feedback is late.                     *)
(*                                                                         *)
(* Pacing, sender reports, statistics, the RTT and the callbacks are left  *)
(* out: pacing and EAGAIN only delay or lose a datagram, as the network    *)
(* does.  The three streams' caches are disjoint.  Ids are natural         *)
(* numbers: no stream lives to wrap 32 bits.                               *)
(***************************************************************************)
EXTENDS Integers, FiniteSets, FiniteSetsExt

CONSTANTS
  FirstFrame, LastFrame,  \* bound: the frames sent; all before are acknowledged
  LastPacket(_),          \* the packets of frame f are 0..LastPacket(f)
  CacheFrames,            \* 30 for video, 50 for audio
  IdRange,                \* 256: ids a feedback's 8 bits distinguish
  AheadLimit,             \* 32: how far ahead a checkpoint is believed
  SuppressFor             \* kRetransmitSuppressMs, in clock steps

ASSUME TransportAssumption ==
  /\ FirstFrame \in Nat /\ LastFrame \in Nat /\ FirstFrame <= LastFrame
  /\ \A f \in FirstFrame..LastFrame : LastPacket(f) \in Nat
  /\ CacheFrames \in Nat \ {0} /\ SuppressFor \in Nat \ {0}
  /\ IdRange \in Nat \ {0} /\ IdRange % 2 = 0
  /\ AheadLimit \in 1..(IdRange \div 2)

VARIABLES
  running,      \* running_
  stopping,     \* Stop: "no", "joining" the receive thread, "done"
  next,         \* the id the encoder gives the next frame
  toSend,       \* packets SendPackets has not sent yet, all of one frame
  cache,        \* packet_cache_[ssrc]: the packets kept for retransmission
  lastSent,     \* last_sent_frame_id_[ssrc], 0 before the first frame
  age,          \* last_retransmit_time_[ssrc]: steps since, SuppressFor is old
  receiver,     \* where ReceiveLoop is: "recv", "ack", "nacks", "ended"
  feedback,     \* the parsed feedback it works on
  resend,       \* RetransmitPacket's to_send
  wire,         \* external: packets sent and not received, late or lost
  got,          \* external: packets the receiver holds
  reports,      \* external: feedback on its way to the sender
  clock         \* history: steps since each packet's latest retransmission

sender == <<next, toSend, lastSent>>
loop == <<receiver, feedback, resend>>
network == <<wire, got, reports>>
vars == <<running, stopping, sender, cache, age, loop, network, clock>>

Frames == FirstFrame..LastFrame
FrameOf(f) == {[frame |-> f, id |-> k] : k \in 0..LastPacket(f)}
Packet == UNION {FrameOf(f) : f \in Frames}
FramesOf(packets) == {p.frame : p \in packets}

WholeFrame == -1  \* packet id 0xFFFF
None == [checkpoint |-> 0, nacks |-> {}]

-----------------------------------------------------------------------------
(* RtcpParser: a feedback carries ids modulo IdRange.                      *)

\* ExpandFrameId.
ExpandFrameId(truncated, reference) ==
  LET candidate == reference - (reference % IdRange) + truncated
      half == IdRange \div 2
  IN IF candidate > reference + half
       THEN IF candidate >= IdRange THEN candidate - IdRange ELSE candidate
       ELSE IF candidate + half < reference THEN candidate + IdRange ELSE candidate

\* Faulty SafeCacheEraseLimit: a checkpoint is believed as it is read.
TrustAnyCheckpoint(checkpoint, last) == checkpoint

\* CastTransport::SafeCacheEraseLimit; 0 keeps the whole cache.
SafeCacheEraseLimit(checkpoint, last) ==
  IF checkpoint = 0 THEN 0
  ELSE IF checkpoint <= last THEN checkpoint
  ELSE IF checkpoint - last > AheadLimit \/ last = 0 THEN 0
  ELSE last - 1

-----------------------------------------------------------------------------
(* The receiver, as Cast feedback describes it.                            *)

\* The last frame up to which the receiver holds everything.
Complete(f) == f < FirstFrame \/ FrameOf(f) \subseteq got
Checkpoint ==
  Max({f \in (FirstFrame - 1)..LastFrame : \A g \in FirstFrame..f : Complete(g)})

\* Packets it misses, of frames it has seen any packet of or before.
Missing ==
  {p \in Packet : p \notin got /\ \E q \in got : q.frame >= p.frame}

Truncate(f) == f % IdRange

\* A loss field names a packet, or with 0xFFFF a frame of which none arrived.
LossFields ==
  {[frame |-> Truncate(p.frame),
    id |-> IF FrameOf(p.frame) \cap got = {} THEN WholeFrame ELSE p.id] : p \in Missing}

-----------------------------------------------------------------------------

TypeOK ==
  /\ running \in BOOLEAN /\ stopping \in {"no", "joining", "done"}
  /\ next \in FirstFrame..(LastFrame + 1)
  /\ toSend \subseteq Packet /\ cache \subseteq Packet
  /\ lastSent \in 0..LastFrame
  /\ DOMAIN age \subseteq Packet /\ \A p \in DOMAIN age : age[p] \in 0..SuppressFor
  /\ receiver \in {"recv", "ack", "nacks", "ended"}
  /\ feedback.checkpoint \in Nat
  /\ resend \subseteq Packet /\ wire \subseteq Packet /\ got \subseteq Packet
  /\ DOMAIN clock \subseteq Packet

\* Start, after the frames before FirstFrame were sent and acknowledged.
Init ==
  /\ running = TRUE /\ stopping = "no"
  /\ next = FirstFrame /\ toSend = {}
  /\ cache = {} /\ age = <<>>
  /\ lastSent = IF FirstFrame = 0 THEN 0 ELSE FirstFrame - 1
  /\ receiver = "recv" /\ feedback = None /\ resend = {}
  /\ wire = {} /\ got = {} /\ reports = {}
  /\ clock = <<>>

\* SendPackets, first part: the frame is cached before any of it is sent, and
\* the oldest frames beyond the bound are dropped.
Newest(packets) ==
  {p \in packets : Cardinality({f \in FramesOf(packets) : f > p.frame}) < CacheFrames}

CacheFrame ==
  /\ running /\ toSend = {} /\ next <= LastFrame
  /\ toSend' = FrameOf(next)
  /\ lastSent' = next
  /\ cache' = Newest(cache \cup FrameOf(next))
  /\ next' = next + 1
  /\ UNCHANGED <<running, stopping, age, loop, network, clock>>

\* One turn of its loop: the next packet goes out.  It gives up once Stop ran.
SendPacket ==
  /\ toSend # {}
  /\ IF running
       THEN LET p == CHOOSE q \in toSend : \A r \in toSend : q.id <= r.id
            IN toSend' = toSend \ {p} /\ wire' = wire \cup {p}
       ELSE toSend' = {} /\ UNCHANGED wire
  /\ UNCHANGED <<running, stopping, next, lastSent, cache, age, loop, got, reports, clock>>

-----------------------------------------------------------------------------

\* ReceiveLoop: a feedback is read and parsed against the latest frame sent.
Receive ==
  /\ receiver = "recv" /\ running
  /\ \E r \in reports :
       /\ reports' = reports \ {r}
       /\ feedback' = [checkpoint |-> ExpandFrameId(r.checkpoint, lastSent),
                       nacks |-> {[frame |-> ExpandFrameId(n.frame, lastSent), id |-> n.id] :
                                    n \in r.nacks}]
  /\ receiver' = "ack"
  /\ UNCHANGED <<running, stopping, sender, cache, age, resend, wire, got, clock>>

\* It drops what the checkpoint acknowledges.  The latest frame is read anew.
Acknowledge ==
  /\ receiver = "ack"
  /\ LET limit == SafeCacheEraseLimit(feedback.checkpoint, lastSent)
         kept(packets) == IF limit > 0 THEN {p \in packets : p.frame > limit} ELSE packets
     IN /\ cache' = kept(cache)
        /\ age' = [p \in kept(DOMAIN age) |-> age[p]]
  /\ receiver' = "nacks"
  /\ UNCHANGED <<running, stopping, sender, feedback, resend, network, clock>>

\* Faulty Due: every NACK is answered.
DueAlways(p) == TRUE

\* RetransmitPacket for one NACK, under cache_mutex_: a cached packet it asks
\* for is due unless it was retransmitted within the suppression window.
Due(p) == p \in DOMAIN age => age[p] >= SuppressFor

\* Faulty RetransmitPacket: 0xFFFF is looked up like any packet id.
AskedById(n) == {p \in cache : p.frame = n.frame /\ n.id = p.id}

Asked(n) == {p \in cache : p.frame = n.frame /\ n.id \in {p.id, WholeFrame}}

Stamp(times, packets, value) ==
  [p \in DOMAIN times \cup packets |-> IF p \in packets THEN value ELSE times[p]]

Select ==
  /\ receiver = "nacks" /\ resend = {}
  /\ \E n \in feedback.nacks :
       /\ feedback' = [feedback EXCEPT !.nacks = @ \ {n}]
       /\ resend' = {p \in Asked(n) : Due(p)}
       /\ age' = Stamp(age, resend', 0)
       /\ clock' = Stamp(clock, resend', 0)
  /\ UNCHANGED <<running, stopping, sender, cache, receiver, network>>

\* RetransmitPacket, under send_mutex_: some of the datagrams get through.
Resend ==
  /\ resend # {}
  /\ IF running
       THEN /\ \E through \in SUBSET resend : got' = got \cup through
            /\ wire' = (wire \cup resend) \ got'
       ELSE UNCHANGED <<wire, got>>
  /\ resend' = {}
  /\ UNCHANGED <<running, stopping, sender, cache, age, receiver, feedback, reports, clock>>

NacksDone ==
  /\ receiver = "nacks" /\ resend = {} /\ feedback.nacks = {}
  /\ receiver' = "recv" /\ feedback' = None
  /\ UNCHANGED <<running, stopping, sender, cache, age, resend, network, clock>>

ReceiveEnds ==
  /\ receiver = "recv" /\ ~running
  /\ receiver' = "ended"
  /\ UNCHANGED <<running, stopping, sender, cache, age, feedback, resend, network, clock>>

\* Stop: running_ is exchanged, the receive thread joined, the cache cleared.
\* Nothing reads the network from here on, and the model forgets it.
Stop ==
  /\ running
  /\ running' = FALSE /\ stopping' = "joining"
  /\ wire' = {} /\ got' = {} /\ reports' = {}
  /\ UNCHANGED <<sender, cache, age, loop, clock>>

Stopped ==
  /\ stopping = "joining" /\ receiver = "ended"
  /\ stopping' = "done"
  /\ cache' = {} /\ age' = <<>> /\ lastSent' = 0
  /\ UNCHANGED <<running, next, toSend, loop, network, clock>>

-----------------------------------------------------------------------------
(* External: time, the network and the receiver.                           *)

Older(times) == [p \in DOMAIN times |-> Min({times[p] + 1, SuppressFor})]

Tick ==
  /\ age' = Older(age) /\ clock' = Older(clock)
  /\ UNCHANGED <<running, stopping, sender, cache, loop, network>>

\* A datagram arrives late, in any order, or never.
Deliver(p) ==
  /\ p \in wire
  /\ wire' = wire \ {p} /\ got' = got \cup {p}
  /\ UNCHANGED <<running, stopping, sender, cache, age, loop, reports, clock>>

\* Feedback names the checkpoint and everything missing.  Bound: one report is
\* on its way at a time; it may be overtaken by any number of frames.
Report ==
  /\ running /\ reports = {} /\ got # {}
  /\ reports' = {[checkpoint |-> Truncate(Checkpoint),
                  nacks |-> LossFields]}
  /\ UNCHANGED <<running, stopping, sender, cache, age, loop, wire, got, clock>>

Next ==
  \/ CacheFrame \/ SendPacket
  \/ Receive \/ Acknowledge \/ Select \/ Resend \/ NacksDone \/ ReceiveEnds
  \/ Stop \/ Stopped
  \/ Tick \/ (\E p \in Packet : Deliver(p)) \/ Report

Spec == Init /\ [][Next]_vars

\* The threads run, time passes, the receiver keeps reporting, and a packet
\* retransmitted again and again gets through at last.
Fairness ==
  /\ WF_vars(SendPacket)
  /\ WF_vars(Receive) /\ WF_vars(Acknowledge) /\ WF_vars(Resend) /\ WF_vars(NacksDone)
  /\ WF_vars(Select) /\ WF_vars(ReceiveEnds) /\ WF_vars(Stopped)
  /\ WF_vars(Tick) /\ WF_vars(Report)
  /\ \A p \in Packet : SF_vars(Resend /\ p \in got' \ got)

FairSpec == Spec /\ Fairness

-----------------------------------------------------------------------------

\* The cache holds no more frames than its bound, whatever the receiver
\* acknowledges (SendPackets: "bound memory").
CacheBounded == Cardinality(FramesOf(cache)) <= CacheFrames

\* While the transport runs, every frame the receiver has not acknowledged can
\* still be retransmitted in full, unless newer frames crowded it out, and the
\* newest one always can: however late the feedback is, and whatever its
\* truncated ids expand to, no frame the receiver lacks is dropped for it.  It
\* is claimed up to the lag at which an old id becomes a believed new one.
UnackedKept ==
  (running /\ next - FirstFrame < IdRange - AheadLimit) =>
    \A f \in FirstFrame..(next - 1) :
      (f > Checkpoint /\ f > lastSent - CacheFrames) => FrameOf(f) \subseteq cache

\* "The newest in-flight frame must never be erased" (SafeCacheEraseLimit).
NewestInFlightKept ==
  (running /\ next > FirstFrame /\ lastSent > Checkpoint) => FrameOf(lastSent) \subseteq cache

\* A packet is not retransmitted twice within the suppression window, however
\* many NACKs, acknowledgements and evictions come between.
Suppressed ==
  [][\A p \in resend' \ resend : p \in DOMAIN clock => clock[p] >= SuppressFor]_vars

\* A lost packet whose frame stays cached reaches the receiver in the end: the
\* window delays repeated NACKs but never silences them.
LossRepaired ==
  \A p \in Packet :
    (running /\ p \in Missing /\ p \in cache) ~> (p \in got \/ p \notin cache \/ ~running)
=============================================================================
