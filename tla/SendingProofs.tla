--------------------------- MODULE SendingProofs ---------------------------
(***************************************************************************)
(* What is sent and how much.  CastTransport: what the receiver lacks can  *)
(* be sent again, and nothing is sent again within the suppression window, *)
(* for any number and size of frames, any bound of the cache, any range of *)
(* truncated ids and any network.  AdaptiveController: the bitrate bounds  *)
(* and the hysteresis of its recovery, for every display, every window the *)
(* feedback can add up to and every slider position.                       *)
(***************************************************************************)
EXTENDS CastTransport, AdaptiveController, FiniteSetTheorems, WellFoundedInduction, TLAPS

-----------------------------------------------------------------------------
(* The transport.                                                          *)

\* The largest frame up to which the packets of G are complete.
Upto(G) ==
  Max({f \in (FirstFrame - 1)..LastFrame :
         \A g \in FirstFrame..f : g < FirstFrame \/ FrameOf(g) \subseteq G})

\* The lag up to which an old id is not taken for a new one.
Close == next - FirstFrame < IdRange - AheadLimit

\* A feedback is a record.
Formed ==
  /\ feedback = [checkpoint |-> feedback.checkpoint, nacks |-> feedback.nacks]
  /\ \A r \in reports : r.checkpoint \in Nat

\* Nothing is anywhere of a frame that was not made.
MadeBefore(packets) == \A p \in packets : p.frame < next
OnlyMade == MadeBefore(cache) /\ MadeBefore(got) /\ MadeBefore(wire) /\ MadeBefore(toSend)
            /\ MadeBefore(resend) /\ MadeBefore(DOMAIN clock)

\* Until Stop the id recorded is the one of the latest frame.
Halted == stopping # "no" => ~running
Latest == running => lastSent = IF next = 0 THEN 0 ELSE next - 1

\* What the receiver told the sender is true, and stays so while it receives.
Told ==
  running => \A r \in reports :
               \E c \in (FirstFrame - 1)..Checkpoint : r.checkpoint = Truncate(c)
HeardRight ==
  running /\ receiver = "ack" /\ Close =>
    \E c \in (FirstFrame - 1)..Checkpoint : feedback.checkpoint \in {c, c + IdRange}

\* While a packet is cached its time is the time since it was last sent again.
Timed == \A p \in cache \cap DOMAIN clock : p \in DOMAIN age /\ age[p] = clock[p]

TransportInv ==
  TypeOK /\ Formed /\ OnlyMade /\ Halted /\ Latest /\ Told /\ HeardRight /\ UnackedKept /\ Timed

-----------------------------------------------------------------------------
(* Numbers.                                                                  *)

\* A finite set of integers that is not empty has a largest element.
LEMMA LargestExists ==
  ASSUME NEW S \in SUBSET Int, IsFiniteSet(S), S # {}
  PROVE  Max(S) \in S /\ \A y \in S : Max(S) >= y
<1> DEFINE Above(x) == {y \in S : y > x}
           T == {Above(x) : x \in S}
<1>1. IsWellFoundedOn(StrictSubsetOrdering(S), SUBSET S)
  BY FS_StrictSubsetOrderingWellFounded, FS_FiniteSubsetsOfFinite
<1>2. T \subseteq SUBSET S /\ T # {}
  OBVIOUS
<1>3. PICK a \in T : \A b \in T : ~(<<b, a>> \in StrictSubsetOrdering(S))
  <2> HIDE DEF T
  <2> QED
    BY <1>1, <1>2, WFMin
<1>4. PICK x \in S : a = Above(x)
  BY <1>3
<1>5. \A y \in S : x >= y
  <2>1. SUFFICES ASSUME NEW y \in S, y > x PROVE FALSE
    OBVIOUS
  <2>2. <<Above(y), Above(x)>> \in StrictSubsetOrdering(S)
    <3>0. y \in Int /\ x \in Int /\ \A z \in S : z \in Int
      OBVIOUS
    <3>1. \A z \in S : z > y => z > x
      BY <2>1, <3>0
    <3>2. Above(y) \subseteq Above(x) /\ y \in Above(x)
      BY <2>1, <3>1
    <3>3. y \notin Above(y)
      BY <3>0
    <3> QED
      BY <3>2, <3>3 DEF StrictSubsetOrdering
  <2> QED
    BY <1>3, <1>4, <2>2
<1> QED
  BY <1>5 DEF Max

\* A set of natural numbers that is not empty has a smallest element.
LEMMA SmallestExists ==
  ASSUME NEW S \in SUBSET Nat, S # {}
  PROVE  \E x \in S : \A y \in S : x <= y
<1>1. PICK a \in S : TRUE
  OBVIOUS
<1> DEFINE T == {d \in 0..a : a - d \in S}
<1>2. T \in SUBSET Int /\ IsFiniteSet(T) /\ 0 \in T
  <2>1. IsFiniteSet(0..a)
    BY FS_Interval
  <2>2. T \subseteq 0..a /\ T \subseteq Int /\ 0 \in T
    OBVIOUS
  <2> HIDE DEF T
  <2> QED
    BY <2>1, <2>2, FS_Subset
<1>3. Max(T) \in T /\ \A d \in T : Max(T) >= d
  <2> HIDE DEF T
  <2> QED
    BY <1>2, LargestExists
<1> DEFINE x == a - Max(T)
<1>4. x \in S
  BY <1>3
<1>5. ASSUME NEW y \in S PROVE x <= y
  <2>1. CASE y > a
    BY <1>3, <2>1
  <2>2. CASE y <= a
    <3>1. a - y \in T
      BY <2>2
    <3>2. Max(T) >= a - y /\ Max(T) \in Int
      BY <1>3, <3>1
    <3> QED
      BY <3>2
  <2> QED
    BY <2>1, <2>2
<1> QED
  BY <1>4, <1>5

\* Division with remainder.
LEMMA DivMod ==
  ASSUME NEW n \in Nat \ {0}, NEW x \in Int
  PROVE  x % n \in 0..(n - 1) /\ x = n * (x \div n) + (x % n) /\ x \div n \in Int
OBVIOUS

\* Two numbers less than n apart lie in the same block of n or in neighbouring ones.
LEMMA SameOrNext ==
  ASSUME NEW n \in Nat \ {0}, NEW p \in Int, NEW q \in Int, NEW s \in 0..(n-1), NEW t \in 0..(n-1),
         (n*p + s) - (n*q + t) \in 0..(n-1)
  PROVE  n*p = n*q \/ n*p = n*q + n
<1>1. CASE p < q
  <2>1. n * (q - p) >= n
    BY <1>1
  <2> QED
    BY <2>1
<1>2. CASE p = q
  BY <1>2
<1>3. CASE p = q + 1
  BY <1>3
<1>4. CASE p > q + 1
  <2>1. n * (p - q) >= n * 2
    BY <1>4
  <2> QED
    BY <2>1
<1> QED
  BY <1>1, <1>2, <1>3, <1>4

\* What ExpandFrameId makes of the 8 bits of an id that lags behind the reference
\* by less than their range: that id, or the one a whole range later.
LEMMA Expanded ==
  ASSUME NEW c \in Int, NEW r \in Nat, c <= r, r - c < IdRange
  PROVE  ExpandFrameId(Truncate(c), r) \in {c, c + IdRange}
<1> DEFINE n == IdRange
           h == n \div 2
           t == c % n
           s == r % n
<1>1. n \in Nat \ {0} /\ n = 2 * h /\ h \in Nat
  BY TransportAssumption
<1>2. /\ t \in 0..(n - 1) /\ s \in 0..(n - 1)
      /\ c = n * (c \div n) + t /\ r = n * (r \div n) + s
      /\ c \div n \in Int /\ r \div n \in Int
  BY <1>1, DivMod
<1>3. r - s + t = c \/ r - s + t = c + n
  <2> DEFINE p == r \div n
             q == c \div n
  <2>1. (n*p + s) - (n*q + t) \in 0..(n-1)
    BY <1>1, <1>2
  <2> HIDE DEF p, q, s, t, n
  <2>2. n*p = n*q \/ n*p = n*q + n
    BY <1>1, <1>2, <2>1, SameOrNext DEF p, q
  <2>3. r = n*p + s /\ c = n*q + t /\ n*p \in Int /\ n*q \in Int
    BY <1>1, <1>2 DEF p, q
  <2> QED
    BY <1>1, <1>2, <2>2, <2>3
<1>4. ExpandFrameId(Truncate(c), r) =
        IF r - s + t > r + h THEN IF r - s + t >= n THEN r - s + t - n ELSE r - s + t
        ELSE IF r - s + t + h < r THEN r - s + t + n ELSE r - s + t
  BY <1>1, <1>2 DEF ExpandFrameId, Truncate
<1> DEFINE k == r - s + t
<1>5. k \in Int /\ (k = c \/ k = c + n)
  BY <1>1, <1>2, <1>3
<1> HIDE DEF s, t, h, n, k
<1>6. ExpandFrameId(Truncate(c), r) = IF k > r + h THEN IF k >= n THEN k - n ELSE k
                                      ELSE IF k + h < r THEN k + n ELSE k
  BY <1>1, <1>2, <1>4 DEF k
<1>7. c <= r /\ r - c < n /\ n = IdRange
  BY DEF n
<1>8. CASE k = c
  BY <1>1, <1>5, <1>6, <1>7, <1>8
<1>9. CASE k = c + n
  BY <1>1, <1>5, <1>6, <1>7, <1>9
<1> QED
  BY <1>5, <1>8, <1>9

\* It is a natural number whatever it is made of.
LEMMA ExpandedNat ==
  ASSUME NEW t \in Nat, NEW r \in Nat
  PROVE  ExpandFrameId(t, r) \in Nat
<1>1. r % IdRange \in Nat /\ r % IdRange <= r /\ IdRange \in Nat /\ IdRange \div 2 \in Nat
  BY TransportAssumption
<1>2. r - (r % IdRange) + t \in Nat
  BY <1>1
<1> QED
  BY <1>1, <1>2 DEF ExpandFrameId

\* The smaller of two numbers.
LEMMA Smaller ==
  ASSUME NEW a \in Nat, NEW b \in Nat
  PROVE  Min({a, b}) \in {a, b} /\ Min({a, b}) <= a /\ Min({a, b}) <= b
<1>1. \E x \in {a, b} : \A y \in {a, b} : x <= y
  OBVIOUS
<1> QED
  BY <1>1 DEF Min

-----------------------------------------------------------------------------
(* The checkpoint.                                                           *)

\* Upto is what its name says.
LEMMA UptoIs ==
  ASSUME NEW G
  PROVE  /\ Upto(G) \in (FirstFrame - 1)..LastFrame
         /\ \A g \in FirstFrame..Upto(G) : FrameOf(g) \subseteq G
         /\ \A f \in (FirstFrame - 1)..LastFrame :
              (\A g \in FirstFrame..f : FrameOf(g) \subseteq G) => f <= Upto(G)
<1> DEFINE S == {f \in (FirstFrame - 1)..LastFrame :
                   \A g \in FirstFrame..f : g < FirstFrame \/ FrameOf(g) \subseteq G}
<1>1. FirstFrame \in Nat /\ LastFrame \in Nat /\ FirstFrame <= LastFrame
  BY TransportAssumption
<1>2. S \in SUBSET Int /\ S \subseteq (FirstFrame - 1)..LastFrame
  BY <1>1
<1>3. IsFiniteSet(S)
  <2>1. IsFiniteSet((FirstFrame - 1)..LastFrame)
    BY <1>1, FS_Interval
  <2> HIDE DEF S
  <2> QED
    BY <1>2, <2>1, FS_Subset
<1>4. FirstFrame - 1 \in S
  BY <1>1
<1>5. Max(S) \in S /\ \A y \in S : Max(S) >= y
  BY <1>2, <1>3, <1>4, LargestExists
<1>6. Upto(G) = Max(S)
  BY DEF Upto
<1> QED
  BY <1>1, <1>5, <1>6

\* It grows with the packets.
LEMMA UptoGrows ==
  ASSUME NEW G, NEW H, G \subseteq H
  PROVE  Upto(G) <= Upto(H)
BY UptoIs

\* The checkpoint is made of the packets the receiver holds.
LEMMA CheckpointIs ==
  Checkpoint = Upto(got) /\ Checkpoint' = Upto(got')
BY DEF Checkpoint, Upto, Complete

\* It does not pass what was made.
LEMMA CheckpointBelow ==
  ASSUME NEW n \in FirstFrame..(LastFrame + 1), NEW G, \A p \in G : p.frame < n
  PROVE  Upto(G) < n
<1>1. FirstFrame \in Nat /\ LastFrame \in Nat
  BY TransportAssumption
<1>2. CASE Upto(G) < FirstFrame
  BY <1>1, <1>2, UptoIs
<1>3. CASE Upto(G) >= FirstFrame
  <2> DEFINE g == Upto(G)
             p == [frame |-> g, id |-> 0]
  <2>1. g \in FirstFrame..LastFrame /\ FrameOf(g) \subseteq G
    BY <1>1, <1>3, UptoIs
  <2> HIDE DEF g
  <2>2. p \in FrameOf(g)
    BY <2>1, TransportAssumption DEF FrameOf
  <2>3. p.frame < n
    BY <2>1, <2>2
  <2> QED
    BY <2>3 DEF g
<1> QED
  BY <1>1, <1>2, <1>3, UptoIs

-----------------------------------------------------------------------------
(* Types.                                                                    *)

\* The packets of a frame are packets.
LEMMA FrameOfType ==
  ASSUME NEW f \in Frames
  PROVE  FrameOf(f) \subseteq Packet /\ \A p \in FrameOf(f) : p.frame = f
BY DEF FrameOf, Packet

\* A frame is a number.
LEMMA PacketFrame ==
  ASSUME NEW p \in Packet
  PROVE  p.frame \in FirstFrame..LastFrame /\ p.frame \in Nat
BY TransportAssumption DEF Packet, FrameOf, Frames

\* One of the packets that wait goes out.
LEMMA OnePacketSent ==
  ASSUME TypeOK, SendPacket, running
  PROVE  \E p \in toSend : toSend' = toSend \ {p} /\ wire' = wire \cup {p}
<1>1. \A p \in toSend : p.id \in Nat
  BY TransportAssumption DEF TypeOK, Packet, FrameOf, Frames
<1>2. toSend # {}
  BY DEF SendPacket
<1>3. \E q \in toSend : \A r \in toSend : q.id <= r.id
  <2> DEFINE Numbers == {q.id : q \in toSend}
  <2>1. Numbers \in SUBSET Nat /\ Numbers # {}
    BY <1>1, <1>2
  <2>2. PICK x \in Numbers : \A y \in Numbers : x <= y
    <3> HIDE DEF Numbers
    <3> QED
      BY <2>1, SmallestExists
  <2> QED
    BY <2>2
<1>4. (CHOOSE q \in toSend : \A r \in toSend : q.id <= r.id) \in toSend
  BY <1>3
<1> QED
  BY <1>4 DEF SendPacket

\* Retransmission times grow up to the window.
LEMMA OlderType ==
  ASSUME NEW times, \A p \in DOMAIN times : times[p] \in 0..SuppressFor
  PROVE  /\ DOMAIN Older(times) = DOMAIN times
         /\ \A p \in DOMAIN times : /\ Older(times)[p] \in 0..SuppressFor
                                    /\ Older(times)[p] = Min({times[p] + 1, SuppressFor})
<1>1. ASSUME NEW n \in 0..SuppressFor PROVE Min({n + 1, SuppressFor}) \in 0..SuppressFor
  BY Smaller, TransportAssumption
<1> QED
  BY <1>1 DEF Older

\* Every step keeps the types.
LEMMA TypeKept ==
  ASSUME TransportInv, Next
  PROVE  TypeOK' /\ Formed'
<1>0. TypeOK /\ Formed
  BY DEF TransportInv
<1>a. /\ FirstFrame \in Nat /\ LastFrame \in Nat /\ FirstFrame <= LastFrame
      /\ SuppressFor \in Nat \ {0} /\ IdRange \in Nat \ {0}
  BY TransportAssumption
<1>1. CASE CacheFrame
  <2>1. next \in Frames /\ next \in Nat /\ next + 1 \in FirstFrame..(LastFrame + 1)
    BY <1>0, <1>1, <1>a DEF CacheFrame, TypeOK, Frames
  <2>2. FrameOf(next) \subseteq Packet
    BY <2>1, FrameOfType
  <2>3. Newest(cache \cup FrameOf(next)) \subseteq Packet
    BY <1>0, <2>2 DEF Newest, TypeOK
  <2>4. next \in 0..LastFrame
    BY <1>a, <2>1 DEF Frames
  <2> QED
    BY <1>0, <1>1, <2>1, <2>2, <2>3, <2>4
       DEF CacheFrame, TypeOK, Formed, loop, network
<1>2. CASE SendPacket
  <2>1. CASE running
    <3>1. PICK p \in toSend : toSend' = toSend \ {p} /\ wire' = wire \cup {p}
      BY <1>0, <1>2, <2>1, OnePacketSent
    <3> QED
      BY <1>0, <1>2, <3>1 DEF SendPacket, TypeOK, Formed, loop
  <2>2. CASE ~running
    BY <1>0, <1>2, <2>2 DEF SendPacket, TypeOK, Formed, loop
  <2> QED
    BY <2>1, <2>2
<1>3. CASE Receive
  <2>1. PICK r \in reports :
          /\ reports' = reports \ {r}
          /\ feedback' = [checkpoint |-> ExpandFrameId(r.checkpoint, lastSent),
                          nacks |-> {[frame |-> ExpandFrameId(n.frame, lastSent), id |-> n.id] :
                                       n \in r.nacks}]
    BY <1>3 DEF Receive
  <2>2. ExpandFrameId(r.checkpoint, lastSent) \in Nat
    BY <1>0, ExpandedNat DEF Formed, TypeOK
  <2> QED
    BY <1>0, <1>3, <2>1, <2>2 DEF Receive, TypeOK, Formed, sender
<1>4. CASE Acknowledge
  BY <1>0, <1>4 DEF Acknowledge, TypeOK, Formed, sender, network
<1>5. CASE Select
  <2>1. PICK n \in feedback.nacks :
          /\ feedback' = [feedback EXCEPT !.nacks = feedback.nacks \ {n}]
          /\ resend' = {p \in Asked(n) : Due(p)}
          /\ age' = Stamp(age, resend', 0)
          /\ clock' = Stamp(clock, resend', 0)
    BY <1>5 DEF Select
  <2>2. feedback' = [checkpoint |-> feedback.checkpoint, nacks |-> feedback.nacks \ {n}]
    BY <1>0, <2>1 DEF Formed
  <2>3. resend' \subseteq Packet
    BY <1>0, <2>1 DEF Asked, TypeOK
  <2>4. /\ DOMAIN age' = DOMAIN age \cup resend' /\ DOMAIN clock' = DOMAIN clock \cup resend'
        /\ \A p \in DOMAIN age' : age'[p] = IF p \in resend' THEN 0 ELSE age[p]
    BY <2>1 DEF Stamp
  <2>5. \A p \in DOMAIN age' : age'[p] \in 0..SuppressFor
    BY <1>0, <1>a, <2>4 DEF TypeOK
  <2> QED
    BY <1>0, <1>5, <2>2, <2>3, <2>4, <2>5 DEF Select, TypeOK, Formed, sender, network
<1>6. CASE Resend
  BY <1>0, <1>6 DEF Resend, TypeOK, Formed, sender
<1>7. CASE NacksDone
  BY <1>0, <1>7 DEF NacksDone, None, TypeOK, Formed, sender, network
<1>8. CASE ReceiveEnds
  BY <1>0, <1>8 DEF ReceiveEnds, TypeOK, Formed, sender, network
<1>9. CASE Stop
  BY <1>0, <1>9 DEF Stop, TypeOK, Formed, sender, loop
<1>10. CASE Stopped
  BY <1>0, <1>10, <1>a DEF Stopped, TypeOK, Formed, loop, network
<1>11. CASE Tick
  <2>1. /\ DOMAIN age' = DOMAIN age /\ DOMAIN clock' = DOMAIN clock
        /\ \A p \in DOMAIN age' : age'[p] \in 0..SuppressFor
    BY <1>0, <1>11, OlderType DEF Tick, Older, TypeOK
  <2> QED
    BY <1>0, <1>11, <2>1 DEF Tick, TypeOK, Formed, sender, loop, network
<1>12. CASE \E p \in Packet : Deliver(p)
  BY <1>0, <1>12 DEF Deliver, TypeOK, Formed, sender, loop
<1>13. CASE Report
  <2>1. Truncate(Checkpoint) \in Nat
    BY <1>a, UptoIs, CheckpointIs DEF Truncate
  <2> QED
    BY <1>0, <1>13, <2>1 DEF Report, TypeOK, Formed, sender, loop
<1> QED
  BY <1>1, <1>2, <1>3, <1>4, <1>5, <1>6, <1>7, <1>8, <1>9, <1>10, <1>11, <1>12, <1>13 DEF Next

-----------------------------------------------------------------------------
(* What was made, sent and told.                                             *)

\* The numbers in the state.
LEMMA Numbers ==
  ASSUME TransportInv
  PROVE  /\ FirstFrame \in Nat /\ LastFrame \in Nat /\ FirstFrame <= LastFrame
         /\ next \in Nat /\ next \in FirstFrame..(LastFrame + 1) /\ lastSent \in Nat
         /\ IdRange \in Nat \ {0} /\ AheadLimit \in Nat \ {0} /\ CacheFrames \in Nat \ {0}
         /\ Checkpoint \in Int /\ Checkpoint < next /\ FirstFrame - 1 <= Checkpoint
         /\ \A f \in FirstFrame..Checkpoint : FrameOf(f) \subseteq got
<1>1. /\ FirstFrame \in Nat /\ LastFrame \in Nat /\ FirstFrame <= LastFrame
      /\ IdRange \in Nat \ {0} /\ AheadLimit \in Nat \ {0} /\ CacheFrames \in Nat \ {0}
  BY TransportAssumption
<1>2. next \in Nat /\ next \in FirstFrame..(LastFrame + 1) /\ lastSent \in Nat
  BY <1>1 DEF TransportInv, TypeOK
<1>3. Checkpoint < next
  BY <1>2, CheckpointBelow, CheckpointIs DEF TransportInv, OnlyMade, MadeBefore
<1> QED
  BY <1>1, <1>2, <1>3, UptoIs, CheckpointIs

\* Nothing appears of a frame before CacheFrame makes it.
LEMMA OnlyMadeKept ==
  ASSUME TransportInv, Next
  PROVE  OnlyMade' /\ next <= next'
<1>0. OnlyMade /\ TypeOK /\ next \in Nat /\ next <= LastFrame + 1 /\ LastFrame \in Nat
  BY Numbers DEF TransportInv
<1>1. CASE CacheFrame
  <2>1. next' = next + 1 /\ next \in Frames
    BY <1>0, <1>1 DEF CacheFrame, TypeOK, Frames
  <2>2. \A p \in FrameOf(next) : p.frame = next
    BY <2>1, FrameOfType
  <2>3. ASSUME NEW S, S \subseteq Packet, MadeBefore(S) PROVE \A p \in S : p.frame < next + 1
    BY <1>0, <2>3, PacketFrame DEF MadeBefore
  <2>4. cache' \subseteq cache \cup FrameOf(next)
    BY <1>1 DEF CacheFrame, Newest
  <2>5. \A p \in cache' : p.frame < next + 1
    BY <1>0, <2>2, <2>3, <2>4 DEF OnlyMade, TypeOK
  <2>6. \A p \in toSend' : p.frame < next + 1
    BY <1>0, <1>1, <2>2 DEF CacheFrame
  <2>7. /\ \A p \in got : p.frame < next + 1
        /\ \A p \in wire : p.frame < next + 1
        /\ \A p \in resend : p.frame < next + 1
        /\ \A p \in DOMAIN clock : p.frame < next + 1
    BY <1>0, <2>3 DEF OnlyMade, TypeOK
  <2>8. MadeBefore(cache)' /\ MadeBefore(toSend)'
    BY <2>1, <2>5, <2>6 DEF MadeBefore
  <2>9. UNCHANGED <<got, wire, resend, clock>>
    BY <1>1 DEF CacheFrame, loop, network
  <2>10. MadeBefore(got)' /\ MadeBefore(wire)' /\ MadeBefore(resend)' /\ MadeBefore(DOMAIN clock)'
    BY <2>1, <2>7, <2>9 DEF MadeBefore
  <2> QED
    BY <1>0, <2>1, <2>8, <2>10 DEF OnlyMade
<1>2. ASSUME next' = next,
             cache' \subseteq cache, toSend' \subseteq toSend,
             resend' \subseteq resend \cup cache,
             got' \subseteq got \cup wire \cup resend, wire' \subseteq wire \cup toSend \cup resend,
             DOMAIN clock' \subseteq DOMAIN clock \cup cache
      PROVE  OnlyMade' /\ next <= next'
  BY <1>0, <1>2 DEF OnlyMade, MadeBefore
<1>3. CASE SendPacket
  <2>1. CASE running
    BY <1>0, <1>2, <1>3, <2>1, OnePacketSent DEF SendPacket, loop
  <2>2. CASE ~running
    BY <1>2, <1>3, <2>2 DEF SendPacket, loop
  <2> QED
    BY <2>1, <2>2
<1>4. CASE Receive
  BY <1>2, <1>4 DEF Receive, sender
<1>5. CASE Acknowledge
  BY <1>2, <1>5 DEF Acknowledge, sender, network
<1>6. CASE Select
  <2>1. resend' \subseteq cache /\ DOMAIN clock' = DOMAIN clock \cup resend'
    BY <1>6 DEF Select, Asked, Stamp
  <2> QED
    BY <1>2, <1>6, <2>1 DEF Select, sender, network
<1>7. CASE Resend
  BY <1>2, <1>7 DEF Resend, sender
<1>8. CASE NacksDone \/ ReceiveEnds
  BY <1>2, <1>8 DEF NacksDone, ReceiveEnds, sender, network
<1>9. CASE Stop \/ Stopped
  BY <1>2, <1>9 DEF Stop, Stopped, sender, loop, network
<1>10. CASE Tick
  BY <1>2, <1>10 DEF Tick, Older, sender, loop, network
<1>11. CASE (\E p \in Packet : Deliver(p)) \/ Report
  BY <1>2, <1>11 DEF Deliver, Report, sender, loop
<1> QED
  BY <1>1, <1>3, <1>4, <1>5, <1>6, <1>7, <1>8, <1>9, <1>10, <1>11 DEF Next

\* The id recorded is the one of the latest frame until Stop.
LEMMA LatestKept ==
  ASSUME TransportInv, Next
  PROVE  Latest' /\ Halted' /\ (running' => running)
<1>0. Latest /\ next \in Nat
  BY Numbers DEF TransportInv
<1> DEFINE Goal == Latest' /\ (running' => running)
<1>1. ASSUME CacheFrame PROVE Goal
  <2>1. running /\ next' = next + 1 /\ lastSent' = next
    BY <1>1 DEF CacheFrame
  <2> QED
    BY <1>0, <2>1 DEF Latest
<1>2. ASSUME running' => running /\ next' = next /\ lastSent' = lastSent
      PROVE  Goal
  BY <1>0, <1>2 DEF Latest
<1>3. ASSUME SendPacket \/ Receive \/ Acknowledge \/ Select \/ Resend \/ NacksDone \/ ReceiveEnds
             \/ Tick \/ (\E p \in Packet : Deliver(p)) \/ Report
      PROVE  Goal
  BY <1>2, <1>3
     DEF SendPacket, Receive, Acknowledge, Select, Resend, NacksDone, ReceiveEnds, Tick, Deliver,
         Report, sender
<1>4. ASSUME Stop PROVE Goal
  BY <1>2, <1>4 DEF Stop
<1>5. ASSUME Stopped PROVE Goal
  <2>1. ~running /\ running' = running
    BY <1>5 DEF Stopped, TransportInv, Halted
  <2> QED
    BY <1>2, <2>1
<1>6. Halted'
  BY DEF TransportInv, Halted, Next, CacheFrame, SendPacket, Receive, Acknowledge, Select, Resend,
         NacksDone, ReceiveEnds, Stop, Stopped, Tick, Deliver, Report
<1> QED
  BY <1>1, <1>3, <1>4, <1>5, <1>6 DEF Next

\* The receiver loses nothing while the transport runs.
LEMMA ReceiverKeeps ==
  ASSUME TransportInv, Next, running'
  PROVE  got \subseteq got' /\ Checkpoint <= Checkpoint'
<1>1. got \subseteq got'
  BY DEF Next, CacheFrame, SendPacket, Receive, Acknowledge, Select, Resend, NacksDone,
         ReceiveEnds, Stop, Stopped, Tick, Deliver, Report, sender, loop, network
<1> QED
  BY <1>1, UptoGrows, CheckpointIs

\* What it told stays true.
LEMMA ToldKept ==
  ASSUME TransportInv, Next
  PROVE  Told'
<1>1. SUFFICES ASSUME running', NEW r \in reports'
               PROVE  \E c \in (FirstFrame - 1)..Checkpoint' : r.checkpoint = Truncate(c)
  BY DEF Told
<1>2. running /\ Checkpoint <= Checkpoint' /\ Checkpoint \in Int /\ Checkpoint' \in Int
      /\ FirstFrame \in Nat /\ FirstFrame - 1 <= Checkpoint
  BY <1>1, Numbers, LatestKept, ReceiverKeeps, CheckpointIs, UptoIs
<1>3. CASE r \in reports
  <2>1. PICK c \in (FirstFrame - 1)..Checkpoint : r.checkpoint = Truncate(c)
    BY <1>2, <1>3 DEF TransportInv, Told
  <2>2. c \in (FirstFrame - 1)..Checkpoint'
    BY <1>2, <2>1
  <2> QED
    BY <2>1, <2>2
<1>4. CASE r \notin reports
  <2>1. Report
    BY <1>4
       DEF Next, CacheFrame, SendPacket, Receive, Acknowledge, Select, Resend, NacksDone,
           ReceiveEnds, Stop, Stopped, Tick, Deliver, sender, loop, network
  <2>2. r.checkpoint = Truncate(Checkpoint) /\ Checkpoint' = Checkpoint
    BY <2>1, CheckpointIs DEF Report
  <2> QED
    BY <1>2, <2>2
<1> QED
  BY <1>3, <1>4

\* What was read is what it told, or an id a whole range ahead.
LEMMA HeardRightKept ==
  ASSUME TransportInv, Next
  PROVE  HeardRight'
<1>1. SUFFICES ASSUME running', receiver' = "ack", Close'
               PROVE  \E c \in (FirstFrame - 1)..Checkpoint' :
                        feedback'.checkpoint \in {c, c + IdRange}
  BY DEF HeardRight
<1>2. running /\ Checkpoint <= Checkpoint' /\ Checkpoint \in Int /\ Checkpoint' \in Int
      /\ FirstFrame \in Nat /\ FirstFrame - 1 <= Checkpoint /\ next <= next' /\ next \in Nat
      /\ next' \in Nat /\ Checkpoint < next
  BY <1>1, Numbers, LatestKept, OnlyMadeKept, ReceiverKeeps, CheckpointIs, UptoIs, TypeKept DEF TypeOK
<1>3. Close
  BY <1>1, <1>2, Numbers DEF Close
<1>4. CASE Receive
  <2>1. PICK r \in reports : feedback'.checkpoint = ExpandFrameId(r.checkpoint, lastSent)
    BY <1>4 DEF Receive
  <2>2. PICK c \in (FirstFrame - 1)..Checkpoint : r.checkpoint = Truncate(c)
    BY <1>2 DEF TransportInv, Told
  <2>3. c \in Int /\ c \in (FirstFrame - 1)..Checkpoint'
    BY <1>2
  <2>4. lastSent \in Nat /\ c <= lastSent /\ lastSent - c < IdRange
    BY <1>2, <1>3, <2>3, Numbers DEF TransportInv, Latest, Close
  <2> QED
    BY <2>1, <2>2, <2>3, <2>4, Expanded
<1>5. CASE ~Receive
  <2>1. receiver = "ack" /\ feedback' = feedback
    BY <1>1, <1>5
       DEF Next, CacheFrame, SendPacket, Acknowledge, Select, Resend, NacksDone,
           ReceiveEnds, Stop, Stopped, Tick, Deliver, Report, sender, loop, network
  <2>2. PICK c \in (FirstFrame - 1)..Checkpoint : feedback.checkpoint \in {c, c + IdRange}
    BY <1>2, <1>3, <2>1 DEF TransportInv, HeardRight
  <2>3. c \in (FirstFrame - 1)..Checkpoint'
    BY <1>2, <2>2
  <2> QED
    BY <2>1, <2>2, <2>3
<1> QED
  BY <1>4, <1>5

-----------------------------------------------------------------------------
(* The cache.                                                                *)

\* A frame newer than the bound allows survives the eviction of older ones.
LEMMA NewestKeeps ==
  ASSUME TransportInv, CacheFrame, NEW f \in FirstFrame..next, f > next - CacheFrames,
         FrameOf(f) \subseteq cache \cup FrameOf(next)
  PROVE  FrameOf(f) \subseteq cache'
<1> DEFINE all == cache \cup FrameOf(next)
<1>1. cache' = Newest(all)
  BY DEF CacheFrame
<1>2. next \in Frames /\ next \in Nat /\ f \in Frames /\ f \in Nat /\ CacheFrames \in Nat \ {0}
  BY Numbers DEF CacheFrame, Frames
<1>3. \A q \in all : q.frame \in Nat /\ q.frame <= next
  <2>1. \A q \in FrameOf(next) : q.frame = next
    BY <1>2, FrameOfType
  <2>2. \A q \in cache : q.frame \in Nat /\ q.frame < next
    BY PacketFrame DEF TransportInv, TypeOK, OnlyMade, MadeBefore
  <2> QED
    BY <1>2, <2>1, <2>2
<1> DEFINE newer == {g \in FramesOf(all) : g > f}
<1>4. newer \subseteq (f + 1)..next
  BY <1>2, <1>3 DEF FramesOf
<1>5. Cardinality(newer) < CacheFrames
  <2>0. f + 1 \in Int /\ next \in Int /\ f <= next /\ f \in Int
    BY <1>2
  <2>1. IsFiniteSet((f + 1)..next) /\ Cardinality((f + 1)..next) = next - f
    <3>1. /\ IsFiniteSet((f + 1)..next)
          /\ Cardinality((f + 1)..next) = IF f + 1 > next THEN 0 ELSE next - (f + 1) + 1
      BY <2>0, FS_Interval
    <3>2. (IF f + 1 > next THEN 0 ELSE next - (f + 1) + 1) = next - f
      BY <2>0
    <3> QED
      BY <3>1, <3>2
  <2> HIDE DEF newer
  <2>2. IsFiniteSet(newer) /\ Cardinality(newer) <= next - f /\ Cardinality(newer) \in Nat
    BY <1>4, <2>1, FS_Subset, FS_CardinalityType
  <2> QED
    BY <1>2, <2>2
<1>6. ASSUME NEW p \in FrameOf(f) PROVE p \in Newest(all)
  <2>1. p \in all /\ p.frame = f
    BY <1>2, FrameOfType
  <2> QED
    BY <1>5, <2>1 DEF Newest
<1> QED
  BY <1>1, <1>6

\* An acknowledgement drops nothing that the receiver has not told it holds.
LEMMA LimitIsTold ==
  ASSUME TransportInv, running, receiver = "ack", Close
  PROVE  LET limit == SafeCacheEraseLimit(feedback.checkpoint, lastSent)
         IN  limit \in Int /\ (limit <= 0 \/ limit <= Checkpoint)
<1>1. PICK c \in (FirstFrame - 1)..Checkpoint : feedback.checkpoint \in {c, c + IdRange}
  BY DEF TransportInv, HeardRight
<1>2. /\ c \in Int /\ c <= Checkpoint /\ FirstFrame - 1 <= c
      /\ Checkpoint \in Int /\ Checkpoint < next /\ next \in Nat /\ FirstFrame \in Nat
      /\ IdRange \in Nat \ {0} /\ AheadLimit \in Nat \ {0}
  BY <1>1, Numbers, TransportAssumption
<1>3. next - FirstFrame < IdRange - AheadLimit
  BY DEF Close
<1>4. CASE next = 0
  <2>1. lastSent = 0 /\ c = -1 /\ IdRange > AheadLimit
    BY <1>2, <1>3, <1>4 DEF TransportInv, Latest
  <2>2. feedback.checkpoint \in Int
    BY <1>1, <1>2, <2>1
  <2> QED
    BY <1>1, <1>2, <2>1, <2>2 DEF SafeCacheEraseLimit
<1>5. CASE next # 0
  <2>1. lastSent = next - 1 /\ c <= lastSent /\ c + IdRange > lastSent + AheadLimit
    BY <1>2, <1>3, <1>5 DEF TransportInv, Latest
  <2>2. CASE feedback.checkpoint = c
    BY <1>2, <2>1, <2>2 DEF SafeCacheEraseLimit
  <2>3. CASE feedback.checkpoint = c + IdRange
    <3>1. SafeCacheEraseLimit(feedback.checkpoint, lastSent) = 0
      BY <1>2, <2>1, <2>3 DEF SafeCacheEraseLimit
    <3> QED
      BY <3>1
  <2> QED
    BY <1>1, <2>2, <2>3
<1> QED
  BY <1>4, <1>5

\* Whatever the receiver has not told it holds stays within the bound.
LEMMA UnackedKeptKept ==
  ASSUME TransportInv, Next
  PROVE  UnackedKept'
<1>1. SUFFICES ASSUME running', Close', NEW f \in FirstFrame..(next' - 1),
                      f > Checkpoint', f > lastSent' - CacheFrames
               PROVE  FrameOf(f) \subseteq cache'
  BY DEF UnackedKept, Close
<1>2. /\ running /\ Checkpoint <= Checkpoint' /\ Checkpoint \in Int /\ Checkpoint' \in Int
      /\ FirstFrame \in Nat /\ next <= next' /\ next \in Nat /\ next' \in Nat /\ f \in Nat
      /\ CacheFrames \in Nat
  BY <1>1, Numbers, LatestKept, OnlyMadeKept, ReceiverKeeps, CheckpointIs, UptoIs, TypeKept DEF TypeOK
<1>3. Close /\ f > Checkpoint
  BY <1>1, <1>2, Numbers DEF Close
<1>4. ASSUME f < next, f > lastSent - CacheFrames PROVE FrameOf(f) \subseteq cache
  BY <1>2, <1>3, <1>4 DEF TransportInv, UnackedKept, Close
<1>5. CASE CacheFrame
  <2>1. next' = next + 1 /\ lastSent' = next
    BY <1>5 DEF CacheFrame
  <2>2. f > next - CacheFrames /\ f \in FirstFrame..next
    BY <1>1, <1>2, <2>1
  <2>3. FrameOf(f) \subseteq cache \cup FrameOf(next)
    <3>1. CASE f = next
      BY <3>1
    <3>2. CASE f < next
      <4>1. lastSent = next - 1
        BY <1>2, <3>2 DEF TransportInv, Latest
      <4> QED
        BY <1>2, <1>4, <2>2, <3>2, <4>1
    <3> QED
      BY <1>2, <2>2, <3>1, <3>2
  <2> QED
    BY <1>5, <2>2, <2>3, NewestKeeps
<1>6. CASE ~CacheFrame
  <2>1. next' = next /\ lastSent' = lastSent
    BY <1>1, <1>6
       DEF Next, SendPacket, Receive, Acknowledge, Select, Resend, NacksDone,
           ReceiveEnds, Stop, Stopped, Tick, Deliver, Report, sender, TransportInv, Halted
  <2>2. FrameOf(f) \subseteq cache
    BY <1>1, <1>2, <1>4, <2>1
  <2>3. CASE Acknowledge
    <3> DEFINE limit == SafeCacheEraseLimit(feedback.checkpoint, lastSent)
    <3>1. receiver = "ack" /\ cache' = IF limit > 0 THEN {p \in cache : p.frame > limit} ELSE cache
      BY <2>3 DEF Acknowledge
    <3>2. limit \in Int /\ (limit <= 0 \/ limit <= Checkpoint)
      BY <1>2, <1>3, <3>1, LimitIsTold
    <3> HIDE DEF limit
    <3>3. \A p \in FrameOf(f) : p.frame = f
      BY <1>1, <1>2, <2>1, Numbers, FrameOfType DEF Frames
    <3>4. limit > 0 => f > limit
      BY <1>2, <1>3, <3>2
    <3> QED
      BY <2>2, <3>1, <3>3, <3>4
  <2>4. CASE ~Acknowledge
    <3>1. cache' = cache
      BY <1>1, <1>6, <2>4
         DEF Next, SendPacket, Receive, Select, Resend, NacksDone, ReceiveEnds, Stop, Stopped, Tick,
             Deliver, Report, TransportInv, Halted
    <3> QED
      BY <2>2, <3>1
  <2> QED
    BY <2>3, <2>4
<1> QED
  BY <1>5, <1>6

-----------------------------------------------------------------------------
(* The retransmission times.                                                 *)

\* Two copies of one time grow alike.
LEMMA TimedKept ==
  ASSUME TransportInv, Next
  PROVE  Timed'
<1>0. Timed /\ TypeOK
  BY DEF TransportInv
<1>1. CASE CacheFrame
  <2>1. cache' \subseteq cache \cup FrameOf(next) /\ clock' = clock /\ age' = age
    BY <1>1 DEF CacheFrame, Newest
  <2>2. next \in Frames /\ next \in Nat
    BY <1>1, Numbers DEF CacheFrame, Frames
  <2>3. \A p \in DOMAIN clock : p \notin FrameOf(next)
    BY <2>2, FrameOfType, PacketFrame DEF TransportInv, OnlyMade, MadeBefore, TypeOK
  <2> QED
    BY <1>0, <2>1, <2>3 DEF Timed
<1>2. CASE Acknowledge
  <2> DEFINE limit == SafeCacheEraseLimit(feedback.checkpoint, lastSent)
             kept(packets) == IF limit > 0 THEN {p \in packets : p.frame > limit} ELSE packets
  <2>1. cache' = kept(cache) /\ age' = [p \in kept(DOMAIN age) |-> age[p]] /\ clock' = clock
    BY <1>2 DEF Acknowledge
  <2> HIDE DEF limit
  <2> QED
    BY <1>0, <2>1 DEF Timed
<1>3. CASE Select
  <2>1. age' = Stamp(age, resend', 0) /\ clock' = Stamp(clock, resend', 0) /\ cache' = cache
    BY <1>3 DEF Select
  <2>2. /\ DOMAIN age' = DOMAIN age \cup resend' /\ DOMAIN clock' = DOMAIN clock \cup resend'
        /\ \A p \in DOMAIN age' : age'[p] = IF p \in resend' THEN 0 ELSE age[p]
        /\ \A p \in DOMAIN clock' : clock'[p] = IF p \in resend' THEN 0 ELSE clock[p]
    BY <2>1 DEF Stamp
  <2> QED
    BY <1>0, <2>1, <2>2 DEF Timed
<1>4. CASE Tick
  <2>1. age' = Older(age) /\ clock' = Older(clock) /\ cache' = cache
    BY <1>4 DEF Tick
  <2>2. /\ DOMAIN age' = DOMAIN age /\ DOMAIN clock' = DOMAIN clock
        /\ \A p \in DOMAIN age : age'[p] = Min({age[p] + 1, SuppressFor})
        /\ \A p \in DOMAIN clock : clock'[p] = Min({clock[p] + 1, SuppressFor})
    BY <2>1 DEF Older
  <2> QED
    BY <1>0, <2>1, <2>2 DEF Timed
<1>5. CASE Stopped
  BY <1>5 DEF Stopped, Timed
<1>6. CASE UNCHANGED <<cache, age, clock>>
  BY <1>0, <1>6 DEF Timed
<1> QED
  BY <1>1, <1>2, <1>3, <1>4, <1>5, <1>6
     DEF Next, SendPacket, Receive, Resend, NacksDone, ReceiveEnds, Stop, Deliver, Report, network

-----------------------------------------------------------------------------
(* The transport's theorems.                                               *)

\* The invariant holds at the start.
LEMMA TransportInit ==
  ASSUME Init
  PROVE  TransportInv
<1>1. /\ FirstFrame \in Nat /\ LastFrame \in Nat /\ FirstFrame <= LastFrame
      /\ FirstFrame \in FirstFrame..(LastFrame + 1)
  BY TransportAssumption
<1>2. TypeOK
  BY <1>1 DEF Init, TypeOK, None
<1>3. Formed
  BY DEF Init, Formed, None
<1>4. OnlyMade /\ Timed
  BY DEF Init, OnlyMade, MadeBefore, Timed
<1>5. Halted /\ Latest /\ Told /\ HeardRight
  BY <1>1 DEF Init, Halted, Latest, Told, HeardRight
<1>6. UnackedKept
  BY <1>1 DEF Init, UnackedKept
<1> QED
  BY <1>2, <1>3, <1>4, <1>5, <1>6 DEF TransportInv

\* Every step keeps it.
LEMMA TransportStep ==
  ASSUME TransportInv, [Next]_vars
  PROVE  TransportInv'
<1>1. CASE Next
  <2>1. TypeOK' /\ Formed' /\ OnlyMade' /\ Halted' /\ Latest'
    BY <1>1, TypeKept, OnlyMadeKept, LatestKept
  <2>2. Told' /\ HeardRight' /\ UnackedKept' /\ Timed'
    BY <1>1, ToldKept, HeardRightKept, UnackedKeptKept, TimedKept
  <2> QED
    BY <2>1, <2>2 DEF TransportInv
<1>2. CASE UNCHANGED vars
  <2>1. TypeOK' /\ Formed' /\ OnlyMade' /\ Halted' /\ Latest' /\ Timed'
    BY <1>2 DEF vars, sender, loop, network, TransportInv, TypeOK, Formed, OnlyMade, MadeBefore, Halted,
                Latest, Timed
  <2>2. Checkpoint' = Checkpoint
    BY <1>2, CheckpointIs DEF vars, network
  <2>3. Told' /\ HeardRight' /\ UnackedKept'
    BY <1>2, <2>2 DEF vars, sender, loop, network, TransportInv, Told, HeardRight, Close, UnackedKept
  <2> QED
    BY <2>1, <2>3 DEF TransportInv
<1> QED
  BY <1>1, <1>2

\* A packet that is sent again is due, and what is due was not sent again within
\* the window.
LEMMA SelectSuppresses ==
  ASSUME TransportInv, Next
  PROVE  \A p \in resend' \ resend : p \in DOMAIN clock => clock[p] >= SuppressFor
<1>1. CASE Select
  <2>1. \A p \in resend' : p \in cache /\ Due(p)
    BY <1>1 DEF Select, Asked
  <2> QED
    BY <2>1 DEF TransportInv, Timed, Due
<1>2. CASE ~Select
  <2>1. resend' \subseteq resend
    BY <1>2
       DEF Next, CacheFrame, SendPacket, Receive, Acknowledge, Resend, NacksDone, ReceiveEnds, Stop,
           Stopped, Tick, Deliver, Report, loop
  <2> QED
    BY <2>1
<1> QED
  BY <1>1, <1>2

\* The transport's state is well-formed for any frames, bounds, ids and network.
THEOREM TransportTypeCorrect == Spec => []TypeOK
<1>1. Init => TransportInv
  BY TransportInit
<1>2. TransportInv /\ [Next]_vars => TransportInv'
  BY TransportStep
<1>3. TransportInv => TypeOK
  BY DEF TransportInv
<1> QED
  BY <1>1, <1>2, <1>3, PTL DEF Spec

\* Every frame the receiver has not acknowledged can still be sent again in full,
\* up to the bound of the cache and to the lag at which an 8-bit id turns
\* ambiguous: truncation, expansion against a moving reference, and the check of
\* SafeCacheEraseLimit together never drop a frame the receiver lacks.
THEOREM TransportUnackedKept == Spec => []UnackedKept
<1>1. Init => TransportInv
  BY TransportInit
<1>2. TransportInv /\ [Next]_vars => TransportInv'
  BY TransportStep
<1>3. TransportInv => UnackedKept
  BY DEF TransportInv
<1> QED
  BY <1>1, <1>2, <1>3, PTL DEF Spec

\* No packet is sent again twice within the suppression window, whatever is
\* acknowledged or evicted in between.
THEOREM TransportSuppresses == Spec => Suppressed
<1>1. Init => TransportInv
  BY TransportInit
<1>2. TransportInv /\ [Next]_vars => TransportInv'
  BY TransportStep
<1>3. TransportInv /\ [Next]_vars =>
        [\A p \in resend' \ resend : p \in DOMAIN clock => clock[p] >= SuppressFor]_vars
  BY SelectSuppresses
<1> QED
  BY <1>1, <1>2, <1>3, PTL DEF Spec, Suppressed

-----------------------------------------------------------------------------
(* The adaptive controller: what the proofs below use of the ladder.       *)

\* BuildLadder's bitrates, rung by rung.
LEMMA Bitrates ==
  /\ Kbps(1) = 25000 /\ Kbps(2) = 16000 /\ Kbps(3) = 12000 /\ Kbps(4) = 8000
  /\ Kbps(5) = 5000 /\ Kbps(6) = 3500 /\ Kbps(7) = 2000 /\ Kbps(8) = 1200
BY DEF Kbps, Ladder

\* BuildLadder's widths, rung by rung.
LEMMA Widths ==
  /\ Ladder[1].width = 3840 /\ Ladder[2].width = 3840 /\ Ladder[3].width = 2560
  /\ Ladder[4].width = 1920 /\ Ladder[5].width = 1920 /\ Ladder[6].width = 1280
  /\ Ladder[7].width = 1280 /\ Ladder[8].width = 960
BY DEF Ladder

\* No rung is below the floor's bitrate.
LEMMA RungKbps ==
  ASSUME NEW r \in Rungs
  PROVE  Kbps(r) \in Nat /\ Kbps(r) >= FloorKbps
BY Bitrates DEF Rungs, Floor, FloorKbps

\* One rung down is lighter and no wider.
LEMMA OneDown ==
  ASSUME NEW r \in Rungs, r # Floor
  PROVE  /\ r + 1 \in Rungs
         /\ Kbps(r + 1) <= Kbps(r) /\ Ladder[r + 1].width <= Ladder[r].width
<1>1. r \in 1..7
  BY DEF Rungs, Floor
<1> QED
  BY <1>1, Bitrates, Widths DEF Rungs

\* Of a picture no wider than 1920 no rung lies above the default one, and so
\* they all run at or below the stability ceiling.
LEMMA NarrowRungs ==
  ASSUME NEW r \in Rungs, Ladder[r].width <= 1920 \/ r >= DefaultRung
  PROVE  r >= DefaultRung /\ Kbps(r) <= Ceiling
BY Bitrates, Widths DEF Rungs, Ceiling, DefaultRung

\* A search from the top that finds something finds a rung that fits.
LEMMA FirstRungFits ==
  ASSUME NEW fitting \in SUBSET Rungs, fitting # {}, NEW otherwise
  PROVE  FirstRung(fitting, otherwise) \in fitting
<1>1. \E r \in fitting : \A q \in fitting : r <= q
  <2> DEFINE Above(n) == \A q \in fitting : n <= q
  <2>1. Above(1)
    BY DEF Rungs
  <2>2. ASSUME NEW n \in 1..8, Above(n), n \notin fitting
        PROVE  Above(n + 1)
    BY <2>2 DEF Rungs
  <2>3. \E n \in 1..8 : Above(n) /\ n \in fitting
    <3> SUFFICES ASSUME \A n \in 1..8 : Above(n) => n \notin fitting
                 PROVE  FALSE
      OBVIOUS
    <3>1. ASSUME NEW n \in 1..8, Above(n)
          PROVE  Above(n + 1)
      BY <3>1, <2>2
    <3>2. Above(9)
      <4> HIDE DEF Above
      <4>1. Above(2) /\ Above(3) /\ Above(4) /\ Above(5)
        BY <2>1, <3>1
      <4>2. Above(6) /\ Above(7) /\ Above(8) /\ Above(9)
        BY <4>1, <3>1
      <4> QED
        BY <4>2
    <3>3. PICK q \in fitting : TRUE
      OBVIOUS
    <3> QED
      BY <3>2, <3>3 DEF Rungs
  <2> QED
    BY <2>3
<1> QED
  BY <1>1 DEF FirstRung

\* Initialize starts on a rung that fits the picture and the bitrate, or on the
\* default one.
LEMMA StartRungFits ==
  ASSUME NEW s
  PROVE  /\ StartRung(s) \in Rungs
         /\ IF FittingRungs(s) = {}
              THEN StartRung(s) = DefaultRung
              ELSE Ladder[StartRung(s)].width <= s.width /\ Kbps(StartRung(s)) <= s.kbps
<1>1. CASE FittingRungs(s) = {}
  BY <1>1 DEF StartRung, FirstRung, DefaultRung, Rungs
<1>2. CASE FittingRungs(s) # {}
  <2>1. FittingRungs(s) \subseteq Rungs
    BY DEF FittingRungs
  <2>2. StartRung(s) \in FittingRungs(s)
    BY <1>2, <2>1, FirstRungFits DEF StartRung
  <2> QED
    BY <1>2, <2>2 DEF FittingRungs
<1> QED
  BY <1>1, <1>2

\* ResetRungForBitrate picks the floor or a rung that fits.
LEMMA CapRungFits ==
  ASSUME NEW kbps
  PROVE  /\ CapRung(kbps) \in Rungs
         /\ CapRung(kbps) # Floor => /\ Ladder[CapRung(kbps)].width <= start.width
                                     /\ Kbps(CapRung(kbps)) <= kbps
<1> DEFINE Fitting == {r \in Rungs : /\ Kbps(r) <= kbps
                                     /\ Ladder[r].width <= start.width
                                     /\ Ladder[r].height <= start.height
                                     /\ Ladder[r].fps <= start.fps}
<1>1. CapRung(kbps) = FirstRung(Fitting, Floor)
  BY DEF CapRung
<1>2. CASE Fitting = {}
  BY <1>1, <1>2 DEF FirstRung, Floor, Rungs
<1>3. CASE Fitting # {}
  <2>1. Fitting \subseteq Rungs
    OBVIOUS
  <2>2. CapRung(kbps) \in Fitting
    BY <1>1, <1>3, <2>1, FirstRungFits
  <2> QED
    BY <2>2
<1> QED
  BY <1>2, <1>3

-----------------------------------------------------------------------------
(* The controller's invariant.                                             *)

\* What the constants are.
LEMMA Limits ==
  /\ RampUpTicks \in Nat /\ CeilingTicks \in Nat /\ UpshiftTicks \in Nat
  /\ CalmTicks \in Nat /\ TrendTicks \in Nat /\ UpshiftAfter \in Nat
  /\ FreshAge \in Nat /\ FreshAge <= UpshiftAfter
  /\ RampUpTicks > 0 /\ CeilingTicks > 0 /\ UpshiftTicks > 0
  /\ CalmTicks > 0 /\ TrendTicks > 0
BY AdaptiveAssumption

\* What Start may be called with.
LEMMA StartedWith ==
  ASSUME start \in Settings
  PROVE  /\ start \in Setting
         /\ start.width \in Nat /\ start.kbps \in Nat /\ start.cap \in Nat
         /\ start.kbps <= start.cap /\ (start.kbps = start.cap \/ start.kbps >= 5000)
         /\ start.enabled \in BOOLEAN
<1>1. start \in Setting /\ (start.kbps = start.cap \/ (5000 <= start.kbps /\ start.kbps <= start.cap))
  BY AdaptiveAssumption DEF Recommended
<1>2. /\ start.width \in Nat /\ start.kbps \in Nat /\ start.cap \in Nat
      /\ start.enabled \in BOOLEAN
  BY <1>1 DEF Setting, Positive
<1> QED
  BY <1>1, <1>2

\* The floor's bitrate and the ceiling.
LEMMA Levels == FloorKbps = 1200 /\ Ceiling = 8000 /\ Floor = 8 /\ DefaultRung = 4
BY Bitrates DEF FloorKbps, Ceiling, Floor, DefaultRung

\* The caps applied to a rung leave the next one down no heavier than the result.
LEMMA NextNoHeavier ==
  ASSUME NEW r \in Rungs, cap \in Nat, NEW limit \in {0, Ceiling},
         limit # 0 => r >= DefaultRung
  PROVE  /\ Capped(Kbps(r), limit) \in Nat
         /\ Capped(Kbps(r), limit) <= cap /\ Capped(Kbps(r), limit) <= Kbps(r)
         /\ r # Floor => Least(Kbps(r + 1), cap) <= Capped(Kbps(r), limit)
BY Bitrates, Levels DEF Rungs, Capped, Least

\* The session starts within its bounds.
LEMMA InitAdaptive == AdaptiveInit => AdaptiveInv
<1> SUFFICES ASSUME AdaptiveInit PROVE AdaptiveInv
  OBVIOUS
<1>1. start \in Setting /\ start.kbps \in Nat /\ start.cap \in Nat /\ start.kbps <= start.cap
      /\ (start.kbps = start.cap \/ start.kbps >= 5000) /\ start.enabled \in BOOLEAN
  BY StartedWith DEF AdaptiveInit
<1>2. /\ rung \in Rungs
      /\ IF FittingRungs(start) = {}
           THEN rung = DefaultRung
           ELSE Ladder[rung].width <= start.width /\ Kbps(rung) <= start.kbps
  BY StartRungFits DEF AdaptiveInit
<1>3. Kbps(rung) \in Nat
  BY <1>2, RungKbps
<1>4. AdaptiveTypeOK
  <2>1. /\ start \in Settings /\ cap \in Nat /\ bitrate \in Nat /\ encoder \in Nat
        /\ ceiling = 0 /\ losses = 0 /\ delay = 200
    BY <1>1 DEF AdaptiveInit
  <2>2. /\ ceilingRun \in 0..CeilingTicks /\ clean \in 0..UpshiftTicks
        /\ rising \in 0..TrendTicks /\ sinceDownshift \in 0..UpshiftAfter
        /\ calm \in 0..CalmTicks /\ cleanRun \in 0..RampUpTicks
    BY Limits DEF AdaptiveInit
  <2>3. /\ rttKnown \in BOOLEAN /\ stale \in BOOLEAN
        /\ verdict \in {"set", "quiet", "pressure", "floor", "clean"}
    BY DEF AdaptiveInit
  <2> QED
    BY <1>2, <2>1, <2>2, <2>3 DEF AdaptiveTypeOK, MinPlayoutDelay, MaxPlayoutDelay
<1>5. RungFitsPicture /\ CeilingFits
  BY <1>2, Levels DEF AdaptiveInit, RungFitsPicture, CeilingFits
<1>6. /\ cap = start.cap /\ bitrate = start.kbps /\ encoder = bitrate
  BY DEF AdaptiveInit
<1>7. rung # Floor => Kbps(rung + 1) \in Nat /\ Kbps(rung + 1) <= Kbps(rung)
  BY <1>2, OneDown, RungKbps
<1>8. CASE FittingRungs(start) # {}
  <2>1. rung # Floor => Kbps(rung + 1) <= start.kbps
    BY <1>1, <1>2, <1>3, <1>7, <1>8
  <2> QED
    BY <1>1, <1>4, <1>5, <1>6, <1>7, <2>1, Levels
       DEF AdaptiveInv, BitrateInRange, NextRungFits, EncoderInStep, Most, Least
<1>9. CASE FittingRungs(start) = {}
  <2>1. rung = 4 /\ Kbps(rung + 1) = 5000
    BY <1>2, <1>9, Bitrates, Levels
  <2>2. ~start.enabled /\ ~Misplaced => 5000 <= start.kbps
    BY <1>1, <1>9, Bitrates, Levels DEF Misplaced
  <2> QED
    BY <1>1, <1>4, <1>5, <1>6, <2>1, <2>2, Levels
       DEF AdaptiveInv, BitrateInRange, NextRungFits, EncoderInStep, Most, Least
<1> QED
  BY <1>8, <1>9

\* The playout delay stays in its band.
LEMMA PlayoutTyped ==
  ASSUME AdaptiveTypeOK, NEW w, Playout(w)
  PROVE  delay' \in MinPlayoutDelay..MaxPlayoutDelay /\ calm' \in 0..CalmTicks
<1>1. delay \in 150..400 /\ calm \in 0..CalmTicks
  BY DEF AdaptiveTypeOK, MinPlayoutDelay, MaxPlayoutDelay
<1>2. StepUp(delay) \in 150..400 /\ StepDown(delay) \in 150..400
  BY <1>1 DEF StepUp, StepDown
<1>3. delay' \in {delay, StepUp(delay), StepDown(delay)}
  BY DEF Playout
<1>4. calm' = 0 \/ (calm' = calm + 1 /\ ~(calm + 1 >= CalmTicks))
  BY DEF Playout
<1>5. calm' \in 0..CalmTicks
  BY <1>1, <1>4, Limits
<1> QED
  BY <1>1, <1>2, <1>3, <1>5 DEF MinPlayoutDelay, MaxPlayoutDelay

\* One more second, and one more rise, at most.
LEMMA Counted ==
  ASSUME AdaptiveTypeOK, NEW w
  PROVE  Aged \in 0..UpshiftAfter /\ Rising(w) \in 0..TrendTicks
BY Limits DEF AdaptiveTypeOK, Aged, Rising, Least

\* The adaptation thread hands the encoder every change it makes.
LEMMA Published ==
  ASSUME AdaptiveTypeOK, EncoderInStep, start.enabled, start' = start, Publish,
         bitrate' \in Nat
  PROVE  encoder' \in Nat /\ stale' \in BOOLEAN /\ EncoderInStep'
BY DEF AdaptiveTypeOK, EncoderInStep, Publish

\* A bitrate held to the caps lies between its rung's and the cap.
LEMMA CappedRange ==
  ASSUME cap \in Nat, NEW kbps \in Nat, NEW limit \in {0, Ceiling}
  PROVE  /\ Capped(kbps, limit) \in Nat
         /\ Capped(kbps, limit) <= kbps /\ Capped(kbps, limit) <= cap
         /\ \A low \in Nat : /\ low <= kbps /\ low <= cap
                             /\ limit # 0 => low <= Ceiling
                             => low <= Capped(kbps, limit)
BY Levels DEF Capped, Least

\* A rung down keeps the bounds, and never raises the bitrate.
LEMMA DownshiftBounds ==
  ASSUME AdaptiveInv, start.enabled, rung # Floor, start' = start, cap' = cap,
         NEW limit \in {0, Ceiling}, limit # 0 => start.width <= 1920,
         rung' = rung + 1, bitrate' = Capped(Kbps(rung + 1), limit)
  PROVE  /\ rung' \in Rungs /\ bitrate' \in Nat /\ bitrate' <= bitrate
         /\ RungFitsPicture' /\ BitrateInRange'
<1>1. /\ rung \in Rungs /\ cap \in Nat /\ bitrate \in Nat /\ start.width \in Nat
      /\ rung >= DefaultRung \/ Ladder[rung].width <= start.width
      /\ Least(Kbps(rung + 1), cap) <= bitrate
  BY StartedWith DEF AdaptiveInv, AdaptiveTypeOK, RungFitsPicture, BitrateInRange
<1>2. rung + 1 \in Rungs /\ Ladder[rung + 1].width <= Ladder[rung].width
  BY <1>1, OneDown
<1>3. Ladder[rung].width \in Nat /\ Ladder[rung + 1].width \in Nat /\ Kbps(rung + 1) \in Nat
  BY <1>1, <1>2, Widths, RungKbps DEF Rungs
<1>4. rung + 1 >= DefaultRung \/ Ladder[rung + 1].width <= start.width
  BY <1>1, <1>2, <1>3, Levels DEF Rungs
<1>5. limit # 0 => rung + 1 >= DefaultRung
  BY <1>1, <1>2, <1>3, <1>4, NarrowRungs
<1>6. /\ bitrate' \in Nat /\ bitrate' <= cap /\ bitrate' <= Kbps(rung + 1)
      /\ rung + 1 # Floor => Least(Kbps(rung + 1 + 1), cap) <= bitrate'
  BY <1>1, <1>2, <1>5, NextNoHeavier
<1>7. bitrate' <= bitrate
  BY <1>1, <1>3, <1>6 DEF Least
<1>8. RungFitsPicture'
  BY <1>4 DEF RungFitsPicture
<1>9. BitrateInRange'
  BY <1>1, <1>6, Levels DEF BitrateInRange, Most, Kbps
<1> QED
  BY <1>2, <1>6, <1>7, <1>8, <1>9

-----------------------------------------------------------------------------
(* Every step keeps the invariant.                                         *)

\* A congested evaluation steps one rung down, or keeps rung and bitrate; a
\* ceiling it applies or sets is one the picture fits.
LEMMA CongestedOutcome ==
  ASSUME AdaptiveInv, NEW w \in Windows, Congested(w)
  PROVE  /\ ceiling' \in {0, Ceiling} /\ (ceiling' # 0 => start.width <= 1920)
         /\ losses' \in 0..2 /\ rising' \in 0..TrendTicks
         /\ sinceDownshift' \in 0..UpshiftAfter
         /\ \/ /\ rung # Floor /\ rung' = rung + 1
               /\ \E limit \in {0, Ceiling} :
                    /\ limit # 0 => start.width <= 1920
                    /\ bitrate' = Capped(Kbps(rung + 1), limit)
            \/ rung' = rung /\ bitrate' = bitrate
<1> DEFINE events == Least(2, losses + (IF SevereFeedback(w) \/ Trend(w) THEN 2 ELSE 1))
           limit == IF start.width <= 1920 /\ start.height <= 1080
                      THEN Ceiling ELSE ceiling
<1>1. /\ losses \in 0..2 /\ ceiling \in {0, Ceiling}
      /\ ceiling # 0 => start.width <= 1920
  BY DEF AdaptiveInv, AdaptiveTypeOK, CeilingFits
<1>2. events \in 0..2
  BY <1>1 DEF Least
<1>3. limit \in {0, Ceiling} /\ (limit # 0 => start.width <= 1920)
  BY <1>1
<1>4. Aged \in 0..UpshiftAfter /\ Rising(w) \in 0..TrendTicks
  BY Counted DEF AdaptiveInv
<1>5. rung < Floor => rung # Floor
  BY Levels
<1>6. 0 \in 0..UpshiftAfter /\ 0 \in 0..TrendTicks /\ 0 \in 0..2
  BY Limits
<1>7. \/ /\ rung # Floor /\ Downshift(ceiling) /\ ceiling' = ceiling
      \/ /\ rung # Floor /\ Downshift(limit) /\ ceiling' = limit
      \/ /\ losses' \in {0, events} /\ rising' = Rising(w) /\ sinceDownshift' = Aged
         /\ rung' = rung /\ bitrate' = bitrate /\ ceiling' \in {ceiling, limit}
  BY <1>5 DEF Congested
<1> HIDE DEF events, limit
<1>8. CASE rung # Floor /\ Downshift(ceiling) /\ ceiling' = ceiling
  BY <1>1, <1>6, <1>8 DEF Downshift
<1>9. CASE rung # Floor /\ Downshift(limit) /\ ceiling' = limit
  BY <1>3, <1>6, <1>9 DEF Downshift
<1>10. CASE /\ losses' \in {0, events} /\ rising' = Rising(w) /\ sinceDownshift' = Aged
            /\ rung' = rung /\ bitrate' = bitrate /\ ceiling' \in {ceiling, limit}
  BY <1>1, <1>2, <1>3, <1>4, <1>6, <1>10
<1> QED
  BY <1>7, <1>8, <1>9, <1>10

\* A congested evaluation keeps the invariant and never raises the bitrate.
LEMMA CongestedKeeps ==
  ASSUME AdaptiveInv, NEW w \in Windows, Congested(w)
  PROVE  AdaptiveInv' /\ bitrate' <= bitrate
<1>1. /\ start.enabled /\ Playout(w) /\ Publish /\ start' = start /\ cap' = cap
      /\ ceilingRun' = ceilingRun /\ clean' = 0 /\ cleanRun' = 0
      /\ rttKnown' = (rttKnown \/ w.sampled) /\ verdict' \in {"pressure", "floor"}
  BY DEF Congested
<1>2. /\ ceiling' \in {0, Ceiling} /\ (ceiling' # 0 => start.width <= 1920)
      /\ losses' \in 0..2 /\ rising' \in 0..TrendTicks
      /\ sinceDownshift' \in 0..UpshiftAfter
      /\ \/ /\ rung # Floor /\ rung' = rung + 1
            /\ \E limit \in {0, Ceiling} :
                 /\ limit # 0 => start.width <= 1920
                 /\ bitrate' = Capped(Kbps(rung + 1), limit)
         \/ rung' = rung /\ bitrate' = bitrate
  BY CongestedOutcome
<1>3. /\ rung' \in Rungs /\ bitrate' \in Nat /\ bitrate' <= bitrate
      /\ RungFitsPicture' /\ BitrateInRange'
  <2>1. CASE rung' = rung /\ bitrate' = bitrate
    <3>1. rung \in Rungs /\ bitrate \in Nat
      BY DEF AdaptiveInv, AdaptiveTypeOK
    <3> QED
      BY <1>1, <2>1, <3>1 DEF AdaptiveInv, RungFitsPicture, BitrateInRange, Kbps
  <2>2. CASE /\ rung # Floor /\ rung' = rung + 1
             /\ \E limit \in {0, Ceiling} :
                  /\ limit # 0 => start.width <= 1920
                  /\ bitrate' = Capped(Kbps(rung + 1), limit)
    BY <1>1, <1>2, <2>2, DownshiftBounds
  <2> QED
    BY <1>2, <2>1, <2>2
<1>4. encoder' \in Nat /\ stale' \in BOOLEAN /\ EncoderInStep'
  BY <1>1, <1>3, Published DEF AdaptiveInv
<1>7. CeilingFits' /\ NextRungFits'
  BY <1>1, <1>2 DEF CeilingFits, NextRungFits
<1>5. delay' \in MinPlayoutDelay..MaxPlayoutDelay /\ calm' \in 0..CalmTicks
  BY <1>1, PlayoutTyped DEF AdaptiveInv
<1>6. AdaptiveTypeOK'
  <2>1. /\ start' \in Settings /\ cap' \in Nat /\ ceilingRun' \in 0..CeilingTicks
        /\ clean' \in 0..UpshiftTicks /\ cleanRun' \in 0..RampUpTicks
    BY <1>1, Limits DEF AdaptiveInv, AdaptiveTypeOK
  <2>2. /\ rttKnown' \in BOOLEAN
        /\ verdict' \in {"set", "quiet", "pressure", "floor", "clean"}
    BY <1>1
  <2> QED
    BY <1>2, <1>3, <1>4, <1>5, <2>1, <2>2 DEF AdaptiveTypeOK
<1> QED
  BY <1>3, <1>4, <1>6, <1>7 DEF AdaptiveInv

\* A clean evaluation keeps the ceiling one the picture fits.
LEMMA LiftsCeiling ==
  ASSUME AdaptiveTypeOK, CeilingFits, LiftCeiling
  PROVE  /\ ceiling' \in {0, Ceiling} /\ (ceiling' # 0 => start.width <= 1920)
         /\ ceilingRun' \in 0..CeilingTicks
BY Limits, Levels DEF AdaptiveTypeOK, CeilingFits, LiftCeiling, Least

\* The ramp raises the bitrate, up to the user's target and the ceiling.
LEMMA RampedRange ==
  ASSUME AdaptiveInv, start.enabled, NEW run, ceiling' \in {0, Ceiling},
         ceiling' # 0 => start.width <= 1920
  PROVE  /\ Ramped(run) \in Nat /\ Ramped(run) <= Most(cap, FloorKbps)
         /\ rung # Floor => Least(Kbps(rung + 1), cap) <= Ramped(run)
<1> DEFINE low == IF rung = Floor THEN 0 ELSE Least(Kbps(rung + 1), cap)
<1>1. /\ rung \in Rungs /\ cap \in Nat /\ bitrate \in Nat /\ start.width \in Nat
      /\ low <= bitrate /\ bitrate <= Most(cap, FloorKbps)
  BY StartedWith DEF AdaptiveInv, AdaptiveTypeOK, BitrateInRange
<1>2. low \in Nat /\ low <= cap /\ (ceiling' # 0 => low <= Ceiling)
  <2>1. Ladder[rung].width \in Nat
    BY <1>1, Widths DEF Rungs
  <2>2. ceiling' # 0 => Kbps(rung) <= Ceiling
    BY <1>1, <2>1, NarrowRungs DEF AdaptiveInv, RungFitsPicture
  <2>3. rung # Floor => Kbps(rung + 1) \in Nat /\ Kbps(rung + 1) <= Kbps(rung)
    BY <1>1, OneDown, RungKbps
  <2>4. Kbps(rung) \in Nat
    BY <1>1, RungKbps
  <2> QED
    BY <1>1, <2>2, <2>3, <2>4, Levels DEF Least
<1> HIDE DEF low
<1>3. ASSUME ~Ramps(run)
      PROVE  Ramped(run) \in Nat /\ Ramped(run) <= Most(cap, FloorKbps) /\ low <= Ramped(run)
  BY <1>1, <1>3 DEF Ramped
<1>4. ASSUME Ramps(run)
      PROVE  Ramped(run) \in Nat /\ Ramped(run) <= Most(cap, FloorKbps) /\ low <= Ramped(run)
  <2> DEFINE half == (cap - bitrate) \div 2
             higher == Least(cap, bitrate + Most(500, half))
  <2>1. bitrate < cap
    BY <1>4 DEF Ramps
  <2>2. half \in Int
    BY <1>1
  <2>3. higher \in Nat /\ low <= higher
    <3> HIDE DEF half
    <3>1. Most(500, half) \in Int /\ Most(500, half) >= 500
      BY <2>2 DEF Most
    <3> QED
      BY <1>1, <1>2, <2>1, <3>1 DEF Least
  <2>4. Ramped(run) = Capped(higher, ceiling')
    BY <1>4 DEF Ramped
  <2> HIDE DEF higher
  <2>5. /\ Capped(higher, ceiling') \in Nat /\ Capped(higher, ceiling') <= cap
        /\ low <= Capped(higher, ceiling')
    BY <1>1, <1>2, <2>3, CappedRange
  <2> QED
    BY <1>1, <2>4, <2>5, Levels DEF Most
<1>5. Ramped(run) \in Nat /\ Ramped(run) <= Most(cap, FloorKbps) /\ low <= Ramped(run)
  BY <1>3, <1>4
<1> QED
  BY <1>5 DEF low

\* A clean evaluation keeps the invariant.
LEMMA RelaxedKeeps ==
  ASSUME AdaptiveInv, NEW w \in Windows, Relaxed(w)
  PROVE  AdaptiveInv'
<1> DEFINE run == Least(clean + 1, UpshiftTicks)
           afterRamp == IF Ramps(run) THEN 0 ELSE run
           kbps == Ramped(run)
<1>1. /\ start.enabled /\ Playout(w) /\ Publish /\ LiftCeiling
      /\ start' = start /\ cap' = cap /\ losses' = 0 /\ rising' = Rising(w)
      /\ rttKnown' = (rttKnown \/ w.sampled) /\ verdict' = "clean" /\ sinceDownshift' = Aged
      /\ clean' \in {0, afterRamp} /\ cleanRun' = Least(cleanRun + 1, RampUpTicks)
      /\ \/ /\ rung > 1 /\ Upshifts(rung - 1)
            /\ rung' = rung - 1 /\ bitrate' = Capped(Kbps(rung - 1), ceiling')
         \/ rung' = rung /\ bitrate' = kbps
  BY DEF Relaxed, TriesUpshift
<1>2. /\ ceiling' \in {0, Ceiling} /\ (ceiling' # 0 => start.width <= 1920)
      /\ ceilingRun' \in 0..CeilingTicks
  BY <1>1, LiftsCeiling DEF AdaptiveInv
<1>3. /\ rung \in Rungs /\ cap \in Nat /\ start.width \in Nat
  BY StartedWith DEF AdaptiveInv, AdaptiveTypeOK
<1>4. /\ rung' \in Rungs /\ bitrate' \in Nat /\ RungFitsPicture' /\ BitrateInRange'
  <2>1. CASE rung' = rung /\ bitrate' = kbps
    <3>1. /\ kbps \in Nat /\ kbps <= Most(cap, FloorKbps)
          /\ rung # Floor => Least(Kbps(rung + 1), cap) <= kbps
      BY <1>1, <1>2, RampedRange
    <3> HIDE DEF kbps
    <3> QED
      BY <1>1, <1>3, <2>1, <3>1 DEF AdaptiveInv, RungFitsPicture, BitrateInRange, Kbps
  <2>2. CASE /\ rung > 1 /\ Upshifts(rung - 1)
             /\ rung' = rung - 1 /\ bitrate' = Capped(Kbps(rung - 1), ceiling')
    <3>1. rung - 1 \in Rungs
      BY <1>3, <2>2 DEF Rungs
    <3>2. Ladder[rung - 1].width <= start.width
      BY <2>2 DEF Upshifts
    <3>3. ceiling' # 0 => rung - 1 >= DefaultRung
      <4>1. Ladder[rung - 1].width \in Nat
        BY <3>1, Widths DEF Rungs
      <4> QED
        BY <1>2, <1>3, <3>1, <3>2, <4>1, NarrowRungs
    <3>4. /\ bitrate' \in Nat /\ bitrate' <= cap
          /\ rung - 1 # Floor => Least(Kbps(rung - 1 + 1), cap) <= bitrate'
      BY <1>2, <1>3, <2>2, <3>1, <3>3, NextNoHeavier
    <3>5. RungFitsPicture'
      BY <1>1, <2>2, <3>2 DEF RungFitsPicture
    <3>6. BitrateInRange'
      BY <1>1, <1>3, <2>2, <3>4, Levels DEF BitrateInRange, Most, Kbps
    <3> QED
      BY <2>2, <3>1, <3>4, <3>5, <3>6
  <2> HIDE DEF kbps
  <2> QED
    BY <1>1, <2>1, <2>2
<1>5. encoder' \in Nat /\ stale' \in BOOLEAN /\ EncoderInStep'
  BY <1>1, <1>4, Published DEF AdaptiveInv
<1>8. CeilingFits' /\ NextRungFits'
  BY <1>1, <1>2 DEF CeilingFits, NextRungFits
<1>6. delay' \in MinPlayoutDelay..MaxPlayoutDelay /\ calm' \in 0..CalmTicks
  BY <1>1, PlayoutTyped DEF AdaptiveInv
<1>7. AdaptiveTypeOK'
  <2>1. /\ start' \in Settings /\ cap' \in Nat /\ losses' \in 0..2
        /\ rising' \in 0..TrendTicks /\ sinceDownshift' \in 0..UpshiftAfter
    BY <1>1, Counted DEF AdaptiveInv, AdaptiveTypeOK
  <2>2. cleanRun' \in 0..RampUpTicks
    BY <1>1, Limits DEF AdaptiveInv, AdaptiveTypeOK, Least
  <2>3. clean' \in 0..UpshiftTicks
    <3>1. run \in 0..UpshiftTicks
      BY Limits DEF AdaptiveInv, AdaptiveTypeOK, Least
    <3> HIDE DEF run
    <3> QED
      BY <1>1, <3>1, Limits
  <2>4. /\ rttKnown' \in BOOLEAN
        /\ verdict' \in {"set", "quiet", "pressure", "floor", "clean"}
    BY <1>1
  <2> QED
    BY <1>2, <1>4, <1>5, <1>6, <2>1, <2>2, <2>3, <2>4 DEF AdaptiveTypeOK
<1> QED
  BY <1>4, <1>5, <1>7, <1>8 DEF AdaptiveInv

\* With adaptation disabled an emergency steps one rung down: the invariant
\* stays, and the encoder never gets a higher bitrate.
LEMMA DisabledKeeps ==
  ASSUME AdaptiveInv, NEW w \in Windows, DisabledEvaluate(w)
  PROVE  AdaptiveInv' /\ (verdict' = "pressure" /\ ~stale /\ ~Misplaced => encoder' <= encoder)
<1>1. /\ ~start.enabled /\ start' = start /\ cap' = cap /\ ceiling' = ceiling
      /\ ceilingRun' = ceilingRun /\ clean' = clean /\ losses' = losses
      /\ rising' = rising /\ delay' = delay /\ calm' = calm /\ cleanRun' = cleanRun
  BY DEF DisabledEvaluate, playout
<1>2. /\ rttKnown' \in BOOLEAN /\ stale' \in BOOLEAN
      /\ verdict' \in {"set", "quiet", "pressure", "floor", "clean"}
  BY DEF DisabledEvaluate, AdaptiveInv, AdaptiveTypeOK
<1>3. sinceDownshift' \in 0..UpshiftAfter
  BY Counted, Limits DEF DisabledEvaluate, AdaptiveInv
<1>4. /\ rung \in Rungs /\ cap \in Nat /\ bitrate \in Nat /\ encoder \in Nat
      /\ start.width \in Nat /\ Kbps(rung) \in Nat
  BY StartedWith, RungKbps DEF AdaptiveInv, AdaptiveTypeOK
<1>9. Misplaced' <=> Misplaced
  BY <1>1 DEF Misplaced
<1>5. CASE /\ rung' = rung /\ bitrate' = bitrate /\ encoder' = encoder
           /\ stale' = stale /\ verdict' = "quiet"
  <2>1. Kbps(rung + 1)' = Kbps(rung + 1)
    BY <1>5 DEF Kbps
  <2>2. RungFitsPicture' /\ BitrateInRange' /\ CeilingFits' /\ NextRungFits'
    BY <1>1, <1>5, <1>9, <2>1
       DEF AdaptiveInv, RungFitsPicture, BitrateInRange, CeilingFits, NextRungFits
  <2>3. EncoderInStep'
    BY <1>1, <1>5, <1>9, <2>1 DEF AdaptiveInv, EncoderInStep
  <2>4. AdaptiveTypeOK'
    BY <1>1, <1>2, <1>3, <1>5 DEF AdaptiveInv, AdaptiveTypeOK
  <2> QED
    BY <1>5, <2>2, <2>3, <2>4 DEF AdaptiveInv
<1>6. CASE /\ rung # Floor /\ rung' = rung + 1 /\ bitrate' = Kbps(rung + 1)
           /\ encoder' = bitrate' /\ stale' = FALSE
  <2>1. /\ rung + 1 \in Rungs /\ Kbps(rung + 1) <= Kbps(rung)
        /\ Ladder[rung + 1].width <= Ladder[rung].width
    BY <1>4, <1>6, OneDown
  <2>2. Kbps(rung + 1) \in Nat /\ (~Misplaced => Kbps(rung + 1) <= cap)
    BY <1>1, <1>6, <2>1, RungKbps DEF AdaptiveInv, NextRungFits
  <2>3. Ladder[rung].width \in Nat /\ Ladder[rung + 1].width \in Nat
    BY <1>4, <2>1, Widths DEF Rungs
  <2>4. rung + 1 # Floor => /\ Kbps(rung + 1 + 1) \in Nat
                            /\ Kbps(rung + 1 + 1) <= Kbps(rung + 1)
    BY <2>1, OneDown, RungKbps
  <2>9. Kbps(rung + 1)' = Kbps(rung + 1 + 1)
    BY <1>6 DEF Kbps
  <2>5. RungFitsPicture' /\ BitrateInRange' /\ CeilingFits'
    BY <1>1, <1>4, <1>6, <2>1, <2>3, Levels
       DEF AdaptiveInv, RungFitsPicture, BitrateInRange, CeilingFits, Rungs
  <2>10. NextRungFits'
    BY <1>1, <1>4, <1>6, <1>9, <2>2, <2>4, <2>9 DEF NextRungFits
  <2>6. EncoderInStep'
    BY <1>1, <1>4, <1>6, <1>9, <2>2, <2>4, <2>9, Levels DEF EncoderInStep, Most
  <2>7. AdaptiveTypeOK'
    BY <1>1, <1>2, <1>3, <1>6, <2>1, <2>2 DEF AdaptiveInv, AdaptiveTypeOK
  <2>8. ~stale /\ ~Misplaced => encoder' <= encoder
    BY <1>1, <1>4, <1>6, <2>1, <2>2 DEF AdaptiveInv, EncoderInStep
  <2> QED
    BY <2>5, <2>6, <2>7, <2>8, <2>10 DEF AdaptiveInv
<1>7. rung < Floor => rung # Floor
  BY <1>4, Levels
<1>8. \/ /\ rung # Floor /\ rung' = rung + 1 /\ bitrate' = Kbps(rung + 1)
         /\ encoder' = bitrate' /\ stale' = FALSE
      \/ /\ rung' = rung /\ bitrate' = bitrate /\ encoder' = encoder
         /\ stale' = stale /\ verdict' = "quiet"
  BY <1>7 DEF DisabledEvaluate
<1> QED
  BY <1>5, <1>6, <1>8

\* The slider's bitrate keeps the invariant, whether the encoder takes it or not.
LEMMA SliderKeeps ==
  ASSUME AdaptiveInv, NEW kbps \in UserKbps, SetLiveVideoBitrateKbps(kbps)
  PROVE  AdaptiveInv'
<1>1. /\ start' = start /\ cap' = kbps /\ rung' = CapRung(kbps)
      /\ bitrate' = Kbps(rung') /\ ceiling' = 0 /\ losses' = 0 /\ clean' = 0
      /\ sinceDownshift' = FreshAge /\ verdict' = "set" /\ cleanRun' = 0
      /\ ceilingRun' = ceilingRun /\ rising' = rising /\ rttKnown' = rttKnown
      /\ delay' = delay /\ calm' = calm
  BY DEF SetLiveVideoBitrateKbps, playout
<1>2. kbps \in Nat
  BY AdaptiveAssumption
<1>3. start.width \in Nat /\ start.enabled \in BOOLEAN /\ encoder \in Nat
  BY StartedWith DEF AdaptiveInv, AdaptiveTypeOK
<1>4. /\ rung' \in Rungs
      /\ rung' # Floor => Ladder[rung'].width <= start.width /\ Kbps(rung') <= kbps
  BY <1>1, CapRungFits
<1>5. Kbps(rung') \in Nat /\ (rung' = Floor => Kbps(rung') = FloorKbps)
  BY <1>4, RungKbps DEF FloorKbps
<1>6. Kbps(rung') <= Most(kbps, FloorKbps)
  BY <1>2, <1>4, <1>5, Levels DEF Most
<1>7. rung' # Floor => /\ Kbps(rung + 1)' \in Nat /\ Kbps(rung + 1)' <= Kbps(rung')
                       /\ Kbps(rung + 1)' <= kbps
  <2>1. Kbps(rung + 1)' = Kbps(rung' + 1)
    BY DEF Kbps
  <2>2. rung' # Floor => Kbps(rung' + 1) \in Nat /\ Kbps(rung' + 1) <= Kbps(rung')
    BY <1>4, OneDown, RungKbps
  <2> QED
    BY <1>2, <1>4, <1>5, <2>1, <2>2
<1>8. RungFitsPicture' /\ BitrateInRange' /\ CeilingFits' /\ NextRungFits'
  <2>1. RungFitsPicture' /\ CeilingFits' /\ NextRungFits'
    BY <1>1, <1>4, <1>7, Levels DEF RungFitsPicture, CeilingFits, NextRungFits
  <2>2. BitrateInRange'
    BY <1>1, <1>2, <1>4, <1>5, <1>6, <1>7 DEF BitrateInRange, Least
  <2> QED
    BY <2>1, <2>2
<1>9. \/ encoder' = (IF start.enabled THEN bitrate' ELSE kbps) /\ stale' = FALSE
      \/ stale' = TRUE /\ encoder' = encoder
  BY DEF SetLiveVideoBitrateKbps
<1>10. encoder' \in Nat /\ stale' \in BOOLEAN
  BY <1>1, <1>2, <1>3, <1>5, <1>9
<1>11. EncoderInStep'
  BY <1>1, <1>2, <1>3, <1>4, <1>7, <1>9, Levels DEF EncoderInStep, Most
<1>12. AdaptiveTypeOK'
  <2>1. /\ start' \in Settings /\ cap' \in Nat /\ bitrate' \in Nat
        /\ ceiling' \in {0, Ceiling} /\ ceilingRun' \in 0..CeilingTicks
        /\ losses' \in 0..2 /\ clean' \in 0..UpshiftTicks
        /\ rising' \in 0..TrendTicks /\ sinceDownshift' \in 0..UpshiftAfter
    BY <1>1, <1>2, <1>5, Limits DEF AdaptiveInv, AdaptiveTypeOK
  <2>2. /\ rttKnown' \in BOOLEAN
        /\ verdict' \in {"set", "quiet", "pressure", "floor", "clean"}
    BY <1>1 DEF AdaptiveInv, AdaptiveTypeOK
  <2>3. /\ delay' \in MinPlayoutDelay..MaxPlayoutDelay /\ calm' \in 0..CalmTicks
        /\ cleanRun' \in 0..RampUpTicks
    BY <1>1, Limits DEF AdaptiveInv, AdaptiveTypeOK
  <2> QED
    BY <1>4, <1>10, <2>1, <2>2, <2>3 DEF AdaptiveTypeOK
<1> QED
  BY <1>8, <1>11, <1>12 DEF AdaptiveInv

\* A step that leaves rung, bitrate, caps and encoder alone keeps the bounds.
LEMMA BoundsKept ==
  ASSUME AdaptiveInv, UNCHANGED <<start, cap, ladder, encoder, stale>>
  PROVE  /\ RungFitsPicture' /\ BitrateInRange' /\ CeilingFits' /\ NextRungFits'
         /\ EncoderInStep'
<1>1. /\ start' = start /\ cap' = cap /\ rung' = rung /\ bitrate' = bitrate
      /\ ceiling' = ceiling /\ encoder' = encoder /\ stale' = stale
  BY DEF ladder
<1>2. Kbps(rung + 1)' = Kbps(rung + 1) /\ (Misplaced' <=> Misplaced)
  BY <1>1 DEF Kbps, Misplaced
<1> QED
  BY <1>1, <1>2 DEF AdaptiveInv, RungFitsPicture, BitrateInRange, CeilingFits,
                    NextRungFits, EncoderInStep

\* An interval without feedback, a playout request and a reconnect keep the
\* invariant, and so does a step that changes nothing.
LEMMA OtherKeeps ==
  ASSUME AdaptiveInv,
         \/ Quiet \/ ResetFeedbackWindow \/ UNCHANGED adaptiveVars
         \/ \E d \in DelayRequests : SetPlayoutDelayMs(d)
  PROVE  AdaptiveInv'
<1>1. UNCHANGED <<start, cap, ladder, encoder, stale, cleanRun>>
  BY DEF Quiet, ResetFeedbackWindow, SetPlayoutDelayMs, adaptiveVars
<1>2. /\ start' = start /\ cap' = cap /\ rung' = rung /\ bitrate' = bitrate
      /\ ceiling' = ceiling /\ ceilingRun' = ceilingRun /\ encoder' = encoder
      /\ cleanRun' = cleanRun
  BY <1>1 DEF ladder
<1>3. stale' \in BOOLEAN /\ rttKnown' \in BOOLEAN
      /\ verdict' \in {"set", "quiet", "pressure", "floor", "clean"}
  BY DEF Quiet, ResetFeedbackWindow, SetPlayoutDelayMs, adaptiveVars, counters,
         AdaptiveInv, AdaptiveTypeOK
<1>4. /\ clean' \in {0, clean} /\ losses' \in {0, losses} /\ rising' \in {0, rising}
      /\ calm' \in {0, calm} /\ sinceDownshift' \in {sinceDownshift, Aged}
  BY DEF Quiet, ResetFeedbackWindow, SetPlayoutDelayMs, adaptiveVars, counters, playout
<1>5. delay' \in MinPlayoutDelay..MaxPlayoutDelay
  <2>1. delay \in MinPlayoutDelay..MaxPlayoutDelay
    BY DEF AdaptiveInv, AdaptiveTypeOK
  <2>2. \A d \in DelayRequests : Clamp(d) \in MinPlayoutDelay..MaxPlayoutDelay
    <3>1. DelayRequests \subseteq Nat
      BY AdaptiveAssumption
    <3> QED
      BY <3>1 DEF Clamp, Least, Most, MinPlayoutDelay, MaxPlayoutDelay
  <2>3. delay' = delay \/ \E d \in DelayRequests : delay' = Clamp(d)
    BY DEF Quiet, ResetFeedbackWindow, SetPlayoutDelayMs, adaptiveVars, playout
  <2> QED
    BY <2>1, <2>2, <2>3
<1>6. AdaptiveTypeOK'
  <2>1. Aged \in 0..UpshiftAfter
    BY Counted DEF AdaptiveInv
  <2>2. /\ clean' \in 0..UpshiftTicks /\ losses' \in 0..2
        /\ rising' \in 0..TrendTicks /\ calm' \in 0..CalmTicks
        /\ sinceDownshift' \in 0..UpshiftAfter
    BY <1>4, <2>1, Limits DEF AdaptiveInv, AdaptiveTypeOK
  <2> QED
    BY <1>2, <1>3, <1>5, <2>2 DEF AdaptiveInv, AdaptiveTypeOK
<1> QED
  BY <1>1, <1>6, BoundsKept DEF AdaptiveInv

-----------------------------------------------------------------------------
(* The controller's theorems.                                              *)

\* The invariant holds in every session: rung, bitrate, caps and encoder stay
\* in step through every evaluation, slider move and reconnect.
THEOREM AdaptiveInvariant == AdaptiveSpec => []AdaptiveInv
<1>1. AdaptiveInv /\ [AdaptiveNext]_adaptiveVars => AdaptiveInv'
  <2> SUFFICES ASSUME AdaptiveInv, [AdaptiveNext]_adaptiveVars PROVE AdaptiveInv'
    OBVIOUS
  <2>1. ASSUME NEW w \in Windows, Congested(w) PROVE AdaptiveInv'
    BY <2>1, CongestedKeeps
  <2>2. ASSUME NEW w \in Windows, Relaxed(w) PROVE AdaptiveInv'
    BY <2>2, RelaxedKeeps
  <2>3. ASSUME NEW w \in Windows, DisabledEvaluate(w) PROVE AdaptiveInv'
    BY <2>3, DisabledKeeps
  <2>4. ASSUME NEW k \in UserKbps, SetLiveVideoBitrateKbps(k) PROVE AdaptiveInv'
    BY <2>4, SliderKeeps
  <2>5. CASE \/ Quiet \/ ResetFeedbackWindow \/ UNCHANGED adaptiveVars
             \/ \E d \in DelayRequests : SetPlayoutDelayMs(d)
    BY <2>5, OtherKeeps
  <2> QED
    BY <2>1, <2>2, <2>3, <2>4, <2>5 DEF AdaptiveNext, CheckAdaptation
<1> QED
  BY <1>1, InitAdaptive, PTL DEF AdaptiveSpec

\* Every variable of the controller keeps its type; the playout delay stays
\* within 150 and 400 ms whatever the receiver asks for.
THEOREM AdaptiveTypeInvariant == AdaptiveSpec => []AdaptiveTypeOK
<1>1. AdaptiveInv => AdaptiveTypeOK
  BY DEF AdaptiveInv
<1> QED
  BY <1>1, AdaptiveInvariant, PTL

\* The encoder never runs above the bitrate the user allows, or the ladder's floor
\* where the user allows less, on any way a bitrate is set: for every picture,
\* frame rate and limit, also where no rung fits and the session begins on the
\* default one.  A bitrate the encoder refused and a Misplaced session are the
\* exceptions WithinCap names.
THEOREM WithinCapAlways == AdaptiveSpec => []WithinCap
<1>1. AdaptiveInv => WithinCap
  BY DEF AdaptiveInv, EncoderInStep, BitrateInRange, WithinCap, Misplaced
<1> QED
  BY <1>1, AdaptiveInvariant, PTL

\* No step that answers congestion makes the stream heavier, for every picture,
\* frame rate and limit, with the exceptions of WithinCap.
THEOREM CongestionNeverRaisesEver == AdaptiveSpec => CongestionNeverRaises
<1>1. AdaptiveInv /\ [AdaptiveNext]_adaptiveVars
        => [verdict' = "pressure" /\ ~stale /\ ~Misplaced => encoder' <= encoder]_adaptiveVars
  <2> SUFFICES ASSUME AdaptiveInv, AdaptiveNext, verdict' = "pressure", ~stale, ~Misplaced
               PROVE  encoder' <= encoder
    OBVIOUS
  <2>1. ASSUME NEW w \in Windows, Congested(w) PROVE encoder' <= encoder
    <3>1. bitrate' <= bitrate /\ start.enabled
      BY <2>1, CongestedKeeps DEF Congested
    <3>2. encoder = bitrate
      BY <3>1 DEF AdaptiveInv, EncoderInStep
    <3>3. encoder' = bitrate' \/ encoder' = encoder
      BY <2>1 DEF Congested, Publish
    <3>4. encoder \in Nat
      BY DEF AdaptiveInv, AdaptiveTypeOK
    <3> QED
      BY <3>1, <3>2, <3>3, <3>4
  <2>2. ASSUME NEW w \in Windows, DisabledEvaluate(w) PROVE encoder' <= encoder
    BY <2>2, DisabledKeeps
  <2>3. \E w \in Windows : Congested(w) \/ DisabledEvaluate(w)
    BY DEF AdaptiveNext, CheckAdaptation, Quiet, Relaxed, SetLiveVideoBitrateKbps,
           SetPlayoutDelayMs, ResetFeedbackWindow
  <2> QED
    BY <2>1, <2>2, <2>3
<1> QED
  BY <1>1, AdaptiveInvariant, PTL DEF AdaptiveSpec, CongestionNeverRaises

-----------------------------------------------------------------------------
(* The hysteresis.                                                         *)

\* The counter the ramp waits for counts no more clean evaluations than there
\* were since the last one that was not: whatever resets the history resets it.
CountsNoMore == clean <= cleanRun \/ cleanRun = RampUpTicks

\* A clean evaluation raises the bitrate only by a ramp: a rung up is tried when
\* the bitrate is at its target already, and then never raises it.
LEMMA RaisedByRamp ==
  ASSUME AdaptiveInv, NEW w \in Windows, Relaxed(w), bitrate' > bitrate
  PROVE  Least(clean + 1, UpshiftTicks) >= RampUpTicks
<1> DEFINE run == Least(clean + 1, UpshiftTicks)
           kbps == Ramped(run)
           afterRamp == IF Ramps(run) THEN 0 ELSE run
<1>1. bitrate \in Nat /\ cap \in Nat /\ rung \in Rungs
  BY StartedWith DEF AdaptiveInv, AdaptiveTypeOK
<1>2. ~Ramps(run) => kbps = bitrate
  BY DEF Ramped
<1>3. Ramps(run) => run >= RampUpTicks
  BY DEF Ramps
<1>4. CASE TriesUpshift(kbps, afterRamp) /\ Upshifts(rung - 1)
  <2>1. /\ kbps >= cap /\ afterRamp >= UpshiftTicks /\ rung > 1
        /\ bitrate' = Capped(Kbps(rung - 1), ceiling')
    BY <1>4 DEF Relaxed, TriesUpshift
  <2>2. ~Ramps(run)
    BY <2>1, Limits
  <2>3. bitrate >= cap
    BY <1>2, <2>1, <2>2
  <2>4. ceiling' \in {0, Ceiling} /\ LiftCeiling
    BY LiftsCeiling DEF AdaptiveInv, Relaxed
  <2>5. rung - 1 \in Rungs
    BY <1>1, <2>1 DEF Rungs
  <2>6. bitrate' \in Nat /\ bitrate' <= cap
    BY <1>1, <2>1, <2>4, <2>5, RungKbps, CappedRange
  <2> QED
    BY <1>1, <2>3, <2>6
<1>5. CASE ~(TriesUpshift(kbps, afterRamp) /\ Upshifts(rung - 1))
  <2>1. bitrate' = kbps
    BY <1>5 DEF Relaxed
  <2> HIDE DEF kbps
  <2> QED
    BY <1>1, <1>2, <1>3, <2>1
<1> QED
  BY <1>4, <1>5

\* Each step keeps the two counters in step.
LEMMA CountsStep ==
  ASSUME AdaptiveInv, CountsNoMore, [AdaptiveNext]_adaptiveVars
  PROVE  CountsNoMore'
<1>1. clean \in Nat /\ cleanRun \in 0..RampUpTicks
  BY Limits DEF AdaptiveInv, AdaptiveTypeOK
<1>2. ASSUME NEW w \in Windows, Relaxed(w) PROVE CountsNoMore'
  <2> DEFINE run == Least(clean + 1, UpshiftTicks)
             afterRamp == IF Ramps(run) THEN 0 ELSE run
  <2>1. clean' \in {0, afterRamp} /\ cleanRun' = Least(cleanRun + 1, RampUpTicks)
    BY <1>2 DEF Relaxed
  <2>2. run \in Nat /\ run <= clean + 1
    BY <1>1, Limits DEF Least
  <2> HIDE DEF run
  <2>3. clean' \in Nat /\ clean' <= clean + 1
    BY <1>1, <2>1, <2>2
  <2> QED
    BY <1>1, <2>1, <2>3, Limits DEF CountsNoMore, Least
<1>3. CASE \/ \E w \in Windows : Congested(w)
           \/ \E k \in UserKbps : SetLiveVideoBitrateKbps(k)
           \/ ResetFeedbackWindow
  <2>1. clean' = 0 /\ (cleanRun' = 0 \/ cleanRun' = cleanRun)
    BY <1>3 DEF Congested, SetLiveVideoBitrateKbps, ResetFeedbackWindow
  <2> QED
    BY <1>1, <2>1 DEF CountsNoMore
<1>4. CASE \/ Quiet \/ \E w \in Windows : DisabledEvaluate(w)
           \/ \E d \in DelayRequests : SetPlayoutDelayMs(d)
           \/ UNCHANGED adaptiveVars
  BY <1>4 DEF Quiet, DisabledEvaluate, SetPlayoutDelayMs, adaptiveVars, counters, CountsNoMore
<1> QED
  BY <1>2, <1>3, <1>4 DEF AdaptiveNext, CheckAdaptation

\* The bitrate rises on its own only after RampUpTicks clean evaluations in a
\* row, whatever the slider, a reconnect or a rung up does to the counters.
THEOREM HysteresisHolds == AdaptiveSpec => Hysteresis
<1>1. AdaptiveInit => CountsNoMore
  BY DEF AdaptiveInit, CountsNoMore
<1>2. AdaptiveInv /\ CountsNoMore /\ [AdaptiveNext]_adaptiveVars => CountsNoMore'
  BY CountsStep
<1>3. AdaptiveInv /\ CountsNoMore /\ [AdaptiveNext]_adaptiveVars
        => [verdict' = "clean" /\ bitrate' > bitrate => cleanRun' >= RampUpTicks]_adaptiveVars
  <2> SUFFICES ASSUME AdaptiveInv, CountsNoMore, AdaptiveNext, verdict' = "clean", bitrate' > bitrate
               PROVE  cleanRun' >= RampUpTicks
    OBVIOUS
  <2>1. PICK w \in Windows : Relaxed(w)
    BY DEF AdaptiveNext, CheckAdaptation, Quiet, Congested, DisabledEvaluate, SetLiveVideoBitrateKbps,
       SetPlayoutDelayMs, ResetFeedbackWindow
  <2>2. Least(clean + 1, UpshiftTicks) >= RampUpTicks
    BY <2>1, RaisedByRamp
  <2>3. clean \in Nat /\ cleanRun \in 0..RampUpTicks
    BY Limits DEF AdaptiveInv, AdaptiveTypeOK
  <2>4. cleanRun' = Least(cleanRun + 1, RampUpTicks)
    BY <2>1 DEF Relaxed
  <2>5. clean + 1 >= RampUpTicks
    BY <2>2, <2>3, Limits DEF Least
  <2> QED
    BY <2>3, <2>4, <2>5, Limits DEF CountsNoMore, Least
<1> QED
  BY <1>1, <1>2, <1>3, AdaptiveInvariant, PTL DEF AdaptiveSpec, Hysteresis
=============================================================================
