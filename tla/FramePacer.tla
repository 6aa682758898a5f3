---------------------------- MODULE FramePacer ----------------------------
(***************************************************************************)
(* castcore::FramePacer (frame_pacer.h): it turns an irregular stream of   *)
(* captured frames into a fixed-cadence stream.  Each due tick emits the   *)
(* newest frame staged since the tick before, or sends the previous frame  *)
(* again.  The pacer reads no clock of its own: the caller passes the      *)
(* time.  A frame is the number of the capture its pixels come from and    *)
(* its time stamp; crop offsets and the recycled pixel buffer are left     *)
(* out.  Times are natural numbers and the epoch is 0.                     *)
(***************************************************************************)
EXTENDS Integers

CONSTANTS
  Intervals,       \* the cadence intervals the target frame rate may give
  DefaultInterval, \* the interval of target_fps_'s initial value
  MinStamp,        \* the 1 ms floor between two stamps
  NoFrame          \* have_pending_ or have_last_ is false

ASSUME PacerAssumption ==
  /\ Intervals \subseteq Nat \ {0}
  /\ DefaultInterval \in Intervals
  /\ MinStamp \in Nat \ {0}
  /\ NoFrame \notin [id : Nat, ts : Nat]

VARIABLES
  interval,     \* Interval(), a function of target_fps_
  nextEmit,     \* next_emit_
  lastEmitTs,   \* last_emit_ts_
  lastEmitNow,  \* last_emit_now_
  hurried,      \* history: MinStamp for each emit sooner than that after the one
                \* before, since a source's own stamp was last taken
  pending,      \* pending_, or NoFrame
  last,         \* last_, or NoFrame
  decision,     \* what the latest Tick returned
  now           \* the steady clock its callers read

timing == <<nextEmit, lastEmitTs, lastEmitNow, hurried>>
pacerVars == <<interval, timing, pending, last, decision>>

Frame == [id : Nat, ts : Nat]
Nothing == [emit |-> FALSE, fresh |-> FALSE, frame |-> NoFrame]

PacerTypeOK ==
  /\ interval \in Intervals
  /\ nextEmit \in Nat /\ lastEmitTs \in Nat /\ lastEmitNow \in Nat /\ hurried \in Nat
  /\ pending \in Frame \cup {NoFrame}
  /\ last \in Frame \cup {NoFrame}
  /\ decision \in [emit : BOOLEAN, fresh : BOOLEAN, frame : Frame \cup {NoFrame}]
  /\ now \in Nat

\* The constructor, called at time t.
NewPacer(t) ==
  /\ interval = DefaultInterval
  /\ nextEmit = t
  /\ lastEmitTs = 0 /\ lastEmitNow = 0 /\ hurried = 0
  /\ pending = NoFrame /\ last = NoFrame
  /\ decision = Nothing

-----------------------------------------------------------------------------

\* SetTargetFps.
SetTargetFps(i) ==
  /\ interval' = i
  /\ UNCHANGED <<timing, pending, last, decision>>

\* Faulty Submit: the first staged frame is kept.
SubmitFirst(frame) ==
  /\ pending' = IF pending = NoFrame THEN frame ELSE pending
  /\ UNCHANGED <<interval, timing, last, decision>>

\* Submit: only the newest staged frame is kept.
Submit(frame) ==
  /\ pending' = frame
  /\ UNCHANGED <<interval, timing, last, decision>>

HasFrame == last # NoFrame \/ pending # NoFrame

AtLeast(a, b) == IF a >= b THEN a ELSE b

\* Faulty Resynced: a loop that fell behind replays its backlog.
ReplaysBacklog(t) == IF t + 4 * interval < nextEmit THEN t ELSE nextEmit

\* The deadline after Tick's resync: a loop that fell behind, or a deadline
\* scheduled by a much longer interval, restarts the cadence now.
Resynced(t) ==
  IF t > nextEmit + 4 * interval \/ t + 4 * interval < nextEmit THEN t ELSE nextEmit

\* The frame a due tick holds, and whether it is a new capture.
Held == IF pending # NoFrame THEN pending ELSE last
Fresh == pending # NoFrame

\* Faulty Stamp: no floor, or a floor of one cadence interval.
StampNoFloor(t) ==
  IF Fresh /\ Held.ts > lastEmitTs THEN Held.ts ELSE lastEmitTs + (t - lastEmitNow)

StampIntervalFloor(t) ==
  IF Fresh /\ Held.ts > lastEmitTs
    THEN Held.ts
    ELSE lastEmitTs + AtLeast(t - lastEmitNow, interval)

\* Its stamp: the source's own when it leads the timeline, otherwise the
\* timeline moved on by the time that elapsed since the last emit.
Stamp(t) ==
  IF Fresh /\ Held.ts > lastEmitTs
    THEN Held.ts
    ELSE lastEmitTs + AtLeast(t - lastEmitNow, MinStamp)

Emit(t) ==
  LET stamped == [id |-> Held.id, ts |-> Stamp(t)]
  IN /\ last' = stamped
     /\ lastEmitTs' = stamped.ts
     /\ lastEmitNow' = t
     /\ hurried' = IF Fresh /\ Held.ts > lastEmitTs THEN 0
                   ELSE hurried + (IF t - lastEmitNow < MinStamp THEN MinStamp ELSE 0)
     /\ decision' = [emit |-> TRUE, fresh |-> Fresh, frame |-> stamped]

\* Tick at time t.
TickEarly(t) ==
  /\ t < Resynced(t)
  /\ nextEmit' = Resynced(t)
  /\ decision' = Nothing
  /\ UNCHANGED <<interval, lastEmitTs, lastEmitNow, hurried, pending, last>>

TickDue(t) ==
  /\ t >= Resynced(t)
  /\ pending' = NoFrame
  /\ IF Held # NoFrame
       THEN Emit(t)
       ELSE /\ decision' = Nothing
            /\ UNCHANGED <<last, lastEmitTs, lastEmitNow, hurried>>
  /\ nextEmit' = Resynced(t) + interval
  /\ UNCHANGED interval

Tick(t) == TickEarly(t) \/ TickDue(t)

-----------------------------------------------------------------------------

\* What any caller may do: let time pass, change the rate, stage a frame that
\* was not presented in the future, and tick at the time it read.
PacerInit == now \in Nat \ {0} /\ NewPacer(now)

PacerNext ==
  \/ now' \in Nat /\ now' >= now /\ UNCHANGED pacerVars
  \/ interval' \in Intervals /\ SetTargetFps(interval') /\ UNCHANGED now
  \/ pending' \in Frame /\ pending'.ts \in 1..now /\ Submit(pending') /\ UNCHANGED now
  \/ Tick(now) /\ UNCHANGED now

PacerSpec == PacerInit /\ [][PacerNext]_<<pacerVars, now>>

-----------------------------------------------------------------------------

\* A tick that hands out a frame.
Emits == decision' # decision /\ decision'.emit

\* Every emitted frame is stamped later than the one before, whatever the
\* source's stamps and the ticks' times are: the encoders turn the stamp into
\* the RTP time stamp, and the receiver plays by it (Tick's stamp branches).
StrictStamps == [][Emits => decision'.frame.ts > lastEmitTs]_pacerVars

\* However many frames are sent again between two captures, the video timeline
\* leads the wall clock by the 1 ms floors alone that emits less than 1 ms after
\* the one before were given, and not at all where there were none; a capture
\* that leads the timeline ends the lead.  A lead shows video late against audio
\* for the whole session: flooring at the interval, "the timeline ratchets ahead
\* of wall clock" (Tick).
LeadsByFloors == lastEmitTs <= lastEmitNow + hurried
=============================================================================
