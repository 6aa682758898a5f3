----------------------- MODULE DisplayCaptureProofs -----------------------
(***************************************************************************)
(* What FramePacer promises every caller, for every set of rates and every *)
(* course of time: its type invariant, the order of its stamps, and that   *)
(* it never emits faster than its rate allows.  Then the capture worker:   *)
(* it uses FramePacer as FramePacer asks to be used, never acquires from a *)
(* lost duplication, and lets the video timeline lead the clock by no more *)
(* than the floors of its hurried emits.  What it sends again without      *)
(* drawing it shows the frame the pacer sends again, and the newest        *)
(* capture is never withheld.                                              *)
(***************************************************************************)
EXTENDS DisplayCapture, PacerCadence, TLAPS

USE PacerAssumption, CadenceAssumption, CaptureAssumption

\* The deadline a tick works from is a time.
LEMMA ResyncedIsTime ==
  ASSUME PacerTypeOK
  PROVE  Resynced(now) \in Nat
BY DEF PacerTypeOK, Resynced

\* The stamp of a held frame is a time and lies past the latest stamp.
LEMMA StampAdvances ==
  ASSUME PacerTypeOK, Held # NoFrame
  PROVE  /\ Held \in Frame
         /\ Stamp(now) \in Nat
         /\ Stamp(now) > lastEmitTs
<1>1. Held \in Frame
  BY DEF Held, PacerTypeOK
<1>2. CASE Fresh /\ Held.ts > lastEmitTs
  BY <1>1, <1>2 DEF Stamp, PacerTypeOK, Frame
<1>3. CASE ~(Fresh /\ Held.ts > lastEmitTs)
  <2>1. AtLeast(now - lastEmitNow, MinStamp) \in Nat \ {0}
    BY DEF AtLeast, PacerTypeOK
  <2> QED
    BY <1>1, <1>3, <2>1 DEF Stamp, PacerTypeOK
<1> QED
  BY <1>2, <1>3

\* Every step of a caller keeps the type invariant.
LEMMA TypeStep ==
  ASSUME PacerTypeOK, [PacerNext]_<<pacerVars, now>>
  PROVE  PacerTypeOK'
<1>1. CASE UNCHANGED <<pacerVars, now>>
  BY <1>1 DEF PacerTypeOK, pacerVars, timing
<1>2. CASE now' \in Nat /\ now' >= now /\ UNCHANGED pacerVars
  BY <1>2 DEF PacerTypeOK, pacerVars, timing
<1>3. CASE interval' \in Intervals /\ SetTargetFps(interval') /\ UNCHANGED now
  BY <1>3 DEF PacerTypeOK, SetTargetFps, timing
<1>4. CASE pending' \in Frame /\ pending'.ts \in 1..now /\ Submit(pending') /\ UNCHANGED now
  BY <1>4 DEF PacerTypeOK, Submit, timing
<1>5. CASE TickEarly(now) /\ UNCHANGED now
  BY <1>5, ResyncedIsTime DEF PacerTypeOK, TickEarly, Nothing
<1>6. CASE TickDue(now) /\ UNCHANGED now
  <2>1. nextEmit' \in Nat /\ interval' = interval /\ pending' = NoFrame /\ now' = now
    BY <1>6, ResyncedIsTime DEF TickDue, PacerTypeOK
  <2>2. CASE Held = NoFrame
    <3>1. decision' = Nothing /\ UNCHANGED <<last, lastEmitTs, lastEmitNow, hurried>>
      BY <1>6, <2>2 DEF TickDue
    <3>2. Nothing \in [emit : BOOLEAN, fresh : BOOLEAN, frame : Frame \cup {NoFrame}]
      BY DEF Nothing
    <3> QED
      BY <2>1, <3>1, <3>2 DEF PacerTypeOK
  <2>3. CASE Held # NoFrame
    <3>1. /\ last' = [id |-> Held.id, ts |-> Stamp(now)]
          /\ lastEmitTs' = Stamp(now)
          /\ lastEmitNow' = now
          /\ decision' = [emit |-> TRUE, fresh |-> Fresh,
                          frame |-> [id |-> Held.id, ts |-> Stamp(now)]]
      BY <1>6, <2>3 DEF TickDue, Emit
    <3>2. last' \in Frame
      BY <3>1, <2>3, StampAdvances DEF Frame
    <3>3. decision' \in [emit : BOOLEAN, fresh : BOOLEAN, frame : Frame \cup {NoFrame}]
      BY <3>1, <3>2 DEF Fresh
    <3>4. hurried' \in Nat
      <4>1. \/ hurried' = 0
            \/ hurried' = hurried + (IF now - lastEmitNow < MinStamp THEN MinStamp ELSE 0)
        BY <1>6, <2>3 DEF TickDue, Emit
      <4>2. MinStamp \in Nat /\ hurried \in Nat
        BY PacerAssumption DEF PacerTypeOK
      <4> QED
        BY ONLY <4>1, <4>2
    <3> QED
      BY <2>1, <2>3, <3>1, <3>2, <3>3, <3>4, StampAdvances DEF PacerTypeOK
  <2> QED
    BY <2>2, <2>3
<1> QED
  BY <1>1, <1>2, <1>3, <1>4, <1>5, <1>6 DEF PacerNext, Tick

\* FramePacer's state has its type under every caller.
THEOREM PacerTypeInvariant == PacerSpec => []PacerTypeOK
<1>1. PacerInit => PacerTypeOK
  BY DEF PacerInit, NewPacer, PacerTypeOK, Nothing
<1>2. PacerTypeOK /\ [PacerNext]_<<pacerVars, now>> => PacerTypeOK'
  BY TypeStep
<1> QED
  BY <1>1, <1>2, PTL DEF PacerSpec

\* Emitted stamps strictly increase, whatever the caller submits and whenever
\* it ticks (Tick's stamp branches, frame_pacer.h).
THEOREM StampsIncrease == PacerSpec => StrictStamps
<1>1. PacerTypeOK /\ [PacerNext]_<<pacerVars, now>>
        => [Emits => decision'.frame.ts > lastEmitTs]_pacerVars
  <2> SUFFICES ASSUME PacerTypeOK, PacerNext, Emits
               PROVE  decision'.frame.ts > lastEmitTs
    BY DEF Emits, pacerVars
  <2>1. CASE now' \in Nat /\ now' >= now /\ UNCHANGED pacerVars
    BY <2>1 DEF Emits, pacerVars
  <2>2. CASE interval' \in Intervals /\ SetTargetFps(interval') /\ UNCHANGED now
    BY <2>2 DEF Emits, SetTargetFps
  <2>3. CASE pending' \in Frame /\ pending'.ts \in 1..now /\ Submit(pending') /\ UNCHANGED now
    BY <2>3 DEF Emits, Submit
  <2>4. CASE TickEarly(now) /\ UNCHANGED now
    BY <2>4 DEF Emits, TickEarly, Nothing
  <2>5. CASE TickDue(now) /\ UNCHANGED now
    <3>1. Held # NoFrame
      BY <2>5 DEF TickDue, Emits, Nothing
    <3>2. decision'.frame.ts = Stamp(now)
      BY <2>5, <3>1 DEF TickDue, Emit
    <3> QED
      BY <3>1, <3>2, StampAdvances
  <2> QED
    BY <2>1, <2>2, <2>3, <2>4, <2>5 DEF PacerNext, Tick
<1> QED
  BY <1>1, PacerTypeInvariant, PTL DEF PacerSpec, StrictStamps

-----------------------------------------------------------------------------
(* The cadence.                                                              *)


\* Inductive: while a window counts emits, the deadline is paid for by them up
\* to four intervals, and lies at most one interval past the latest emit.
Paid ==
  /\ since <= now /\ lastEmitNow <= now
  /\ sent # 0 =>
       /\ nextEmit >= since + sent - 4 * interval
       /\ nextEmit <= lastEmitNow + interval
       /\ last # NoFrame

CadenceInv == CadenceTypeOK /\ Paid

\* The resync leaves the deadline at most four intervals behind, and never
\* moves it back once a window counts.
LEMMA ResyncedBounds ==
  ASSUME CadenceInv
  PROVE  /\ Resynced(now) \in Nat
         /\ Resynced(now) >= now - 4 * interval
         /\ sent # 0 => Resynced(now) >= nextEmit
BY DEF CadenceInv, CadenceTypeOK, PacerTypeOK, Paid, Resynced

\* A due tick that emits, seen from the window.
LEMMA EmitKeepsPaid ==
  ASSUME CadenceInv, TickDue(now), Held # NoFrame, UNCHANGED now,
         NEW open \in BOOLEAN,
         since' = IF open THEN now ELSE since,
         sent' = (IF open THEN 0 ELSE sent) + interval,
         lastEmitNow' = now, last' # NoFrame
  PROVE  Paid' /\ since' \in Nat /\ sent' \in Nat
<1>1. /\ nextEmit' = Resynced(now) + interval /\ interval' = interval
      /\ Resynced(now) <= now
  BY ResyncedBounds DEF TickDue, CadenceInv, CadenceTypeOK, PacerTypeOK
<1>2. CASE open \/ sent = 0
  BY <1>1, <1>2, ResyncedBounds DEF CadenceInv, CadenceTypeOK, PacerTypeOK, Paid
<1>3. CASE ~open /\ sent # 0
  BY <1>1, <1>3, ResyncedBounds DEF CadenceInv, CadenceTypeOK, PacerTypeOK, Paid
<1> QED
  BY <1>2, <1>3

\* Every step of this caller is one FramePacer allows.
LEMMA StepIsPacers ==
  ASSUME CadenceInv, [CadenceNext]_cadenceVars
  PROVE  [PacerNext]_<<pacerVars, now>>
<1>1. CASE Advance
  BY <1>1 DEF Advance, CadenceInv, CadenceTypeOK, PacerTypeOK, PacerNext
<1>2. CASE ChangeRate
  <2>1. PICK i \in Intervals : SetTargetFps(i) /\ UNCHANGED now
    BY <1>2 DEF ChangeRate
  <2>2. interval' = i
    BY <2>1 DEF SetTargetFps
  <2> QED
    BY <2>1, <2>2 DEF PacerNext
<1>3. CASE Capture
  <2>1. PICK age \in Lags : age < now /\ Submit([id |-> 1, ts |-> now - age]) /\ UNCHANGED now
    BY <1>3 DEF Capture
  <2>2. pending' = [id |-> 1, ts |-> now - age]
    BY <2>1 DEF Submit
  <2>3. pending' \in Frame /\ pending'.ts \in 1..now
    BY <2>1, <2>2 DEF Frame, CadenceInv, CadenceTypeOK, PacerTypeOK
  <2> QED
    BY <2>1, <2>2, <2>3 DEF PacerNext
<1>4. CASE TickNow
  BY <1>4 DEF TickNow, PacerNext
<1>5. CASE UNCHANGED cadenceVars
  BY <1>5 DEF cadenceVars
<1> QED
  BY <1>1, <1>2, <1>3, <1>4, <1>5 DEF CadenceNext

\* The inductive invariant is kept by every step.
LEMMA InvStep ==
  ASSUME CadenceInv, [CadenceNext]_cadenceVars
  PROVE  CadenceInv'
<1>1. PacerTypeOK'
  BY StepIsPacers, TypeStep DEF CadenceInv, CadenceTypeOK
<1>2. CASE Advance
  BY <1>1, <1>2 DEF Advance, CadenceInv, CadenceTypeOK, PacerTypeOK, Paid, pacerVars, timing
<1>3. CASE ChangeRate
  BY <1>1, <1>3 DEF ChangeRate, SetTargetFps, timing, CadenceInv, CadenceTypeOK, PacerTypeOK, Paid
<1>4. CASE Capture
  BY <1>1, <1>4 DEF Capture, Submit, timing, CadenceInv, CadenceTypeOK, PacerTypeOK, Paid
<1>5. CASE TickNow
  <2>1. PICK open \in BOOLEAN :
          /\ since' = IF open THEN now ELSE since
          /\ sent' = (IF open THEN 0 ELSE sent) + (IF decision'.emit THEN interval ELSE 0)
    BY <1>5 DEF TickNow
  <2>2. CASE TickEarly(now)
    <3>1. decision'.emit = FALSE
      BY <2>2 DEF TickEarly, Nothing
    <3>2. /\ nextEmit' = Resynced(now) /\ UNCHANGED <<interval, lastEmitNow, last, now>>
      BY <1>5, <2>2 DEF TickEarly, TickNow
    <3>3. sent # 0 => Resynced(now) <= lastEmitNow + interval
      BY <2>2 DEF TickEarly, Resynced, CadenceInv, CadenceTypeOK, PacerTypeOK, Paid
    <3> QED
      BY <1>1, <2>1, <3>1, <3>2, <3>3, ResyncedBounds DEF CadenceInv, CadenceTypeOK, PacerTypeOK, Paid
  <2>3. CASE TickDue(now) /\ Held = NoFrame
    <3>1. /\ decision'.emit = FALSE /\ UNCHANGED <<interval, lastEmitNow, last, now>>
      BY <1>5, <2>3 DEF TickDue, TickNow, Nothing
    <3>2. last = NoFrame
      <4>1. pending = NoFrame
        BY <2>3 DEF Held, CadenceInv, CadenceTypeOK, PacerTypeOK
      <4> QED
        BY <2>3, <4>1 DEF Held
    <3> QED
      BY <1>1, <2>1, <3>1, <3>2 DEF CadenceInv, CadenceTypeOK, PacerTypeOK, Paid
  <2>4. CASE TickDue(now) /\ Held # NoFrame
    <3>1. /\ decision'.emit = TRUE /\ lastEmitNow' = now
          /\ last' = [id |-> Held.id, ts |-> Stamp(now)]
      BY <2>4 DEF TickDue, Emit
    <3>2. last' # NoFrame
      <4>1. last' \in Frame
        BY <3>1, <2>4, StampAdvances DEF Frame, CadenceInv, CadenceTypeOK
      <4> QED
        BY <4>1 DEF Frame
    <3>3. UNCHANGED now /\ sent' = (IF open THEN 0 ELSE sent) + interval
      BY <1>5, <2>1, <3>1 DEF TickNow
    <3>4. Paid' /\ since' \in Nat /\ sent' \in Nat
      BY <2>1, <2>4, <3>1, <3>2, <3>3, EmitKeepsPaid
    <3> QED
      BY <1>1, <3>4 DEF CadenceInv, CadenceTypeOK
  <2> QED
    BY <1>5, <2>2, <2>3, <2>4 DEF TickNow, Tick
<1>6. CASE UNCHANGED cadenceVars
  BY <1>1, <1>6 DEF cadenceVars, pacerVars, timing, CadenceInv, CadenceTypeOK, Paid
<1> QED
  BY <1>2, <1>3, <1>4, <1>5, <1>6 DEF CadenceNext

\* A stall is never replayed as a burst: whatever the rates, the clock and the
\* ticks do, no stretch of time holds more than the emits its length pays for
\* and five more.
THEOREM CadenceRateBounded == CadenceSpec => []RateBounded
<1>1. CadenceInit => CadenceInv
  BY DEF CadenceInit, CadenceInv, CadenceTypeOK, Paid, NewPacer, PacerTypeOK, Nothing
<1>2. CadenceInv /\ [CadenceNext]_cadenceVars => CadenceInv'
  BY InvStep
<1>3. CadenceInv => RateBounded
  BY DEF CadenceInv, CadenceTypeOK, PacerTypeOK, Paid, RateBounded
<1> QED
  BY <1>1, <1>2, <1>3, PTL DEF CadenceSpec

-----------------------------------------------------------------------------
(* The capture worker.                                                     *)

\* Inductive: what each place of the loop may rely on.
LoopInv ==
  /\ PacerTypeOK
  /\ frameStart \in 1..now
  /\ presentTs \in 0..now
  /\ captured \in Nat
  /\ pc = "tick" => frameStart = now
  /\ NoNullAcquire

\* A stamp taken from the source or from the loop's clock is a past time.
LEMMA StageIsSubmit ==
  ASSUME LoopInv, NEW ts \in 1..now, Stage(ts), UNCHANGED now
  PROVE  PacerNext /\ captured' \in Nat
<1>1. /\ pending' = [id |-> captured + 1, ts |-> ts]
      /\ Submit([id |-> captured + 1, ts |-> ts])
  BY DEF Stage, Submit
<1>2. pending' \in Frame /\ pending'.ts \in 1..now
  BY <1>1 DEF Frame, LoopInv, PacerTypeOK
<1> QED
  BY <1>1, <1>2 DEF PacerNext, Stage, LoopInv

\* Letting time pass is a step of the pacer's environment.
LEMMA PassIsAdvance ==
  ASSUME LoopInv, Pass, UNCHANGED pacerVars
  PROVE  PacerNext /\ now' \in Nat /\ now' > now
<1>1. PICK d \in Gaps : now' = now + d
  BY DEF Pass
<1> QED
  BY <1>1 DEF PacerNext, LoopInv, PacerTypeOK

\* Each step of the worker is a step FramePacer allows, or leaves it alone.
LEMMA StepUsesPacer ==
  ASSUME LoopInv, [Next]_vars
  PROVE  /\ [PacerNext]_<<pacerVars, now>>
         /\ captured' \in Nat
<1>1. CASE Top
  <2>1. CASE running
    <3>1. PICK i \in Intervals : SetTargetFps(i)
      BY <1>1, <2>1 DEF Top
    <3>2. interval' = i
      BY <3>1 DEF SetTargetFps
    <3> QED
      BY <1>1, <3>1, <3>2 DEF Top, PacerNext, LoopInv
  <2>2. CASE ~running
    BY <1>1, <2>2 DEF Top, LoopInv
  <2> QED
    BY <2>1, <2>2
<1>2. CASE TickPacer
  BY <1>2 DEF TickPacer, PacerNext, LoopInv
<1>3. CASE EmitFrame \/ WindowClosed \/ SourceReady \/ GuardLive \/ GuardGivesUp
           \/ AcquiredNothing \/ AcquiredFailure \/ Stop \/ Done
  BY <1>3 DEF EmitFrame, WindowClosed, SourceReady, GuardLive, GuardGivesUp,
              AcquiredNothing, AcquiredFailure, Stop, Done, vars, loopVars, LoopInv
<1>4. CASE WindowHidden \/ WindowMoved \/ GuardRebuilds \/ Acquire \/ AcquiredLost
  <2>1. Pass /\ UNCHANGED <<pacerVars, captured>>
    BY <1>4 DEF WindowHidden, WindowMoved, GuardRebuilds, CreateDuplication, Acquire, AcquiredLost
  <2> QED
    BY <2>1, PassIsAdvance DEF LoopInv
<1>5. CASE Seed
  <2>1. CASE HasFrame
    BY <1>5, <2>1 DEF Seed, LoopInv
  <2>2. CASE ~HasFrame
    <3>1. Stage(frameStart) /\ UNCHANGED now
      BY <1>5, <2>2 DEF Seed
    <3> QED
      BY <3>1, StageIsSubmit DEF LoopInv
  <2> QED
    BY <2>1, <2>2
<1>6. CASE AcquiredContent
  <2>1. PICK age \in Ages : now - age > presentTs /\ Stage(now - age)
    BY <1>6 DEF AcquiredContent
  <2>2. now - age \in 1..now /\ UNCHANGED now
    BY <1>6, <2>1 DEF AcquiredContent, LoopInv, PacerTypeOK
  <2> QED
    BY <2>1, <2>2, StageIsSubmit
<1>7. CASE AcquiredPointerOnly
  <2>1. (IF presentTs # 0 THEN presentTs ELSE frameStart) \in 1..now
    BY DEF LoopInv, PacerTypeOK
  <2> QED
    BY <1>7, <2>1, StageIsSubmit DEF AcquiredPointerOnly
<1>8. CASE UNCHANGED vars
  BY <1>8 DEF vars, loopVars, LoopInv
<1> QED
  BY <1>1, <1>2, <1>3, <1>4, <1>5, <1>6, <1>7, <1>8 DEF Next

\* The invariant is kept by every step.
LEMMA LoopStep ==
  ASSUME LoopInv, [Next]_vars
  PROVE  LoopInv'
<1>1. PacerTypeOK' /\ captured' \in Nat
  BY StepUsesPacer, TypeStep DEF LoopInv
<1>2. CASE Top
  BY <1>1, <1>2 DEF Top, Goto, LoopInv, PacerTypeOK, NoNullAcquire
<1>3. CASE TickPacer
  BY <1>1, <1>3 DEF TickPacer, Goto, LoopInv, NoNullAcquire
<1>4. CASE EmitFrame
  BY <1>1, <1>4 DEF EmitFrame, Goto, LoopInv, NoNullAcquire
<1>5. CASE WindowClosed
  BY <1>1, <1>5 DEF WindowClosed, Leave, Goto, LoopInv, NoNullAcquire
<1>6. CASE WindowHidden \/ WindowMoved \/ GuardRebuilds \/ AcquiredLost
  <2>1. /\ Pass /\ pc' = "top" /\ UNCHANGED <<pacerVars, frameStart, presentTs>>
    BY <1>6 DEF WindowHidden, WindowMoved, GuardRebuilds, CreateDuplication, AcquiredLost, Goto
  <2>2. now' \in Nat /\ now' > now
    BY <2>1, PassIsAdvance
  <2> QED
    BY <1>1, <2>1, <2>2 DEF LoopInv, PacerTypeOK, NoNullAcquire
<1>7. CASE SourceReady
  BY <1>1, <1>7 DEF SourceReady, Goto, LoopInv, NoNullAcquire
<1>8. CASE Seed
  BY <1>1, <1>8 DEF Seed, Goto, LoopInv, NoNullAcquire
<1>9. CASE GuardLive
  BY <1>1, <1>9 DEF GuardLive, Goto, LoopInv, NoNullAcquire
<1>10. CASE GuardGivesUp
  BY <1>1, <1>10 DEF GuardGivesUp, Leave, Goto, LoopInv, NoNullAcquire
<1>11. CASE Acquire
  <2>1. /\ Pass /\ pc' = "acquired" /\ UNCHANGED <<pacerVars, frameStart, presentTs, dupl, mode>>
    BY <1>11 DEF Acquire, Goto
  <2>2. now' \in Nat /\ now' > now
    BY <2>1, PassIsAdvance
  <2> QED
    BY <1>1, <1>11, <2>1, <2>2 DEF Acquire, LoopInv, PacerTypeOK, NoNullAcquire
<1>12. CASE AcquiredNothing
  BY <1>1, <1>12 DEF AcquiredNothing, Goto, LoopInv, NoNullAcquire
<1>13. CASE AcquiredFailure
  BY <1>1, <1>13 DEF AcquiredFailure, Leave, Goto, LoopInv, NoNullAcquire
<1>14. CASE AcquiredContent
  <2>1. PICK age \in Ages : now - age > presentTs /\ presentTs' = now - age
    BY <1>14 DEF AcquiredContent
  <2>2. presentTs' \in 0..now
    BY <2>1 DEF LoopInv, PacerTypeOK
  <2> QED
    BY <1>1, <1>14, <2>2 DEF AcquiredContent, Goto, LoopInv, NoNullAcquire
<1>15. CASE AcquiredPointerOnly
  BY <1>1, <1>15 DEF AcquiredPointerOnly, Goto, LoopInv, NoNullAcquire
<1>16. CASE Stop
  BY <1>1, <1>16 DEF Stop, LoopInv, NoNullAcquire
<1>17. CASE Done \/ UNCHANGED vars
  BY <1>1, <1>17 DEF Done, vars, loopVars, LoopInv, NoNullAcquire
<1> QED
  BY <1>2, <1>3, <1>4, <1>5, <1>6, <1>7, <1>8, <1>9, <1>10, <1>11, <1>12, <1>13,
     <1>14, <1>15, <1>16, <1>17 DEF Next

\* The worker starts in the invariant.
LEMMA LoopInit == Init => LoopInv
BY PacerAssumption DEF Init, NewPacer, LoopInv, PacerTypeOK, NoNullAcquire, Nothing

\* The worker never acquires from a duplication it lost: the guard is the only
\* way to the acquire and lets a live one through only (CaptureLoop).
THEOREM NoNullAcquireAlways == Spec => []NoNullAcquire
<1>1. LoopInv /\ [Next]_vars => LoopInv'
  BY LoopStep
<1>2. LoopInv => NoNullAcquire
  BY DEF LoopInv
<1> QED
  BY LoopInit, <1>1, <1>2, PTL DEF Spec

\* Both capture loops use FramePacer as it asks: they tick at the time they
\* read, and stage no frame from the future.  So every promise of FramePacer
\* to any caller holds of the worker.
THEOREM CaptureUsesPacer == Spec => PacerSpec
<1>1. Init => PacerInit
  BY DEF Init, PacerInit
<1>2. LoopInv /\ [Next]_vars => LoopInv'
  BY LoopStep
<1>3. LoopInv /\ [Next]_vars => [PacerNext]_<<pacerVars, now>>
  BY StepUsesPacer
<1> QED
  BY LoopInit, <1>1, <1>2, <1>3, PTL DEF Spec, PacerSpec

\* The pacer's stamps increase strictly for the whole stream.
COROLLARY CaptureStampsIncrease == Spec => StrictStamps
BY CaptureUsesPacer, StampsIncrease

-----------------------------------------------------------------------------

\* Inductive: nothing the pacer holds is from the future, and the first emit
\* takes its capture's own stamp.
Behind ==
  /\ LeadsByFloors /\ lastEmitNow <= now
  /\ pending # NoFrame => pending.ts \in 1..now
  /\ last = NoFrame => lastEmitTs = 0

LeadInv == PacerTypeOK /\ Behind

\* An emit adds to the lead what it adds to the floors, or ends both.
LEMMA EmitKeepsBehind ==
  ASSUME LeadInv, Held # NoFrame, TickDue(now), UNCHANGED now
  PROVE  Behind'
<1>1. /\ pending' = NoFrame /\ lastEmitTs' = Stamp(now) /\ lastEmitNow' = now
      /\ last' = [id |-> Held.id, ts |-> Stamp(now)]
      /\ hurried' = IF Fresh /\ Held.ts > lastEmitTs THEN 0
                    ELSE hurried + (IF now - lastEmitNow < MinStamp THEN MinStamp ELSE 0)
  BY DEF TickDue, Emit
<1>2. last' # NoFrame
  <2>1. last' \in Frame
    BY <1>1, StampAdvances DEF Frame, LeadInv
  <2> QED
    BY <2>1, PacerAssumption DEF Frame
<1>3. Stamp(now) <= now + hurried'
  <2>1. CASE Fresh /\ Held.ts > lastEmitTs
    <3>1. Stamp(now) = pending.ts /\ hurried' = 0
      BY <1>1, <2>1 DEF Stamp, Held, Fresh
    <3> QED
      BY <2>1, <3>1 DEF Fresh, LeadInv, Behind, PacerTypeOK
  <2>2. CASE ~(Fresh /\ Held.ts > lastEmitTs)
    <3>1. Stamp(now) = lastEmitTs + AtLeast(now - lastEmitNow, MinStamp)
      BY <2>2 DEF Stamp
    <3>2. hurried' = hurried + (IF now - lastEmitNow < MinStamp THEN MinStamp ELSE 0)
      BY <1>1, <2>2
    <3>3. lastEmitTs \in Nat /\ lastEmitNow \in Nat /\ hurried \in Nat /\ now \in Nat
          /\ lastEmitTs <= lastEmitNow + hurried /\ lastEmitNow <= now
      BY DEF LeadInv, Behind, LeadsByFloors, PacerTypeOK
    <3>4. MinStamp \in Nat
      BY PacerAssumption
    <3> QED
      BY ONLY <3>1, <3>2, <3>3, <3>4 DEF AtLeast
  <2> QED
    BY <2>1, <2>2
<1> QED
  BY <1>1, <1>2, <1>3 DEF Behind, LeadsByFloors, LeadInv, PacerTypeOK

\* Every step of a caller keeps the bound.
LEMMA LeadStep ==
  ASSUME LeadInv, [PacerNext]_<<pacerVars, now>>
  PROVE  Behind'
<1>1. CASE UNCHANGED <<pacerVars, now>>
  BY <1>1 DEF LeadInv, Behind, LeadsByFloors, pacerVars, timing
<1>2. CASE now' \in Nat /\ now' >= now /\ UNCHANGED pacerVars
  BY <1>2 DEF LeadInv, Behind, LeadsByFloors, PacerTypeOK, pacerVars, timing
<1>3. CASE interval' \in Intervals /\ SetTargetFps(interval') /\ UNCHANGED now
  BY <1>3 DEF LeadInv, Behind, LeadsByFloors, SetTargetFps, timing
<1>4. CASE pending' \in Frame /\ pending'.ts \in 1..now /\ Submit(pending') /\ UNCHANGED now
  BY <1>4 DEF LeadInv, Behind, LeadsByFloors, Submit, timing
<1>5. CASE TickEarly(now) /\ UNCHANGED now
  BY <1>5 DEF LeadInv, Behind, LeadsByFloors, TickEarly
<1>6. CASE TickDue(now) /\ Held = NoFrame /\ UNCHANGED now
  BY <1>6 DEF LeadInv, Behind, LeadsByFloors, TickDue
<1>7. CASE TickDue(now) /\ Held # NoFrame /\ UNCHANGED now
  BY <1>7, EmitKeepsBehind
<1> QED
  BY <1>1, <1>2, <1>3, <1>4, <1>5, <1>6, <1>7 DEF PacerNext, Tick

\* Under any caller, whatever the course of its clock and however hurried its
\* ticks, the video timeline leads the clock by no more than the floors the
\* hurried emits since the last capture that led it were given (Tick's stamp
\* branches, frame_pacer.h).
THEOREM LeadIsFloors == PacerSpec => []LeadsByFloors
<1>1. PacerInit => LeadInv
  BY DEF PacerInit, NewPacer, LeadInv, Behind, LeadsByFloors, PacerTypeOK, Nothing
<1>2. LeadInv /\ [PacerNext]_<<pacerVars, now>> => LeadInv'
  BY LeadStep, TypeStep DEF LeadInv
<1>3. LeadInv => LeadsByFloors
  BY DEF LeadInv, Behind
<1> QED
  BY <1>1, <1>2, <1>3, PTL DEF PacerSpec

\* So it is for the capture loops, however short a pass of theirs is.
COROLLARY CaptureLeadIsFloors == Spec => []LeadsByFloors
BY CaptureUsesPacer, LeadIsFloors
-----------------------------------------------------------------------------

\* Inductive: the newest capture is the staged frame or, once a tick has taken
\* it, the pacer's last one, and a kept composite shows the pacer's last frame
\* unless a new one is about to be emitted.
ShowsNewest ==
  /\ pending # NoFrame => pending.id = captured
  /\ (pending = NoFrame /\ last # NoFrame) => last.id = captured
  /\ (pc = "emit" /\ decision.emit)
       => pending = NoFrame /\ last # NoFrame /\ decision.frame = last
  /\ overlay # NoOverlay
       => /\ last # NoFrame
          /\ (pc = "emit" /\ decision.emit /\ decision.fresh) \/ overlay.frame.id = last.id

FrameInv == LoopInv /\ TypeOK /\ ShowsNewest

\* A tick takes the staged frame, or emits the last one again.
LEMMA TickTakes ==
  ASSUME FrameInv, Tick(now), UNCHANGED now, pc # "emit", pc' = "emit",
         UNCHANGED <<captured, overlay>>
  PROVE  ShowsNewest'
<1>1. CASE TickEarly(now) \/ (TickDue(now) /\ Held = NoFrame)
  <2>1. decision' = Nothing /\ UNCHANGED last
    BY <1>1 DEF TickEarly, TickDue
  <2>2. UNCHANGED pending
    BY <1>1 DEF TickEarly, TickDue, Held
  <2> QED
    BY <2>1, <2>2 DEF Nothing, FrameInv, ShowsNewest
<1>2. CASE TickDue(now) /\ Held # NoFrame
  <2>1. /\ pending' = NoFrame
        /\ last' = [id |-> Held.id, ts |-> Stamp(now)]
        /\ decision' = [emit |-> TRUE, fresh |-> Fresh, frame |-> last']
    BY <1>2 DEF TickDue, Emit
  <2>2. last' # NoFrame
    <3>1. last' \in Frame
      BY <1>2, <2>1, StampAdvances DEF Frame, FrameInv, LoopInv
    <3> QED
      BY <3>1, PacerAssumption DEF Frame
  <2>3. last'.id = captured
    BY <1>2, <2>1 DEF Held, FrameInv, ShowsNewest
  <2>4. ~Fresh => last # NoFrame /\ last'.id = last.id
    BY <1>2, <2>1 DEF Held, Fresh
  <2>5. decision'.fresh = Fresh /\ decision'.emit /\ decision'.frame = last'
    BY <2>1
  <2> QED
    BY <2>1, <2>2, <2>3, <2>4, <2>5 DEF FrameInv, ShowsNewest
<1> QED
  BY <1>1, <1>2 DEF Tick

\* A capture stages its own number.
LEMMA StageNumbers ==
  ASSUME FrameInv, NEW ts \in Nat, Stage(ts), pc # "emit", pc' # "emit", UNCHANGED overlay
  PROVE  ShowsNewest'
<1>1. /\ pending' = [id |-> captured + 1, ts |-> ts] /\ captured' = captured + 1
      /\ UNCHANGED <<last, decision>>
  BY DEF Stage, Submit
<1>2. pending'.id = captured'
  BY <1>1
<1>3. pending' # NoFrame
  <2>1. captured + 1 \in Nat
    BY DEF FrameInv, LoopInv
  <2>2. pending' \in Frame
    BY <1>1, <2>1 DEF Frame
  <2> QED
    BY <2>2, PacerAssumption DEF Frame
<1> QED
  BY <1>1, <1>2, <1>3 DEF FrameInv, ShowsNewest

\* What EmitPacedFrame hands out, and what it keeps.
LEMMA EmitHandsOut ==
  ASSUME FrameInv, pc = "emit", decision.emit,
         NEW want, NEW hud, NEW pointer \in Pointers \cup {NoPointer},
         EmitPacedFrame(want, hud, pointer)
  PROVE  /\ delivered' \in Frame /\ delivered'.id = captured
         /\ overlay' \in [frame : Frame, pointer : Pointers] \cup {NoOverlay}
         /\ overlay' # NoOverlay => overlay'.frame.id = last.id
<1>1. last \in Frame /\ decision.frame = last /\ last.id = captured
  BY DEF FrameInv, ShowsNewest, TypeOK, PacerTypeOK
<1>2. CASE CanReuse(want, hud, pointer)
  <2>1. delivered' = overlay.frame /\ overlay' = overlay
    BY <1>2 DEF EmitPacedFrame
  <2>2. overlay # NoOverlay /\ ~decision.fresh
    BY <1>2 DEF CanReuse
  <2>3. overlay \in [frame : Frame, pointer : Pointers] /\ overlay.frame.id = last.id
    BY <2>2 DEF FrameInv, ShowsNewest, TypeOK
  <2> QED
    BY <1>1, <2>1, <2>3
<1>3. CASE ~CanReuse(want, hud, pointer)
  <2>1. delivered' = last /\ overlay' = Composite(want, pointer)
    BY <1>1, <1>3 DEF EmitPacedFrame
  <2>2. \/ overlay' = NoOverlay
        \/ overlay' = [frame |-> last, pointer |-> pointer] /\ pointer \in Pointers
    BY <1>1, <2>1 DEF Composite, CompositeCursor
  <2> QED
    BY <1>1, <2>1, <2>2
<1> QED
  BY <1>2, <1>3

\* The invariant is kept by every step, and only EmitFrame delivers.
LEMMA FrameStep ==
  ASSUME FrameInv, [Next]_vars
  PROVE  /\ FrameInv'
         /\ (pc = "emit" /\ decision.emit /\ pc' # pc) => delivered'.id = captured
<1>1. LoopInv'
  BY LoopStep DEF FrameInv
<1>2. CASE Top
  <2>1. UNCHANGED <<timing, pending, last, decision, captured, overlay>> /\ pc' \in {"tick", "ended"}
    BY <1>2 DEF Top, SetTargetFps, Goto, pacerVars
  <2>2. ShowsNewest'
    BY <1>2, <2>1 DEF Top, FrameInv, ShowsNewest
  <2>3. TypeOK'
    BY <1>1, <1>2, <2>1 DEF Top, FrameInv, TypeOK, LoopInv, Places
  <2> QED
    BY <1>1, <1>2, <2>2, <2>3 DEF Top, FrameInv
<1>3. CASE TickPacer
  <2>1. /\ pc = "tick" /\ pc' = "emit" /\ Tick(now)
        /\ UNCHANGED <<now, mode, running, stopped, frameStart, dupl, retries, presentTs,
                       captured, overlay, delivered, lostEmitted>>
    BY <1>3 DEF TickPacer, Goto, FrameInv, LoopInv
  <2>2. ShowsNewest'
    BY <2>1, TickTakes
  <2>3. TypeOK'
    BY <1>1, <2>1 DEF FrameInv, TypeOK, LoopInv, Places
  <2> QED
    BY <1>1, <2>1, <2>2, <2>3 DEF FrameInv
<1>4. CASE EmitFrame
  <2>1. /\ pc = "emit" /\ pc' = "source"
        /\ UNCHANGED <<pacerVars, now, mode, running, stopped, frameStart, dupl, retries,
                       presentTs, captured, lostEmitted>>
    BY <1>4 DEF EmitFrame, Goto
  <2>2. CASE decision.emit
    <3>1. PICK want \in BOOLEAN, hud \in BOOLEAN, pointer \in Pointers \cup {NoPointer} :
            EmitPacedFrame(want, hud, pointer)
      BY <1>4, <2>2 DEF EmitFrame
    <3>2. /\ delivered' \in Frame /\ delivered'.id = captured
          /\ overlay' \in [frame : Frame, pointer : Pointers] \cup {NoOverlay}
          /\ overlay' # NoOverlay => overlay'.frame.id = last.id
      BY <2>1, <2>2, <3>1, EmitHandsOut
    <3>3. last # NoFrame /\ UNCHANGED <<last, pending, decision, captured>>
      BY <2>1, <2>2 DEF FrameInv, ShowsNewest, pacerVars
    <3>4. ShowsNewest'
      BY <2>1, <2>2, <3>2, <3>3 DEF FrameInv, ShowsNewest
    <3>5. TypeOK'
      BY <1>1, <2>1, <3>2 DEF FrameInv, TypeOK, LoopInv, Places
    <3> QED
      BY <1>1, <3>2, <3>4, <3>5 DEF FrameInv
  <2>3. CASE ~decision.emit
    <3>1. UNCHANGED <<delivered, overlay>>
      BY <1>4, <2>3 DEF EmitFrame
    <3>2. ShowsNewest'
      BY <2>1, <2>3, <3>1 DEF FrameInv, ShowsNewest, pacerVars
    <3>3. TypeOK'
      BY <1>1, <2>1, <3>1 DEF FrameInv, TypeOK, LoopInv, Places
    <3> QED
      BY <1>1, <2>3, <3>2, <3>3 DEF FrameInv
  <2> QED
    BY <2>2, <2>3
<1>5. CASE WindowClosed \/ SourceReady \/ GuardLive \/ GuardGivesUp \/ AcquiredNothing
           \/ AcquiredFailure \/ WindowHidden \/ WindowMoved \/ GuardRebuilds \/ Acquire
           \/ AcquiredLost
  <2>1. /\ pc # "emit" /\ pc' \in Places \ {"emit"}
        /\ UNCHANGED <<pacerVars, mode, stopped, frameStart, presentTs, captured, overlay, delivered>>
    BY <1>5 DEF WindowClosed, SourceReady, GuardLive, GuardGivesUp, AcquiredNothing,
                AcquiredFailure, WindowHidden, WindowMoved, GuardRebuilds, CreateDuplication, Acquire, AcquiredLost,
                Leave, Goto, Places
  <2>4. running' \in BOOLEAN /\ dupl' \in BOOLEAN /\ lostEmitted' \in BOOLEAN
    BY <1>5 DEF WindowClosed, SourceReady, GuardLive, GuardGivesUp, AcquiredNothing,
                AcquiredFailure, WindowHidden, WindowMoved, GuardRebuilds, CreateDuplication, Acquire, AcquiredLost,
                Leave, EmitSourceLost, FrameInv, TypeOK
  <2>5. retries' \in 0..MaxRetries
    <3>1. CASE GuardRebuilds
      BY <3>1 DEF GuardRebuilds, CreateDuplication, FrameInv, TypeOK
    <3>2. CASE ~GuardRebuilds
      BY <1>5, <3>2 DEF WindowClosed, SourceReady, GuardLive, GuardGivesUp, AcquiredNothing,
                AcquiredFailure, WindowHidden, WindowMoved, Acquire, AcquiredLost,
                FrameInv, TypeOK
    <3> QED
      BY <3>1, <3>2
  <2>2. ShowsNewest'
    BY <2>1 DEF FrameInv, ShowsNewest, pacerVars
  <2>3. TypeOK'
    BY <1>1, <2>1, <2>4, <2>5 DEF FrameInv, TypeOK, LoopInv
  <2> QED
    BY <1>1, <2>1, <2>2, <2>3 DEF FrameInv
<1>6. CASE Seed \/ AcquiredContent \/ AcquiredPointerOnly
  <2>1. /\ pc # "emit" /\ pc' \in Places \ {"emit"} /\ presentTs' \in Nat /\ captured' \in Nat
        /\ UNCHANGED <<now, mode, running, stopped, frameStart, dupl, retries, overlay,
                       delivered, lostEmitted>>
    BY <1>1, <1>6 DEF Seed, AcquiredContent, AcquiredPointerOnly, Goto, Places, LoopInv
  <2>2. UNCHANGED <<pacerVars, captured>> \/ \E ts \in Nat : Stage(ts)
    <3>1. CASE Seed
      BY <3>1 DEF Seed, FrameInv, TypeOK
    <3>2. CASE AcquiredContent
      <4>1. PICK age \in Ages : now - age > presentTs /\ Stage(now - age)
        BY <3>2 DEF AcquiredContent
      <4>2. now - age \in Nat
        BY <4>1 DEF FrameInv, TypeOK, PacerTypeOK
      <4> QED
        BY <4>1, <4>2
    <3>3. CASE AcquiredPointerOnly
      BY <3>3 DEF AcquiredPointerOnly, FrameInv, TypeOK
    <3> QED
      BY <1>6, <3>1, <3>2, <3>3
  <2>3. ShowsNewest'
    <3>1. CASE UNCHANGED <<pacerVars, captured>>
      BY <2>1, <3>1 DEF FrameInv, ShowsNewest, pacerVars
    <3>2. CASE \E ts \in Nat : Stage(ts)
      <4>1. PICK ts \in Nat : Stage(ts)
        BY <3>2
      <4> QED
        BY <2>1, <4>1, StageNumbers
    <3> QED
      BY <2>2, <3>1, <3>2
  <2>4. TypeOK'
    BY <1>1, <2>1 DEF FrameInv, TypeOK, LoopInv
  <2> QED
    BY <1>1, <2>1, <2>3, <2>4 DEF FrameInv
<1>7. CASE Stop
  <2>1. /\ stopped' = TRUE /\ running' = FALSE
        /\ UNCHANGED <<pacerVars, now, pc, mode, frameStart, dupl, retries, presentTs, captured,
                       overlay, delivered, lostEmitted>>
    BY <1>7 DEF Stop
  <2>2. ShowsNewest'
    BY <2>1 DEF FrameInv, ShowsNewest, pacerVars
  <2>3. TypeOK'
    BY <1>1, <2>1 DEF FrameInv, TypeOK, LoopInv
  <2> QED
    BY <1>1, <2>1, <2>2, <2>3 DEF FrameInv
<1>8. CASE Done \/ UNCHANGED vars
  <2>1. UNCHANGED vars
    BY <1>8 DEF Done
  <2>2. ShowsNewest' /\ TypeOK'
    BY <2>1 DEF vars, loopVars, pacerVars, timing, FrameInv, ShowsNewest, TypeOK, PacerTypeOK
  <2> QED
    BY <1>1, <2>1, <2>2 DEF FrameInv, vars, loopVars
<1> QED
  BY <1>2, <1>3, <1>4, <1>5, <1>6, <1>7, <1>8 DEF Next

\* The worker starts with nothing captured and nothing kept.
LEMMA FrameInit == Init => FrameInv
<1>1. Init => LoopInv
  BY LoopInit
<1>2. ASSUME Init  PROVE TypeOK
  <2>1. /\ pc \in Places /\ mode \in Modes
        /\ running \in BOOLEAN /\ stopped \in BOOLEAN /\ lostEmitted \in BOOLEAN
    BY <1>2 DEF Init, Places
  <2>2. dupl \in BOOLEAN
    BY <1>2 DEF Init
  <2>3. /\ frameStart \in Nat /\ presentTs \in Nat /\ captured \in Nat
        /\ retries \in 0..MaxRetries
    BY <1>2 DEF Init
  <2>4. overlay = NoOverlay /\ delivered = NoFrame
    BY <1>2 DEF Init
  <2> QED
    BY <1>1, <1>2, <2>1, <2>2, <2>3, <2>4 DEF TypeOK, LoopInv
<1>3. Init => ShowsNewest
  BY DEF Init, NewPacer, ShowsNewest
<1> QED
  BY <1>1, <1>2, <1>3 DEF FrameInv

\* The worker's variables keep their types.
THEOREM CaptureTypeCorrect == Spec => []TypeOK
<1>1. FrameInv /\ [Next]_vars => FrameInv'
  BY FrameStep
<1>2. FrameInv => TypeOK
  BY DEF FrameInv
<1> QED
  BY FrameInit, <1>1, <1>2, PTL DEF Spec

\* A composite kept for re-sends shows the pacer's last frame whenever a tick
\* is not being emitted (EmitPacedFrame's overlay_cache_).
THEOREM OverlayMatchesAlways == Spec => []OverlayMatches
<1>1. FrameInv /\ [Next]_vars => FrameInv'
  BY FrameStep
<1>2. FrameInv => OverlayMatches
  BY DEF FrameInv, ShowsNewest, OverlayMatches
<1> QED
  BY FrameInit, <1>1, <1>2, PTL DEF Spec

\* Each frame handed to the session shows the newest capture staged before its
\* tick, whether EmitPacedFrame composes it or sends its composite again.
THEOREM CaptureDeliversNewest == Spec => DeliversNewest
<1>1. FrameInv /\ [Next]_vars => FrameInv'
  BY FrameStep
<1>2. FrameInv /\ [Next]_vars
        => [(pc = "emit" /\ decision.emit /\ pc' # pc) => delivered'.id = captured]_vars
  BY FrameStep
<1> QED
  BY FrameInit, <1>1, <1>2, PTL DEF Spec, DeliversNewest
=============================================================================
