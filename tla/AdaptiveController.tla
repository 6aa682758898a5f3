------------------------- MODULE AdaptiveController -------------------------
(***************************************************************************)
(* castcore::AdaptiveController (adaptive_controller.cc) and the two       *)
(* places of CastSession that apply what it decides to the encoder: the    *)
(* adaptation thread, once an evaluation interval, and the user's bitrate  *)
(* slider, both under params_mutex_.                                       *)
(*                                                                         *)
(* An evaluation reads a window: what the feedback of the interval adds up *)
(* to (OnFeedback), chosen freely.  The smoothed RTT and jitter are read   *)
(* as the classes the thresholds tell apart.  Time is counted in           *)
(* evaluation intervals of one second.  The picture's size and rate, which *)
(* follow the rung, are left out.                                          *)
(***************************************************************************)
EXTENDS Integers

CONSTANTS
  Settings,       \* what Start may begin with: [width, height, fps, kbps, cap, enabled]
  Windows,        \* what an interval's feedback may add up to
  UserKbps,       \* bitrates the slider asks for
  DelayRequests,  \* playout delays the receiver asks for
  RampUpTicks,    \* kRampUpCleanTicks, 8
  CeilingTicks,   \* kStabilityCapCleanTicks, 10
  UpshiftTicks,   \* 10 clean evaluations before a rung up
  CalmTicks,      \* 15 clean evaluations before a shorter delay
  TrendTicks,     \* kRttTrendTicks, 3
  Cooldown,       \* 4 intervals between downshifts
  EmergencyCooldown,  \* 3 seconds
  UpshiftAfter,   \* 15 seconds after a downshift
  FreshAge        \* 10 seconds: the age Initialize gives the last downshift

\* BuildLadder.
Ladder ==
  <<[width |-> 3840, height |-> 2160, fps |-> 60, kbps |-> 25000],
    [width |-> 3840, height |-> 2160, fps |-> 30, kbps |-> 16000],
    [width |-> 2560, height |-> 1440, fps |-> 60, kbps |-> 12000],
    [width |-> 1920, height |-> 1080, fps |-> 60, kbps |->  8000],
    [width |-> 1920, height |-> 1080, fps |-> 30, kbps |->  5000],
    [width |-> 1280, height |->  720, fps |-> 60, kbps |->  3500],
    [width |-> 1280, height |->  720, fps |-> 30, kbps |->  2000],
    [width |->  960, height |->  540, fps |-> 30, kbps |->  1200]>>

Rungs == 1..8   \* the code counts from 0
Floor == 8
Kbps(r) == Ladder[r].kbps
FloorKbps == Kbps(Floor)
Ceiling == 8000

MinPlayoutDelay == 150
MaxPlayoutDelay == 400

Window ==
  [loss : Nat,                          \* fraction lost, in thousandths
   nacks : Nat,                         \* distinct NACKs
   pli : BOOLEAN,
   sampled : BOOLEAN,                   \* the interval had an RTT sample
   rtt : {"short", "medium", "long"},   \* < 25 ms, ..., > 120 ms
   rises : BOOLEAN,                     \* by more than kRttTrendMinRiseMs
   jitter : {"low", "medium", "high"}]  \* < 8 ms, ..., > 30 ms

Positive == Nat \ {0}

\* Any picture, frame rate and limit of the user's; whether some rung of the
\* ladder fits them or none does.
Setting ==
  [width : Positive, height : Positive, fps : Positive, kbps : Positive,
   cap : Positive, enabled : BOOLEAN]

\* Start begins at what GetRecommendedSettings recommends, at least 5000 kbps
\* for every preset and receiver, or at the user's limit where that is less.
Recommended == 5000

ASSUME AdaptiveAssumption ==
  /\ Settings \subseteq Setting
  /\ \A s \in Settings : s.kbps = s.cap \/ (Recommended <= s.kbps /\ s.kbps <= s.cap)
  /\ Windows \subseteq Window
  /\ UserKbps \subseteq {k \in Nat : k >= 1000} /\ DelayRequests \subseteq Nat
  /\ {RampUpTicks, CeilingTicks, UpshiftTicks, CalmTicks, TrendTicks,
      Cooldown, EmergencyCooldown, UpshiftAfter, FreshAge} \subseteq Nat \ {0}
  /\ RampUpTicks <= UpshiftTicks /\ EmergencyCooldown <= Cooldown
  /\ Cooldown <= FreshAge /\ FreshAge <= UpshiftAfter

VARIABLES
  start,       \* the session's settings: max_encode_*, initial_framerate_, enabled_
  cap,         \* user_bitrate_cap_kbps_, which custom_target_kbps_ always equals
  rung,        \* current_rung_idx_
  bitrate,     \* current_bitrate_kbps_
  ceiling,     \* stability_cap_kbps_, 0 when none
  ceilingRun,  \* stability_cap_clean_ticks_, up to CeilingTicks
  clean,       \* consecutive_clean_seconds_, up to UpshiftTicks
  losses,      \* consecutive_loss_events_
  rising,      \* rtt_rising_ticks_, up to TrendTicks
  rttKnown,    \* last_eval_rtt_ > 0
  sinceDownshift,  \* seconds since last_downshift_time_, up to UpshiftAfter
  delay,       \* current_target_delay_ms_
  calm,        \* consecutive_clean_delay_intervals_
  encoder,     \* CastSession's current_stats_.bitrate_kbps, which the encoder runs at
  verdict,     \* history: what the last step was
  stale,       \* history: the slider's bitrate did not reach the encoder
  cleanRun     \* history: clean evaluations since one was not, up to RampUpTicks

ladder == <<rung, bitrate, ceiling, ceilingRun>>
counters == <<clean, losses, rising, rttKnown, sinceDownshift>>
playout == <<delay, calm>>
adaptiveVars == <<start, cap, ladder, counters, playout, encoder, stale, verdict, cleanRun>>

Least(a, b) == IF a <= b THEN a ELSE b
Most(a, b) == IF a >= b THEN a ELSE b

\* std::clamp to the playout band.
Clamp(d) == Most(MinPlayoutDelay, Least(d, MaxPlayoutDelay))

-----------------------------------------------------------------------------
(* How a window is judged.                                                 *)

RecentRttLong(w) == w.sampled /\ w.rtt = "long"
RecentJitterHigh(w) == w.sampled /\ w.jitter = "high"

NackPressure(w) ==
  \/ w.loss > 10 /\ w.nacks >= (IF RecentJitterHigh(w) THEN 6 ELSE 4)
  \/ w.nacks >= 50

SevereFeedback(w) ==
  \/ w.loss > 30 /\ w.nacks >= (IF RecentJitterHigh(w) THEN 10 ELSE 8)
  \/ w.nacks >= 50
  \/ w.pli

Emergency(w) == w.loss > 150 \/ (w.nacks >= 50 /\ w.loss > 30)

\* The emergency test of a session whose adaptation is disabled.
DisabledEmergency(w) == w.loss > 100 \/ w.pli \/ (w.nacks >= 50 /\ w.loss > 30)

\* The RTT trend: a rise counts only against a known RTT, and a window without
\* a rise breaks the streak.
Rising(w) == IF rttKnown /\ w.rises THEN Least(rising + 1, TrendTicks) ELSE 0

Trend(w) == Rising(w) >= TrendTicks

Pressure(w) ==
  w.loss > 30 \/ RecentRttLong(w) \/ NackPressure(w) \/ w.pli \/ Trend(w)

-----------------------------------------------------------------------------

AdaptiveTypeOK ==
  /\ start \in Settings /\ cap \in Nat
  /\ rung \in Rungs /\ bitrate \in Nat /\ encoder \in Nat
  /\ ceiling \in {0, Ceiling} /\ ceilingRun \in 0..CeilingTicks
  /\ clean \in 0..UpshiftTicks /\ losses \in 0..2
  /\ rising \in 0..TrendTicks /\ rttKnown \in BOOLEAN
  /\ sinceDownshift \in 0..UpshiftAfter
  /\ delay \in MinPlayoutDelay..MaxPlayoutDelay /\ calm \in 0..CalmTicks
  /\ verdict \in {"set", "quiet", "pressure", "floor", "clean"}
  /\ stale \in BOOLEAN /\ cleanRun \in 0..RampUpTicks

DefaultRung == 4

\* The ladder is searched from the top.
FirstRung(fitting, otherwise) ==
  IF fitting # {} THEN CHOOSE r \in fitting : \A q \in fitting : r <= q ELSE otherwise

\* Faulty Initialize: the bitrate does not count.
StartRungIgnoresKbps(s) ==
  FirstRung({r \in Rungs : Ladder[r].width <= s.width /\ Ladder[r].fps <= s.fps}, DefaultRung)

\* The rungs Initialize takes for its own; with none it falls back to 1080p60.
FittingRungs(s) ==
  {r \in Rungs : Ladder[r].width <= s.width /\ Ladder[r].fps <= s.fps /\ Kbps(r) <= s.kbps}

\* Initialize, then SetBitrateCapKbps, as Start calls them.
StartRung(s) == FirstRung(FittingRungs(s), DefaultRung)

AdaptiveInit ==
  /\ start \in Settings
  /\ cap = start.cap
  /\ rung = StartRung(start) /\ bitrate = start.kbps
  /\ ceiling = 0 /\ ceilingRun = 0
  /\ clean = 0 /\ losses = 0 /\ rising = 0 /\ rttKnown = FALSE
  /\ sinceDownshift = FreshAge
  /\ delay = 200 /\ calm = 0
  /\ encoder = bitrate /\ stale = FALSE
  /\ verdict = "set" /\ cleanRun = 0

\* apply_caps.
Capped(kbps, limit) ==
  IF limit > 0 THEN Least(kbps, Least(cap, limit)) ELSE Least(kbps, cap)

Aged == Least(sinceDownshift + 1, UpshiftAfter)

-----------------------------------------------------------------------------
(* CheckAdaptation, called by the adaptation thread.                       *)

StepUp(d) == IF d < 200 THEN 200 ELSE IF d < 300 THEN 300 ELSE 400
StepDown(d) == IF d > 300 THEN 300 ELSE IF d > 200 THEN 200 ELSE 150

\* A degraded window lengthens the delay, within the downshift cooldown; a run
\* of calm ones shortens it.
Playout(w) ==
  LET degraded == w.jitter = "high" \/ w.loss > 30 \/ NackPressure(w) \/ w.pli
      calmNow == /\ w.loss = 0 /\ w.nacks = 0 /\ ~w.pli
                 /\ w.rtt = "short" /\ w.jitter = "low"
      enough == calm + 1 >= CalmTicks
  IN /\ delay' = IF degraded THEN IF Aged >= Cooldown THEN StepUp(delay) ELSE delay
                 ELSE IF calmNow /\ enough THEN StepDown(delay) ELSE delay
     /\ calm' = IF ~degraded /\ calmNow /\ ~enough THEN calm + 1 ELSE 0

\* AdaptationLoop gives the encoder what a changed result says; the picture,
\* where it may change, follows the rung.
Publish ==
  \/ /\ bitrate' # bitrate \/ delay' # delay \/ rung' # rung
     /\ encoder' = bitrate' /\ stale' = FALSE
  \/ /\ bitrate' = bitrate /\ delay' = delay
     /\ UNCHANGED <<encoder, stale>>

\* One rung down, at that rung's bitrate.
Downshift(limit) ==
  /\ rung' = rung + 1
  /\ bitrate' = Capped(Kbps(rung + 1), limit)
  /\ losses' = 0 /\ rising' = 0 /\ sinceDownshift' = 0

\* A window under pressure.
Congested(w) ==
  LET events == Least(2, losses + (IF SevereFeedback(w) \/ Trend(w) THEN 2 ELSE 1))
      emergency == Emergency(w) /\ Aged >= EmergencyCooldown /\ rung < Floor
      sustained == events >= 2 /\ Aged >= Cooldown
      limit == IF start.width <= 1920 /\ start.height <= 1080 THEN Ceiling ELSE ceiling
      Hold(e) == /\ losses' = e /\ rising' = Rising(w) /\ sinceDownshift' = Aged
                 /\ UNCHANGED <<rung, bitrate>>
  IN /\ start.enabled /\ Pressure(w)
     /\ Playout(w)
     /\ clean' = 0 /\ cleanRun' = 0
     /\ rttKnown' = (rttKnown \/ w.sampled)
     /\ \/ /\ emergency
           /\ Downshift(ceiling)
           /\ verdict' = "pressure" /\ UNCHANGED ceiling
        \/ /\ ~emergency /\ sustained /\ rung < Floor
           /\ ceiling' = limit
           /\ Downshift(limit)
           /\ verdict' = "pressure"
        \/ /\ ~emergency /\ sustained /\ rung = Floor  \* "already at the floor",
           /\ ceiling' = limit                         \* said once in 10 seconds
           /\ \E said \in BOOLEAN : Hold(IF said THEN 0 ELSE events)
           /\ verdict' = "floor"
        \/ /\ ~emergency /\ ~sustained
           /\ Hold(events)
           /\ verdict' = "pressure" /\ UNCHANGED ceiling
     /\ Publish
     /\ UNCHANGED <<start, cap, ceilingRun>>

\* Faulty LiftCeiling, as it was once: it shares the ramp's counter.
LiftCeilingSharedCounter ==
  IF ceiling > 0
    THEN /\ ceiling' = IF clean + 1 >= CeilingTicks THEN 0 ELSE ceiling
         /\ UNCHANGED ceilingRun
    ELSE ceilingRun' = 0 /\ UNCHANGED ceiling

\* Every clean evaluation counts towards lifting the ceiling.
LiftCeiling ==
  LET lifted == ceilingRun + 1 >= CeilingTicks
  IN IF ceiling > 0
       THEN /\ ceiling' = IF lifted THEN 0 ELSE ceiling
            /\ ceilingRun' = Least(ceilingRun + 1, CeilingTicks)
       ELSE ceilingRun' = 0 /\ UNCHANGED ceiling

\* Faulty ramp condition: one evaluation early.
RampsEarly(run) == run + 1 >= RampUpTicks /\ rising' = 0 /\ bitrate < cap

\* The bitrate after a clean evaluation: ramping up to the user's target.
Ramps(run) == run >= RampUpTicks /\ rising' = 0 /\ bitrate < cap

Ramped(run) ==
  IF Ramps(run)
    THEN Capped(Least(cap, bitrate + Most(500, (cap - bitrate) \div 2)), ceiling')
    ELSE bitrate

\* A rung up is tried only with the bitrate back at its target.
TriesUpshift(kbps, run) ==
  kbps >= cap /\ run >= UpshiftTicks /\ Aged >= UpshiftAfter /\ rung > 1

Upshifts(r) ==
  /\ Ladder[r].width <= start.width /\ Ladder[r].height <= start.height
  /\ Ladder[r].fps <= start.fps /\ Kbps(r) <= cap

Relaxed(w) ==
  LET run == Least(clean + 1, UpshiftTicks)
      kbps == Ramped(run)
      afterRamp == IF Ramps(run) THEN 0 ELSE run
      tries == TriesUpshift(kbps, afterRamp)
  IN /\ start.enabled /\ ~Pressure(w)
     /\ Playout(w)
     /\ losses' = 0 /\ rising' = Rising(w) /\ rttKnown' = (rttKnown \/ w.sampled)
     /\ LiftCeiling
     /\ IF tries /\ Upshifts(rung - 1)
          THEN rung' = rung - 1 /\ bitrate' = Capped(Kbps(rung - 1), ceiling')
          ELSE bitrate' = kbps /\ UNCHANGED rung
     /\ clean' = IF tries THEN 0 ELSE afterRamp
     /\ cleanRun' = Least(cleanRun + 1, RampUpTicks)
     /\ sinceDownshift' = Aged /\ verdict' = "clean"
     /\ Publish
     /\ UNCHANGED <<start, cap>>

\* With adaptation disabled only an emergency changes anything.
DisabledEvaluate(w) ==
  /\ ~start.enabled
  /\ IF DisabledEmergency(w) /\ Aged >= EmergencyCooldown /\ rung < Floor
       THEN /\ rung' = rung + 1
            /\ bitrate' = Kbps(rung + 1)
            /\ encoder' = bitrate' /\ stale' = FALSE
            /\ sinceDownshift' = 0 /\ verdict' = "pressure"
       ELSE /\ sinceDownshift' = Aged /\ verdict' = "quiet"
            /\ UNCHANGED <<rung, bitrate, encoder, stale>>
  /\ UNCHANGED <<start, cap, ceiling, ceilingRun, clean, losses, rising, rttKnown,
                 playout, cleanRun>>

\* An interval without feedback is not evaluated.
Quiet ==
  /\ sinceDownshift' = Aged /\ verdict' = "quiet"
  /\ UNCHANGED <<start, cap, ladder, clean, losses, rising, rttKnown, playout,
                 encoder, stale, cleanRun>>

CheckAdaptation ==
  Quiet \/ \E w \in Windows : Congested(w) \/ Relaxed(w) \/ DisabledEvaluate(w)

-----------------------------------------------------------------------------
(* What other threads do to it.                                            *)

\* Faulty ResetRungForBitrate: the rung stays where it was.
CapRungKept(kbps) == rung

\* ResetRungForBitrate: the rung it picks.
CapRung(kbps) ==
  FirstRung({r \in Rungs : /\ Kbps(r) <= kbps
                           /\ Ladder[r].width <= start.width
                           /\ Ladder[r].height <= start.height
                           /\ Ladder[r].fps <= start.fps}, Floor)

\* CastSession::SetLiveVideoBitrateKbps: SetBitrateCapKbps, ResetRungForBitrate
\* and the encoder.  When the encoder cannot be reconfigured the session
\* reconnects with the bitrate it had.
SetLiveVideoBitrateKbps(kbps) ==
  LET target == IF start.enabled THEN bitrate' ELSE kbps
  IN /\ cap' = kbps
     /\ rung' = CapRung(kbps) /\ bitrate' = Kbps(rung')
     /\ ceiling' = 0 /\ losses' = 0 /\ clean' = 0
     /\ sinceDownshift' = FreshAge
     /\ \/ encoder' = target /\ stale' = FALSE
        \/ encoder # target /\ stale' = TRUE /\ UNCHANGED encoder
     /\ verdict' = "set" /\ cleanRun' = 0
     /\ UNCHANGED <<start, ceilingRun, rising, rttKnown, playout>>

\* The receiver's adaptive-latency request, and the user's.
SetPlayoutDelayMs(d) ==
  /\ delay' = Clamp(d)
  /\ verdict' = "set"
  /\ UNCHANGED <<start, cap, ladder, counters, calm, encoder, stale, cleanRun>>

\* After a reconnect the counters start over; rung and bitrate stay.
ResetFeedbackWindow ==
  /\ losses' = 0 /\ clean' = 0 /\ calm' = 0 /\ rising' = 0 /\ rttKnown' = FALSE
  /\ verdict' = "set"
  /\ UNCHANGED <<start, cap, ladder, sinceDownshift, delay, encoder, stale, cleanRun>>

AdaptiveNext ==
  \/ CheckAdaptation
  \/ \E k \in UserKbps : SetLiveVideoBitrateKbps(k)
  \/ \E d \in DelayRequests : SetPlayoutDelayMs(d)
  \/ ResetFeedbackWindow

AdaptiveSpec == AdaptiveInit /\ [][AdaptiveNext]_adaptiveVars

\* The adaptation thread evaluates once an interval, for as long as it runs.
AdaptiveFairSpec == AdaptiveSpec /\ WF_adaptiveVars(CheckAdaptation)

-----------------------------------------------------------------------------

\* A session that has adaptation disabled, that no rung fits, and that runs below
\* the rung under the default one: its first emergency raises the bitrate.
Misplaced ==
  ~start.enabled /\ FittingRungs(start) = {} /\ start.kbps < Kbps(DefaultRung + 1)

(* Why the bitrate stays within bounds: the next rung down is no heavier than *)
(* the bitrate, once the caps are applied to it, however both were set.       *)
RungFitsPicture == rung >= DefaultRung \/ Ladder[rung].width <= start.width

BitrateInRange ==
  start.enabled =>
    /\ bitrate <= Most(cap, FloorKbps)
    /\ rung # Floor => Least(Kbps(rung + 1), cap) <= bitrate

\* A ceiling is only ever put on a picture whose rungs lie at or below it.
CeilingFits == ceiling # 0 => start.width <= 1920

\* With adaptation disabled no cap is applied: the next rung must fit it.
NextRungFits ==
  ~start.enabled /\ ~Misplaced /\ rung # Floor => Kbps(rung + 1) <= cap

EncoderInStep ==
  ~stale => IF start.enabled
              THEN encoder = bitrate
              ELSE ~Misplaced => /\ encoder <= Most(cap, FloorKbps)
                                 /\ rung # Floor => Kbps(rung + 1) <= encoder

AdaptiveInv ==
  /\ AdaptiveTypeOK
  /\ RungFitsPicture /\ BitrateInRange /\ CeilingFits /\ NextRungFits /\ EncoderInStep

\* The encoder never runs above the bitrate the user allows, or above the
\* ladder's floor where the user allows less, on every way a bitrate is set:
\* slider, emergency, downshift, ramp and upshift.  Two exceptions: a slider
\* bitrate the encoder refused, where the old one stays until it changes, and
\* a Misplaced session.
WithinCap == ~stale /\ ~Misplaced => encoder <= Most(cap, FloorKbps)

\* "User slider cap: adaptive may downshift but must not upshift above this"
\* (adaptive_controller.h).  A limit below the floor's bitrate, a refused one and
\* a Misplaced session's first emergency all take the encoder above it.
CapObeyed == encoder <= cap

\* Congestion never makes the stream heavier, wherever the ramp, the caps and
\* the slider have left the bitrate relative to its rung, and on whichever rung
\* a picture that fits none was put; with the two exceptions of WithinCap.
CongestionNeverRaises ==
  [][verdict' = "pressure" /\ ~stale /\ ~Misplaced => encoder' <= encoder]_adaptiveVars

\* Recovery hysteresis (RecoveryHysteresisHoldsForEightSeconds): the bitrate
\* rises only after RampUpTicks clean evaluations since the last congested one.
Hysteresis ==
  [][verdict' = "clean" /\ bitrate' > bitrate => cleanRun' >= RampUpTicks]_adaptiveVars

\* CongestionCeilingLiftsAndBitrateReturnsToFullTarget: once every evaluation
\* is clean, the bitrate reaches the user's target and stays there.
Recovers == <>[](verdict = "clean") => <>[](bitrate >= cap)

\* "Adaptive quality is already at the floor" (the log in CheckAdaptation):
\* the controller stops reacting to congestion only at the floor's bitrate.
FloorIsReached == verdict = "floor" => bitrate <= FloorKbps

\* "the bitrate the controller holds on a clean link and aggressively ramps
\* back to" (adaptive_controller.h): a clean evaluation keeps a bitrate that
\* has reached the target.
HoldsTarget ==
  [][verdict' = "clean" /\ bitrate >= cap => bitrate' >= bitrate]_adaptiveVars

=============================================================================
