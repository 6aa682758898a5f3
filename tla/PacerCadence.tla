--------------------------- MODULE PacerCadence ---------------------------
(***************************************************************************)
(* FramePacer under any caller, watched through a window of time that may  *)
(* open at any tick: how much cadence time did the emits in it stand for?  *)
(* The frames themselves do not matter here, so every capture has number 1.*)
(***************************************************************************)
EXTENDS FramePacer

CONSTANTS
  Waits,     \* how far the clock may move at once
  Lags,      \* how far a frame's stamp may lie behind the clock
  Until      \* bound: the caller ticks no later than this

ASSUME CadenceAssumption == Waits \subseteq Nat /\ Lags \subseteq Nat /\ Until \in Nat

VARIABLES since, sent  \* when the window opened, and emits times interval

cadenceVars == <<pacerVars, now, since, sent>>

CadenceTypeOK == PacerTypeOK /\ since \in Nat /\ sent \in Nat

CadenceInit == now = 1 /\ NewPacer(now) /\ since = 1 /\ sent = 0

Advance ==
  /\ now < Until
  /\ \E d \in Waits : now' = now + d
  /\ UNCHANGED <<pacerVars, since, sent>>

\* A window watches one rate: a change starts the count again.
ChangeRate ==
  /\ \E i \in Intervals \ {interval} : SetTargetFps(i)
  /\ sent' = 0
  /\ UNCHANGED <<now, since>>

Capture ==
  /\ \E age \in Lags : age < now /\ Submit([id |-> 1, ts |-> now - age])
  /\ UNCHANGED <<now, since, sent>>

TickNow ==
  /\ Tick(now)
  /\ \E open \in BOOLEAN :
       /\ since' = IF open THEN now ELSE since
       /\ sent' = (IF open THEN 0 ELSE sent) + (IF decision'.emit THEN interval ELSE 0)
  /\ UNCHANGED now

CadenceNext == Advance \/ ChangeRate \/ Capture \/ TickNow

CadenceSpec == CadenceInit /\ [][CadenceNext]_cadenceVars

-----------------------------------------------------------------------------

\* In no stretch of time does the stream emit faster than its target rate, but
\* for the tick that is due at once and the four intervals the resync lets it
\* catch up: a stall is not replayed as a burst (Tick's resync).
RateBounded == sent <= (lastEmitNow - since) + 5 * interval \/ sent = 0
=============================================================================
