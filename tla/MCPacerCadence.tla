-------------------------- MODULE MCPacerCadence --------------------------
EXTENDS PacerCadence

TwoRates == {1, 5}
StepAndStall == {1, 21}
FreshOrOld == {0, 3}
=============================================================================
