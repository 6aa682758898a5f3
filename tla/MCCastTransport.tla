-------------------------- MODULE MCCastTransport --------------------------
EXTENDS CastTransport

\* One packet for a delta frame, two for the larger frame 5.
OneOrTwo(f) == IF f = 5 THEN 1 ELSE 0

OnePacket(f) == 0
=============================================================================
