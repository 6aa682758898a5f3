--------------------------- MODULE MCCastSession ---------------------------
(* The instance TLC checks: one cast on one CastSession object.  The         *)
(* connection runs its receive thread; the heartbeat thread does what        *)
(* receive does when its connection is lost and nothing else.                *)

EXTENDS CastSession

OneChannelThread == {"receive"}
AllFailures == {"appClosed", "sourceLost", "windowExpired"}
OnlyClose   == {"appClosed"}
=============================================================================
