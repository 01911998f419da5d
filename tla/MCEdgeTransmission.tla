------------------------- MODULE MCEdgeTransmission -------------------------
(* A small instance of EdgeTransmission: a limit of zero, where acquire can  *)
(* panic, and a limit of one, which every second message has to wait for.    *)
EXTENDS EdgeTransmission

MCRateLimits == {0, 1}
=============================================================================
