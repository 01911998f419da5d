--------------------------- MODULE MCEdgeGateway ---------------------------
(* Small gateways: channels of one place and one message per period.  Two     *)
(* pollers show the competition for the engine, one the chain of blocked      *)
(* sends that a shutdown has to undo.                                         *)
EXTENDS EdgeGateway

MCRateLimits == {1}
MCTwoSources == {"engine", "nav"}
MCOneSource == {"engine"}
=============================================================================
