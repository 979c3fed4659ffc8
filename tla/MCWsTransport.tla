--------------------------- MODULE MCWsTransport ---------------------------
(* Values of WsTransport's constants for TLC. *)
EXTENDS WsTransport

TwoPumps == 1..2
=============================================================================
