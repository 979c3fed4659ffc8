---------------------------- MODULE MCTransports ----------------------------
(* Values of Transports' constants for TLC. *)
EXTENDS Transports

TwoLanes == {"normal", "low"}
CallsOfEach == <<2, 0>>  \* the second Connect only starts its sseLoop
TwoLoops == 1..2
TwoReaders == 1..2
TwoSenders == {"sendLoop", "handshake"}
=============================================================================
