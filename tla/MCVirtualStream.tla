-------------------------- MODULE MCVirtualStream --------------------------
(* Values of VirtualStream's constants for TLC. *)
EXTENDS VirtualStream

AllFaults == FaultKinds
NoFaults == {}
OnlyClose == {"close"}
NoResume == {0}
MayResume == {0, 2}
=============================================================================
