---------------------------- MODULE MCClientCore ----------------------------
(* Values of ClientCore's constants for TLC. *)
EXTENDS ClientCore

TwoTimes == {2, 3}
=============================================================================
