----------------------------- MODULE MCDownload -----------------------------
(* Values of Download's constants for TLC. *)
EXTENDS Download

CONSTANT f1

OneFile == {f1}
AllFaults == FaultKinds
=============================================================================
