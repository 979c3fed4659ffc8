--------------------------- MODULE TransportLink ---------------------------
(***************************************************************************)
(* What a transport promises of its connections to the client above it,    *)
(* which keeps one inbox and handles a frame without a lock of its own:    *)
(* there is one connection at a time, numbered in the order they are made; *)
(* its frames are handed over one by one, the ones still buffered when it  *)
(* is gone included; the next connection is made only when the last one is *)
(* gone and the frame at hand has been handled; and once Close has         *)
(* returned none is made, and no frame of a lost one is handed over.       *)
(***************************************************************************)
EXTENDS Naturals

CONSTANTS
    Drops,  \* Close leaves no connection behind
    Waits   \* Close returns only when no frame is being handled

VARIABLES
    opened,    \* connections made so far
    links,     \* those that are open
    handling,  \* the client is handling a frame
    shut       \* Close has returned

vars == <<opened, links, handling, shut>>

Init == opened = 0 /\ links = {} /\ handling = FALSE /\ shut = FALSE

Open ==
    /\ ~shut /\ links = {} /\ ~handling
    /\ opened' = opened + 1 /\ links' = {opened'}
    /\ UNCHANGED <<handling, shut>>

Lose ==
    /\ links # {} /\ links' = {}
    /\ UNCHANGED <<opened, handling, shut>>

Hand ==
    /\ links # {} \/ (opened > 0 /\ ~shut)
    /\ ~handling /\ handling' = TRUE
    /\ UNCHANGED <<opened, links, shut>>

Handled ==
    /\ handling /\ handling' = FALSE
    /\ UNCHANGED <<opened, links, shut>>

(* Close may be what ends the connection. *)
Shut ==
    /\ ~shut /\ shut' = TRUE
    /\ links' = links \/ links' = {}
    /\ Drops => links' = {}
    /\ Waits => ~handling
    /\ UNCHANGED <<opened, handling>>

Next == Open \/ Lose \/ Hand \/ Handled \/ Shut

Spec == Init /\ [][Next]_vars
=============================================================================
