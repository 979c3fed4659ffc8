----------------------------- MODULE FrameLane -----------------------------
(***************************************************************************)
(* What a transport promises for the frames SendFrame accepts: it deals    *)
(* with the frames of a lane (those of one priority) one after another, in *)
(* the order it has accepted them.  A frame arrives, or it is given up,    *)
(* and what has been given up is adrift in the network: it may arrive at   *)
(* any later time, behind others and after Close, and it may be lost.      *)
(* Nothing arrives twice, and once Close has returned nothing is accepted, *)
(* nothing is given up, and nothing but what was adrift arrives.  A frame  *)
(* is its number among those its lane has accepted.                        *)
(***************************************************************************)
EXTENDS Naturals, Sequences

CONSTANT Lanes

VARIABLES
    given,    \* per lane: frames accepted
    past,     \* per lane: frames that have arrived or been given up
    arrived,  \* per lane: the frames that have arrived, in order
    adrift,   \* per lane: the frames given up that have not arrived
    shut      \* Close has returned

vars == <<given, past, arrived, adrift, shut>>

Init ==
    /\ given = [l \in Lanes |-> 0] /\ past = [l \in Lanes |-> 0]
    /\ arrived = [l \in Lanes |-> <<>>] /\ adrift = [l \in Lanes |-> {}]
    /\ shut = FALSE

Take(l) ==
    /\ ~shut
    /\ given' = [given EXCEPT ![l] = @ + 1]
    /\ UNCHANGED <<past, arrived, adrift, shut>>

(* The next frame. *)
Settle(l) ==
    /\ ~shut /\ past[l] < given[l]
    /\ past' = [past EXCEPT ![l] = @ + 1]
    /\ UNCHANGED <<given, shut>>

Pass(l) ==
    /\ Settle(l)
    /\ arrived' = [arrived EXCEPT ![l] = Append(@, past[l] + 1)]
    /\ UNCHANGED adrift

GiveUp(l) ==
    /\ Settle(l)
    /\ adrift' = [adrift EXCEPT ![l] = @ \cup {past[l] + 1}]
    /\ UNCHANGED arrived

Drift(l) ==
    /\ \E n \in adrift[l] :
        /\ adrift' = [adrift EXCEPT ![l] = @ \ {n}]
        /\ arrived' = [arrived EXCEPT ![l] = Append(@, n)]
    /\ UNCHANGED <<given, past, shut>>

Shut ==
    /\ ~shut /\ shut' = TRUE
    /\ UNCHANGED <<given, past, arrived, adrift>>

Next == Shut \/ \E l \in Lanes : Take(l) \/ Pass(l) \/ GiveUp(l) \/ Drift(l)

Spec == Init /\ [][Next]_vars
=============================================================================
