----------------------------- MODULE UploadPipe -----------------------------
(***************************************************************************)
(* What an upload promises: the server receives a subsequence of the       *)
(* file's chunks in file order, it learns the total only after the last    *)
(* chunk it will ever get, and the caller is told of success only when     *)
(* every chunk has been accepted for sending.                              *)
(***************************************************************************)
EXTENDS Naturals, Sequences

CONSTANT Chunks

VARIABLES
    accepted,   \* chunks accepted for sending
    received,   \* positions the server has received
    ended,      \* the server has received the end of the stream
    result      \* what the caller was told

vars == <<accepted, received, ended, result>>

Init == accepted = 0 /\ received = <<>> /\ ended = FALSE /\ result = "pending"

Accept ==
    /\ result = "pending" /\ accepted < Chunks
    /\ accepted' = accepted + 1
    /\ UNCHANGED <<received, ended, result>>

Newest == IF received = <<>> THEN 0 ELSE received[Len(received)]

Receive ==
    /\ ~ended
    /\ \E p \in (Newest + 1)..accepted : received' = Append(received, p)
    /\ UNCHANGED <<accepted, ended, result>>

End ==
    /\ accepted = Chunks
    /\ ended' = TRUE
    /\ UNCHANGED <<accepted, received, result>>

Return ==
    /\ result = "pending"
    /\ \/ result' = "failed"
       \/ accepted = Chunks /\ result' = "ok"
    /\ UNCHANGED <<accepted, received, ended>>

Next == Accept \/ Receive \/ End \/ Return

Spec == Init /\ [][Next]_vars
=============================================================================
