---------------------------- MODULE FileDelivery ----------------------------
(***************************************************************************)
(* What downloads promise the application: a file is opened empty, grows   *)
(* by pieces that stay as they were written, each further on in the file   *)
(* than the one before, and is delivered once, as it is, with the number   *)
(* of its pieces that are whole as its size.  Where more than one stream   *)
(* may be sent into one receiver (an application joins in with downloads   *)
(* of its own, or a server announces a file anew whose chunks are late),   *)
(* the order is given up, and nothing else.                                *)
(***************************************************************************)
EXTENDS Naturals, Sequences, FiniteSets

CONSTANTS Files, Chunks

VARIABLES
    open,       \* files being received
    pieces,     \* per file: what has been written to it
    delivered,  \* what the application has been told
    mixed       \* two streams may be sent into one receiver

vars == <<open, pieces, delivered, mixed>>

Init ==
    /\ open = {} /\ delivered = {} /\ mixed = FALSE
    /\ pieces = [f \in Files |-> <<>>]

Wholes(q) == {i \in DOMAIN q : q[i].whole}

Open(f) ==
    /\ f \notin open
    /\ open' = open \cup {f}
    /\ pieces' = [pieces EXCEPT ![f] = <<>>]
    /\ UNCHANGED <<delivered, mixed>>

(* The chunks skipped are lost; a piece that is not whole is part of one.    *)
Write(f) ==
    /\ f \in open
    /\ \E p \in 0..Chunks, whole \in BOOLEAN :
        /\ mixed \/ (p > 0 /\ \A i \in DOMAIN pieces[f] : pieces[f][i].pos < p)
        /\ pieces' = [pieces EXCEPT ![f] = Append(@, [pos |-> p, whole |-> whole])]
    /\ UNCHANGED <<open, delivered, mixed>>

Deliver(f) ==
    /\ f \in open
    /\ open' = open \ {f}
    /\ delivered' = delivered \cup
         {[file |-> f, size |-> Cardinality(Wholes(pieces[f])), content |-> pieces[f]]}
    /\ UNCHANGED <<pieces, mixed>>

Mix ==
    /\ mixed' = TRUE
    /\ UNCHANGED <<open, pieces, delivered>>

Next == Mix \/ \E f \in Files : Open(f) \/ Write(f) \/ Deliver(f)

Spec == Init /\ [][Next]_vars
=============================================================================
