--------------------------- MODULE QuicTransport ---------------------------
(***************************************************************************)
(* The QUIC transport (sdk/transport/quic_transport.go): Connect, which    *)
(* looks at q.connected and publishes its connection in two locked         *)
(* sections, the readLoop each Connect starts, SendFrame, whose two writes *)
(* writeMu keeps together, and Close.  There is no reconnection: after a   *)
(* break the application calls Connect again, one call at a time.          *)
(* A connection and its one stream have one number; 0 is nil.              *)
(***************************************************************************)
EXTENDS Naturals, Sequences

CONSTANTS
    QReaders,   \* slots for readLoop goroutines
    QSenders,   \* goroutines that call SendFrame: sendLoop, and the handshake
                \* of a Client.Connect that is called again
    QMaxConns,  \* bound: connections opened in a behaviour
    QMaxFrames  \* bound: calls of SendFrame that find the transport connected

ASSUME QuicAssumption ==
    /\ QReaders # {} /\ "no" \notin QSenders
    /\ QMaxConns \in Nat \ {0} /\ QMaxFrames \in Nat

VARIABLES
    qconn,      \* q.conn
    qstream,    \* q.stream
    qconnected, \* q.connected
    qopened,    \* connections opened so far
    qopen,      \* connections the client has not closed
    qlive,      \* those whose stream works
    qcaller,    \* where Connect is: "publish" with a connection of its own
    qlate,      \* history: Connect published after Close
    qclose,     \* where Close is: between q.cancel and its locked section?
    qreader,    \* where each readLoop is
    qon,        \* the stream it reads
    qsender,    \* where each caller of SendFrame is; in "body" it has writeMu
    qto,        \* the stream it picked up
    qframe,     \* its frame: its number among the frames accepted
    qframes,    \* calls of SendFrame so far that passed the check
    qwire       \* per stream: the parts written to it

qConnVars == <<qconn, qstream, qconnected, qopened, qopen, qlive>>
qReadVars == <<qreader, qon>>
qSendVars == <<qsender, qto, qframe, qframes, qwire>>
quicVars == <<qConnVars, qcaller, qlate, qclose, qReadVars, qSendVars>>

Part == {"length", "payload"} \X Nat

QuicInit ==
    /\ qconn = 0 /\ qstream = 0 /\ qconnected = FALSE
    /\ qopened = 0 /\ qopen = {} /\ qlive = {}
    /\ qcaller = "idle" /\ qlate = FALSE /\ qclose = "no"
    /\ qreader = [r \in QReaders |-> "none"] /\ qon = [r \in QReaders |-> 0]
    /\ qsender = [s \in QSenders |-> "idle"] /\ qto = [s \in QSenders |-> 0]
    /\ qframe = [s \in QSenders |-> 0] /\ qframes = 0
    /\ qwire = [c \in 1..QMaxConns |-> <<>>]

-----------------------------------------------------------------------------
(* Connect. *)

(* Mutant: Connect does not look at q.connected. *)
QuicCheckSkipped ==
    /\ qcaller = "idle"
    /\ qcaller' = "dial"
    /\ UNCHANGED <<qConnVars, qlate, qclose, qReadVars, qSendVars>>

(* A Connect that finds q.connected set returns and changes nothing. *)
QuicCheck ==
    /\ qcaller = "idle" /\ ~qconnected
    /\ qcaller' = "dial"
    /\ UNCHANGED <<qConnVars, qlate, qclose, qReadVars, qSendVars>>

(* The dial, which Close cancels, and OpenStreamSync, which it does not. *)
QuicDial ==
    /\ qcaller = "dial" /\ qclose = "no" /\ qopened < QMaxConns
    /\ qopened' = qopened + 1
    /\ qopen' = qopen \cup {qopened'} /\ qlive' = qlive \cup {qopened'}
    /\ qcaller' = "publish"
    /\ UNCHANGED <<qconn, qstream, qconnected, qlate, qclose, qReadVars, qSendVars>>

(* A connection whose stream cannot be opened is closed. *)
QuicDialFails ==
    /\ qcaller = "dial"
    /\ qcaller' = "idle"
    /\ UNCHANGED <<qConnVars, qlate, qclose, qReadVars, qSendVars>>

(* Nobody looks whether Close has run in between. *)
QuicPublish ==
    /\ qcaller = "publish" /\ qcaller' = "idle"
    /\ qconn' = qopened /\ qstream' = qopened /\ qconnected' = TRUE
    /\ \E r \in QReaders :
        qreader[r] = "none" /\ qreader' = [qreader EXCEPT ![r] = "load"]
    /\ qlate' = (qclose = "closed")
    /\ UNCHANGED <<qopened, qopen, qlive, qclose, qon, qSendVars>>

QuicPeerBreaks ==
    /\ \E c \in qlive : qlive' = qlive \ {c}
    /\ UNCHANGED <<qconn, qstream, qconnected, qopened, qopen, qcaller, qlate, qclose,
                   qReadVars, qSendVars>>

-----------------------------------------------------------------------------
(* readLoop. *)

QuicLoad(r) ==
    /\ qreader[r] = "load"
    /\ qreader' = [qreader EXCEPT ![r] = IF qstream = 0 THEN "exit" ELSE "read"]
    /\ qon' = [qon EXCEPT ![r] = qstream]
    /\ UNCHANGED <<qConnVars, qcaller, qlate, qclose, qSendVars>>

(* A frame, handed to the client on this goroutine. *)
QuicFrame(r) ==
    /\ \/ /\ qreader[r] = "read" /\ qon[r] \in qlive
          /\ qreader' = [qreader EXCEPT ![r] = "callback"]
       \/ qreader[r] = "callback" /\ qreader' = [qreader EXCEPT ![r] = "load"]
    /\ UNCHANGED <<qConnVars, qcaller, qlate, qclose, qon, qSendVars>>

(* The stream has ended, or the length of a frame is out of range. *)
QuicReadFails(r) ==
    /\ qreader[r] = "read"
    /\ qreader' = [qreader EXCEPT ![r] = "exit"]
    /\ UNCHANGED <<qConnVars, qcaller, qlate, qclose, qon, qSendVars>>

(* Whatever q.conn is by now is closed; it stays set. *)
QuicReaderExit(r) ==
    /\ qreader[r] = "exit"
    /\ qreader' = [qreader EXCEPT ![r] = "none"]
    /\ qopen' = qopen \ {qconn} /\ qlive' = qlive \ {qconn}
    /\ qconnected' = FALSE
    /\ UNCHANGED <<qconn, qstream, qopened, qcaller, qlate, qclose, qon, qSendVars>>

-----------------------------------------------------------------------------
(* SendFrame: check, then with writeMu the length, then the payload. *)

QuicSend(s) ==
    /\ qsender[s] = "idle" /\ qconnected /\ qstream # 0 /\ qframes < QMaxFrames
    /\ qframes' = qframes + 1
    /\ qframe' = [qframe EXCEPT ![s] = qframes']
    /\ qto' = [qto EXCEPT ![s] = qstream]
    /\ qsender' = [qsender EXCEPT ![s] = "lock"]
    /\ UNCHANGED <<qConnVars, qcaller, qlate, qclose, qReadVars, qwire>>

(* Write appends to a stream that works and fails on any other. *)
QuicWrite(s, part, next) ==
    IF qto[s] \in qlive
    THEN /\ qwire' = [qwire EXCEPT ![qto[s]] = Append(@, <<part, qframe[s]>>)]
         /\ qsender' = [qsender EXCEPT ![s] = next]
    ELSE qsender' = [qsender EXCEPT ![s] = "idle"] /\ UNCHANGED qwire

(* Mutant: two frames may be written at once. *)
QuicWriteLengthUnlocked(s) ==
    /\ qsender[s] = "lock"
    /\ QuicWrite(s, "length", "body")
    /\ UNCHANGED <<qConnVars, qcaller, qlate, qclose, qReadVars, qto, qframe, qframes>>

QuicWriteLength(s) ==
    /\ qsender[s] = "lock" /\ \A t \in QSenders : qsender[t] # "body"
    /\ QuicWrite(s, "length", "body")
    /\ UNCHANGED <<qConnVars, qcaller, qlate, qclose, qReadVars, qto, qframe, qframes>>

QuicWritePayload(s) ==
    /\ qsender[s] = "body"
    /\ QuicWrite(s, "payload", "idle")
    /\ UNCHANGED <<qConnVars, qcaller, qlate, qclose, qReadVars, qto, qframe, qframes>>

-----------------------------------------------------------------------------
(* Close, once: cancel, then everything else under q.mu. *)

QuicCloseStart ==
    /\ qclose = "no" /\ qopened > 0
    /\ qclose' = "cancelled"
    /\ UNCHANGED <<qConnVars, qcaller, qlate, qReadVars, qSendVars>>

QuicCloseFinish ==
    /\ qclose = "cancelled" /\ qclose' = "closed"
    /\ qconn' = 0 /\ qstream' = 0 /\ qconnected' = FALSE
    /\ qopen' = qopen \ {qconn} /\ qlive' = qlive \ {qconn}
    /\ UNCHANGED <<qopened, qcaller, qlate, qReadVars, qSendVars>>

-----------------------------------------------------------------------------
QuicReader(r) == QuicLoad(r) \/ QuicFrame(r) \/ QuicReadFails(r) \/ QuicReaderExit(r)

QuicNext ==
    \/ QuicCheck \/ QuicDial \/ QuicDialFails \/ QuicPublish \/ QuicPeerBreaks
    \/ QuicCloseStart \/ QuicCloseFinish
    \/ \E r \in QReaders : QuicReader(r)
    \/ \E s \in QSenders : QuicSend(s) \/ QuicWriteLength(s) \/ QuicWritePayload(s)

(* Goroutines run, and a read of a stream that has ended returns. *)
QuicFairness ==
    /\ WF_quicVars(QuicCloseFinish)
    /\ \A r \in QReaders :
        WF_quicVars(QuicReader(r) /\ (qreader[r] = "read" => qon[r] \notin qlive))

QuicSpec == QuicInit /\ [][QuicNext]_quicVars /\ QuicFairness

-----------------------------------------------------------------------------
(* Properties. *)

(* Every variable has its type. *)
QuicTypeOK ==
    /\ qopened \in 0..QMaxConns /\ qconn \in 0..qopened /\ qstream \in {0, qconn}
    /\ qlive \subseteq qopen /\ qopen \subseteq 1..qopened
    /\ qconnected \in BOOLEAN /\ qlate \in BOOLEAN
    /\ qcaller \in {"idle", "dial", "publish"}
    /\ qclose \in {"no", "cancelled", "closed"}
    /\ qreader \in [QReaders -> {"none", "load", "read", "callback", "exit"}]
    /\ qon \in [QReaders -> 0..qopened]
    /\ qsender \in [QSenders -> {"idle", "lock", "body"}]
    /\ qto \in [QSenders -> 0..qopened] /\ qframe \in [QSenders -> Nat]
    /\ qframes \in Nat
    /\ qwire \in [1..QMaxConns -> Seq(Part)]

(* On every stream each length is followed by the payload of its own frame,  *)
(* except at the end of the stream, however many goroutines send and         *)
(* whenever a connection breaks or is replaced between the two writes.       *)
FramesWhole ==
    \A c \in 1..QMaxConns : \A i \in DOMAIN qwire[c] :
        IF i % 2 = 1 THEN qwire[c][i][1] = "length"
                     ELSE qwire[c][i] = <<"payload", qwire[c][i - 1][2]>>

(* However often the application connects, at most one goroutine reads.      *)
OneQuicReader ==
    \A r, t \in QReaders : qreader[r] # "none" /\ qreader[t] # "none" => r = t

(* Every connection that is open is q.conn or the one Connect is about to    *)
(* publish: none is forgotten when a new one takes its place.                *)
NoQuicOrphan ==
    qopen \subseteq {qconn} \cup (IF qcaller = "publish" THEN {qopened} ELSE {})

(* A transport that says it is connected has a goroutine that will notice    *)
(* the break, and so the application may connect again.                      *)
ConnectedIsRead == qconnected => \E r \in QReaders : qreader[r] # "none"

(* However often the application connects, the transport keeps the promise   *)
(* of TransportLink.  A connection that Connect has dialled outlives Close,  *)
(* and Close does not wait for the goroutine that is handling a frame.       *)
QuicLink == INSTANCE TransportLink WITH
    Drops <- FALSE, Waits <- FALSE,
    opened <- qopened, links <- qopen,
    handling <- \E r \in QReaders : qreader[r] = "callback",
    shut <- qclose = "closed"

QuicImplementsLink == QuicLink!Spec

(* "Close closes the connection and releases resources" (client.go): once it *)
(* has returned the transport does not become connected again.               *)
QuicClosedForGood == qclose = "closed" => ~qconnected

(* The stream has failed; another has taken its place, or need not.          *)
QuicBroken == qconnected /\ qstream \notin qlive
QuicRestored == (qconnected /\ qstream \in qlive) \/ qclose # "no"

(* Close has returned; every readLoop has ended and no connection is open,   *)
(* unless Connect was under way and publishes its connection afterwards.     *)
QuicClosing == qclose = "closed"
QuicEnded ==
    \/ qcaller = "publish" \/ qlate
    \/ qopen = {} /\ \A r \in QReaders : qreader[r] = "none"
=============================================================================
