---------------------------- MODULE WsTransport ----------------------------
(***************************************************************************)
(* The WebSocket transport (sdk/transport/ws_transport.go) and the parts   *)
(* of sdk/client/client.go that drive it: the goroutines readPump,         *)
(* reconnectLoop and writePump, SendFrame called by the client's sendLoop  *)
(* and by the handshake, Connect, and Close.  A connection is a generation *)
(* number; w.conn is the current one, 0 when nil.  The write queues are    *)
(* one queue here: no frame of the client carries priority flags at this   *)
(* point, so only writeNormalCh is used (ClientCore has the priorities).   *)
(***************************************************************************)
EXTENDS Naturals, Sequences, FiniteSets

CONSTANTS
    Pumps,        \* slots for readPump goroutines
    MaxConns,     \* bound: connections opened in a behaviour
    MaxData,      \* bound: frames sendLoop hands over
    QCap,         \* capacity of writeNormalCh
    MaxBackoff    \* wsMaxBackoff, in units of wsInitialBackoff

ASSUME ParamAssumption ==
    /\ IsFiniteSet(Pumps) /\ Pumps # {}
    /\ MaxConns \in Nat \ {0}
    /\ MaxData \in Nat
    /\ QCap \in Nat \ {0}
    /\ MaxBackoff \in Nat \ {0}

(* The goroutines that call SendFrame: sendLoop, Client.Connect, and those  *)
(* that redo the handshake after a reconnect, at its HELLO or at its AUTH.  *)
Senders == {"sendLoop", "connect", "rehello", "reauth"}

VARIABLES
    conn,        \* w.conn: 0 is nil
    up,          \* connections whose socket is open at both ends
    dials,       \* connections opened so far
    connected,   \* w.connected
    ready,       \* w.ready is closed (Connect has returned)
    ctxDone,     \* w.ctx is cancelled
    signal,      \* is there a token in disconnectCh?
    pump,        \* where each readPump is
    reading,     \* the connection each readPump blocks on
    loop,        \* where reconnectLoop is
    backoff,     \* w.backoff, in units of wsInitialBackoff
    writer,      \* where writePump is
    writeConn,   \* the connection doWrite picked up
    hand,        \* the frame writePump took off the queue
    queue,       \* writeNormalCh
    chClosed,    \* the write channels are closed
    closing,     \* where Close is
    sender,      \* where each caller of SendFrame is
    startup,     \* what Client.Connect does next; "yes" after Client.Start
    due,         \* handshakes of reconnects at their HELLO, and at their AUTH
    sent,        \* frames sendLoop has handed over
    firstOn,     \* the first frame written on each connection
    panic        \* how the process died, if it did

connVars == <<conn, up, dials, connected>>
readVars == <<pump, reading, signal>>
loopVars == <<loop, backoff>>
writeVars == <<writer, writeConn, hand, firstOn>>
sendVars == <<sender, sent, startup, due>>
vars == <<connVars, ready, ctxDone, readVars, loopVars, writeVars, queue, chClosed,
          closing, sendVars, panic>>

alive == panic = "none"

Init ==
    /\ conn = 0 /\ up = {} /\ dials = 0 /\ connected = FALSE /\ ready = FALSE
    /\ ctxDone = FALSE /\ signal = FALSE
    /\ pump = [p \in Pumps |-> "none"] /\ reading = [p \in Pumps |-> 0]
    /\ loop = "none" /\ backoff = 1
    /\ writer = "none" /\ writeConn = 0 /\ hand = "none"
    /\ queue = <<>> /\ chClosed = FALSE /\ closing = "no"
    /\ sender = [s \in Senders |-> "idle"] /\ sent = 0
    /\ startup = "no" /\ due = [rehello |-> 0, reauth |-> 0]
    /\ firstOn = [g \in 1..MaxConns |-> "none"]
    /\ panic = "none"

-----------------------------------------------------------------------------
(* Connecting.  A failed first dial changes nothing and is left out. *)

(* dial: publish a fresh connection. *)
Publish ==
    /\ dials < MaxConns
    /\ dials' = dials + 1 /\ conn' = dials + 1
    /\ up' = up \cup {dials + 1} /\ connected' = TRUE

(* Under mu: close the current connection, if any, and forget it. *)
DropConn ==
    /\ up' = up \ {conn} /\ conn' = 0 /\ connected' = FALSE
    /\ UNCHANGED dials

(* Mutant: the client's goroutines start before the handshake. *)
ConnectStartsFirst ==
    /\ alive /\ ~ready /\ closing = "no"
    /\ Publish
    /\ \E p \in Pumps : pump' = [pump EXCEPT ![p] = "start"]
    /\ writer' = "select" /\ loop' = "wait" /\ ready' = TRUE
    /\ startup' = "yes" /\ due' = [due EXCEPT !["rehello"] = 1]
    /\ UNCHANGED <<ctxDone, signal, reading, backoff, writeConn, hand, firstOn,
                   queue, chClosed, closing, sender, sent, panic>>

(* Connect dials, starts the three goroutines and closes ready; Client      *)
(* .Connect goes on to the handshake and starts sendLoop after it.          *)
Connect ==
    /\ alive /\ ~ready /\ closing = "no"
    /\ Publish
    /\ \E p \in Pumps : pump' = [pump EXCEPT ![p] = "start"]
    /\ writer' = "select" /\ loop' = "wait" /\ ready' = TRUE
    /\ startup' = "hello"
    /\ UNCHANGED <<ctxDone, signal, reading, backoff, writeConn, hand, firstOn,
                   queue, chClosed, closing, sender, sent, due, panic>>

(* The peer or the network ends the connection, or the read deadline does. *)
PeerDrops ==
    /\ alive
    /\ \E g \in up : up' = up \ {g}
    /\ UNCHANGED <<conn, dials, connected, ready, ctxDone, readVars, loopVars,
                   writeVars, queue, chClosed, closing, sendVars, panic>>

-----------------------------------------------------------------------------
(* readPump. *)

(* At its start and before each ReadMessage it reads w.conn without a lock; *)
(* a nil there is a nil dereference.                                        *)
PumpLoad(p) ==
    /\ alive /\ pump[p] \in {"start", "loop"}
    /\ \/ /\ conn # 0
          /\ pump' = [pump EXCEPT ![p] = IF @ = "start" THEN "loop" ELSE "blocked"]
          /\ reading' = [reading EXCEPT ![p] = conn]
          /\ UNCHANGED panic
       \/ /\ conn = 0 /\ panic' = "nil conn"
          /\ UNCHANGED <<pump, reading>>
    /\ UNCHANGED <<connVars, ready, ctxDone, signal, loopVars, writeVars, queue,
                   chClosed, closing, sendVars>>

(* ReadMessage returns a frame, which goes through the callback, on this    *)
(* goroutine.  It may have been buffered before either end closed the       *)
(* connection.                                                              *)
PumpFrame(p) ==
    /\ alive
    /\ \/ pump[p] = "blocked" /\ pump' = [pump EXCEPT ![p] = "callback"]
       \/ pump[p] = "callback" /\ pump' = [pump EXCEPT ![p] = "loop"]
    /\ UNCHANGED <<connVars, ready, ctxDone, signal, reading, loopVars, writeVars,
                   queue, chClosed, closing, sendVars, panic>>

(* Mutant: reconnectLoop is told of the failure before the clean-up. *)
PumpReadFailsSignals(p) ==
    /\ alive /\ pump[p] = "blocked" /\ reading[p] \notin up
    /\ pump' = [pump EXCEPT ![p] = "exit"]
    /\ signal' = TRUE
    /\ UNCHANGED <<connVars, ready, ctxDone, reading, loopVars, writeVars,
                   queue, chClosed, closing, sendVars, panic>>

(* ReadMessage fails: the pump leaves its loop. *)
PumpReadFails(p) ==
    /\ alive /\ pump[p] = "blocked" /\ reading[p] \notin up
    /\ pump' = [pump EXCEPT ![p] = "exit"]
    /\ UNCHANGED <<connVars, ready, ctxDone, signal, reading, loopVars, writeVars,
                   queue, chClosed, closing, sendVars, panic>>

(* Its deferred function drops whatever w.conn is now ...                   *)
PumpExit(p) ==
    /\ alive /\ pump[p] = "exit"
    /\ DropConn
    /\ pump' = [pump EXCEPT ![p] = "signal"]
    /\ reading' = [reading EXCEPT ![p] = 0]
    /\ UNCHANGED <<ready, ctxDone, signal, loopVars, writeVars, queue,
                   chClosed, closing, sendVars, panic>>

(* Mutant: the signal is sent only while w.connected still says so. *)
PumpSignalIfConnected(p) ==
    /\ alive /\ pump[p] = "signal"
    /\ signal' = (signal \/ (~ctxDone /\ connected))
    /\ pump' = [pump EXCEPT ![p] = "none"]
    /\ UNCHANGED <<connVars, ready, ctxDone, reading, loopVars, writeVars, queue,
                   chClosed, closing, sendVars, panic>>

(* ... and then signals reconnectLoop, unless the transport is closing.     *)
PumpSignal(p) ==
    /\ alive /\ pump[p] = "signal"
    /\ signal' = (signal \/ ~ctxDone)
    /\ pump' = [pump EXCEPT ![p] = "none"]
    /\ UNCHANGED <<connVars, ready, ctxDone, reading, loopVars, writeVars, queue,
                   chClosed, closing, sendVars, panic>>

-----------------------------------------------------------------------------
(* reconnectLoop. *)

LoopRest == <<ready, ctxDone, pump, reading, writeVars, queue, chClosed, closing,
              sendVars, panic>>

(* Woken by a disconnect, it waits for the backoff before it dials. *)
LoopWake ==
    /\ alive
    /\ \/ loop = "wait" /\ signal /\ signal' = FALSE /\ loop' = "backoff"
       \/ loop = "backoff" /\ loop' = "dial" /\ UNCHANGED signal
    /\ UNCHANGED <<connVars, backoff, LoopRest>>

(* Both of its waits give up when the context is cancelled. *)
LoopStops ==
    /\ alive /\ ctxDone /\ loop \in {"wait", "backoff"}
    /\ loop' = "done"
    /\ UNCHANGED <<connVars, signal, backoff, LoopRest>>

(* Mutant: the backoff grows without its cap. *)
DialFailsUncapped ==
    /\ alive /\ loop = "dial"
    /\ loop' = "backoff"
    /\ backoff' = backoff * 2
    /\ UNCHANGED <<connVars, signal, LoopRest>>

(* Mutant: a failed dial ends the attempt to reconnect. *)
DialFailsGivesUp ==
    /\ alive /\ loop = "dial"
    /\ loop' = "wait"
    /\ UNCHANGED <<connVars, signal, backoff, LoopRest>>

(* A failed dial doubles the backoff up to its cap. *)
DialFails ==
    /\ alive /\ loop = "dial"
    /\ loop' = "backoff"
    /\ backoff' = IF backoff * 2 < MaxBackoff THEN backoff * 2 ELSE MaxBackoff
    /\ UNCHANGED <<connVars, signal, LoopRest>>

DialOk ==
    /\ alive /\ loop = "dial"
    /\ Publish
    /\ loop' = "guard"
    /\ UNCHANGED <<signal, backoff, LoopRest>>

(* Mutant: the context is not checked again after the dial. *)
DialGuardMissing ==
    /\ alive /\ loop = "guard"
    /\ loop' = "spawn" /\ backoff' = 1
    /\ UNCHANGED <<connVars, signal, LoopRest>>

(* After a slow dial the context is checked again; Close cannot have seen   *)
(* the connection that was just published.                                  *)
DialGuard ==
    /\ alive /\ loop = "guard"
    /\ \/ ctxDone /\ DropConn /\ loop' = "done" /\ UNCHANGED backoff
       \/ ~ctxDone /\ loop' = "spawn" /\ backoff' = 1 /\ UNCHANGED connVars
    /\ UNCHANGED <<signal, LoopRest>>

(* Start a readPump for the new connection and redo the handshake. *)
Spawn ==
    /\ alive /\ loop = "spawn"
    /\ loop' = "wait"
    /\ \E p \in Pumps : pump[p] = "none" /\ pump' = [pump EXCEPT ![p] = "start"]
    /\ due' = [due EXCEPT !["rehello"] = @ + 1]
    /\ UNCHANGED <<connVars, ready, ctxDone, reading, signal, backoff, writeVars,
                   queue, chClosed, closing, sender, sent, startup, panic>>

-----------------------------------------------------------------------------
(* writePump. *)

WriteRest == <<connVars, ready, ctxDone, readVars, loopVars, chClosed, closing,
               sendVars, panic>>

WriterTakes ==
    /\ alive /\ writer = "select" /\ queue # <<>>
    /\ hand' = Head(queue) /\ queue' = Tail(queue) /\ writer' = "load"
    /\ UNCHANGED <<writeConn, firstOn, WriteRest>>

(* doWrite takes the connection under the lock, and drops the frame when    *)
(* there is none ...                                                        *)
WriterLoads ==
    /\ alive /\ writer = "load"
    /\ writeConn' = conn
    /\ writer' = IF conn = 0 THEN "select" ELSE "write"
    /\ hand' = IF conn = 0 THEN "none" ELSE hand
    /\ UNCHANGED <<firstOn, queue, WriteRest>>

(* ... and writes outside it; a failed write is logged, not signalled.      *)
WriterWrites ==
    /\ alive /\ writer = "write"
    /\ writer' = "select" /\ hand' = "none" /\ writeConn' = 0
    /\ firstOn' = IF writeConn \in up /\ firstOn[writeConn] = "none"
                  THEN [firstOn EXCEPT ![writeConn] = hand] ELSE firstOn
    /\ UNCHANGED <<queue, WriteRest>>

WriterStops ==
    /\ alive /\ writer = "select" /\ ctxDone
    /\ writer' = "done"
    /\ UNCHANGED <<writeConn, hand, firstOn, queue, WriteRest>>

-----------------------------------------------------------------------------
(* SendFrame, from the client's sendLoop and from the handshake. *)

Frame(s) == CASE s = "sendLoop" -> "data"
              [] s = "connect" -> startup
              [] s = "rehello" -> "hello"
              [] s = "reauth" -> "auth"

(* sendLoop runs from Client.Start until Client.Close has cancelled the     *)
(* client's context, which it does after transport.Close has returned.      *)
HasFrame(s) ==
    \/ s = "sendLoop" /\ startup = "yes" /\ sent < MaxData /\ closing # "cancelled"
    \/ s = "connect" /\ startup \in {"hello", "auth"}
    \/ s \in DOMAIN due /\ due[s] > 0

(* ensureConnected: ready stays closed after the first connection, so a     *)
(* send during a reconnect passes; a cancelled context may turn it away.    *)
EnsureConnected(s) ==
    /\ alive /\ sender[s] = "idle" /\ HasFrame(s)
    /\ \/ ready \/ (connected /\ conn # 0)
    /\ sender' = [sender EXCEPT ![s] = "send"]
    /\ UNCHANGED <<connVars, ready, ctxDone, readVars, loopVars, writeVars, queue,
                   chClosed, closing, sent, startup, due, panic>>

(* The caller is done with its frame.  A handshake sends HELLO, then AUTH,  *)
(* and ends at the first error; Client.Connect starts sendLoop behind it.   *)
Dispose(s, ok) ==
    /\ sender' = [sender EXCEPT ![s] = "idle"]
    /\ \/ s = "sendLoop" /\ sent' = sent + 1 /\ UNCHANGED <<startup, due>>
       \/ /\ s = "connect"
          /\ startup' = IF ~ok THEN "failed" ELSE IF startup = "hello" THEN "auth" ELSE "yes"
          /\ UNCHANGED <<sent, due>>
       \/ /\ s = "rehello"
          /\ due' = [rehello |-> due["rehello"] - 1,
                     reauth |-> due["reauth"] + (IF ok THEN 1 ELSE 0)]
          /\ UNCHANGED <<sent, startup>>
       \/ /\ s = "reauth"
          /\ due' = [due EXCEPT !["reauth"] = @ - 1]
          /\ UNCHANGED <<sent, startup>>

NotConnected(s) ==
    /\ alive /\ sender[s] = "idle" /\ HasFrame(s)
    /\ ctxDone /\ ~(connected /\ conn # 0)
    /\ Dispose(s, FALSE)
    /\ UNCHANGED <<connVars, ready, ctxDone, readVars, loopVars, writeVars, queue,
                   chClosed, closing, panic>>

(* The select of SendFrame: enqueue when there is room, fail when the       *)
(* context is cancelled or the queue is full, panic on a closed channel.    *)
Enqueue(s) ==
    /\ alive /\ sender[s] = "send"
    /\ \/ /\ ~chClosed /\ Len(queue) < QCap
          /\ queue' = Append(queue, Frame(s))
          /\ Dispose(s, TRUE) /\ UNCHANGED panic
       \/ /\ ctxDone \/ (~chClosed /\ Len(queue) = QCap)
          /\ Dispose(s, FALSE) /\ UNCHANGED <<queue, panic>>
       \/ /\ chClosed /\ panic' = "send on closed channel"
          /\ UNCHANGED <<queue, sendVars>>
    /\ UNCHANGED <<connVars, ready, ctxDone, readVars, loopVars, writeVars, chClosed,
                   closing>>

-----------------------------------------------------------------------------
(* Close, called once, by the application after Client.Connect returned. *)

(* Mutant: the connection is forgotten without being closed. *)
CloseStartKeepsSocket ==
    /\ alive /\ startup \in {"yes", "failed"} /\ closing = "no"
    /\ ctxDone' = TRUE
    /\ conn' = 0 /\ connected' = FALSE
    /\ closing' = "wait"
    /\ UNCHANGED <<up, dials, ready, readVars, loopVars, writeVars, queue, chClosed,
                   sendVars, panic>>

(* It cancels the context and closes and forgets the connection, under mu. *)
CloseStart ==
    /\ alive /\ startup \in {"yes", "failed"} /\ closing = "no"
    /\ ctxDone' = TRUE /\ closing' = "wait"
    /\ DropConn
    /\ UNCHANGED <<ready, readVars, loopVars, writeVars, queue, chClosed, sendVars, panic>>

Stopped == loop = "done" /\ writer = "done" /\ \A p \in Pumps : pump[p] = "none"

(* Mutant: the readPump of a reconnect is not counted in the WaitGroup. *)
CloseFinishEarly ==
    /\ alive /\ closing = "wait" /\ loop = "done" /\ writer = "done"
    /\ chClosed' = TRUE /\ closing' = "closed"
    /\ UNCHANGED <<connVars, ready, ctxDone, readVars, loopVars, writeVars, queue,
                   sendVars, panic>>

(* wg.Wait returns when the tracked goroutines have ended; the channels are *)
(* closed with what is still in them.                                       *)
CloseFinish ==
    /\ alive /\ closing = "wait" /\ Stopped
    /\ chClosed' = TRUE /\ closing' = "closed"
    /\ UNCHANGED <<connVars, ready, ctxDone, readVars, loopVars, writeVars, queue,
                   sendVars, panic>>

ClientCancels ==
    /\ alive /\ closing = "closed"
    /\ closing' = "cancelled"
    /\ UNCHANGED <<connVars, ready, ctxDone, readVars, loopVars, writeVars, queue,
                   chClosed, sendVars, panic>>

-----------------------------------------------------------------------------
Read(p) == PumpLoad(p) \/ PumpFrame(p) \/ PumpReadFails(p) \/ PumpExit(p) \/ PumpSignal(p)
Reconnect == LoopWake \/ LoopStops \/ DialFails \/ DialOk \/ DialGuard \/ Spawn
Write == WriterTakes \/ WriterLoads \/ WriterWrites \/ WriterStops
Send(s) == EnsureConnected(s) \/ NotConnected(s) \/ Enqueue(s)
Closing == CloseFinish \/ ClientCancels

Next ==
    \/ Connect \/ PeerDrops \/ CloseStart
    \/ \E p \in Pumps : Read(p)
    \/ Reconnect \/ Write \/ Closing
    \/ \E s \in Senders : Send(s)

(* Goroutines that can run do; nothing makes the peer send, but a read of a *)
(* connection that is gone returns, and when the buffer is empty it fails;  *)
(* a select whose context is done takes that case eventually; a server that *)
(* is dialled again and again answers.                                      *)
Fairness ==
    /\ \A p \in Pumps :
        /\ WF_vars(Read(p) /\ (pump[p] = "blocked" => reading[p] \notin up))
        /\ SF_vars(PumpReadFails(p))
    /\ WF_vars(Reconnect) /\ SF_vars(DialOk) /\ SF_vars(LoopStops)
    /\ WF_vars(Write) /\ SF_vars(WriterStops)
    /\ WF_vars(Closing)
    /\ \A s \in Senders : WF_vars(Send(s))

Spec == Init /\ [][Next]_vars /\ Fairness

-----------------------------------------------------------------------------
(* Properties. *)

ConnType ==
    /\ conn \in 0..MaxConns /\ up \in SUBSET (1..MaxConns) /\ dials \in 0..MaxConns
    /\ connected \in BOOLEAN /\ ready \in BOOLEAN /\ ctxDone \in BOOLEAN
    /\ closing \in {"no", "wait", "closed", "cancelled"}
    /\ panic \in {"none", "nil conn", "send on closed channel"}

ReadType ==
    /\ pump \in [Pumps -> {"none", "start", "loop", "blocked", "callback", "exit", "signal"}]
    /\ reading \in [Pumps -> 0..MaxConns]
    /\ signal \in BOOLEAN

LoopType ==
    /\ loop \in {"none", "wait", "backoff", "dial", "guard", "spawn", "done"}
    /\ backoff \in 1..MaxBackoff

Frames == {"hello", "auth", "data"}

WriteType ==
    /\ writer \in {"none", "select", "load", "write", "done"}
    /\ writeConn \in 0..MaxConns /\ hand \in {"none"} \cup Frames
    /\ queue \in Seq(Frames) /\ chClosed \in BOOLEAN
    /\ firstOn \in [1..MaxConns -> {"none"} \cup Frames]

SendType ==
    /\ sender \in [Senders -> {"idle", "send"}]
    /\ startup \in {"no", "hello", "auth", "yes", "failed"}
    /\ due \in [{"rehello", "reauth"} -> Nat] /\ sent \in Nat

(* Every variable has its type. *)
TypeOK == ConnType /\ ReadType /\ LoopType /\ WriteType /\ SendType

Reading(p) == pump[p] # "none"

(* At any time one goroutine at most reads the socket (gorilla/websocket    *)
(* allows one reader), across any number of reconnects.                     *)
OneReader == \A p, q \in Pumps : Reading(p) /\ Reading(q) => p = q

(* No connection is left open without the transport holding it: neither an  *)
(* exiting readPump nor a reconnect nor Close loses a socket.               *)
NoOrphanConn == up \subseteq {conn}

(* Until Close, a connected transport always has a reader on its connection *)
(* or a reconnect under way: no disconnect is ever missed, although the     *)
(* signal channel holds one token and its send never blocks.                *)
Attended ==
    ready /\ ~ctxDone =>
        \/ \E p \in Pumps : Reading(p)
        \/ signal
        \/ loop \in {"backoff", "dial", "guard", "spawn"}

(* When Close returns, no goroutine of the transport runs and no connection *)
(* is open, even when it raced with a reconnect.                            *)
CloseIsFinal ==
    closing \in {"closed", "cancelled"} => Stopped /\ up = {} /\ conn = 0

(* The first frame of the first connection is HELLO. *)
FirstConnectionGreets == firstOn[1] \in {"none", "hello"}

(* The transport keeps the promise of TransportLink: a reconnect never      *)
(* overlaps with the connection before it, nor with the client's handling   *)
(* of its last frame, and Close waits for both.                             *)
Link == INSTANCE TransportLink WITH
    Drops <- TRUE, Waits <- TRUE,
    opened <- dials, links <- up \cup ({conn} \ {0}),
    handling <- \E p \in Pumps : pump[p] = "callback",
    shut <- closing \in {"closed", "cancelled"}

ImplementsLink == Link!Spec

(* readPump loads w.conn without the lock; whatever drops and reconnects    *)
(* come in between, it never finds nil there before Close is called.        *)
NilConnOnlyAfterClose == panic = "nil conn" => ctxDone

(* A lost connection is replaced, unless the transport is closed first (or  *)
(* the bound on connections is reached).                                    *)
Reconnects ==
    ready /\ up = {} ~> up # {} \/ ctxDone \/ dials = MaxConns

(* Close returns, whatever the pumps and the reconnect loop are doing.      *)
CloseReturns == closing = "wait" ~> closing \in {"closed", "cancelled"} \/ ~alive

(* Close "safely" closes the write channels (its comment): no SendFrame     *)
(* runs into a closed channel.                                              *)
SafeChannelClose == panic # "send on closed channel"
=============================================================================
