------------------------- MODULE WsTransportProofs -------------------------
(***************************************************************************)
(* Proofs about WsTransport, for any number of reconnects, frames, queue   *)
(* slots and pump slots.                                                   *)
(***************************************************************************)
EXTENDS WsTransport, TLAPS

(* Before Connect nothing runs and nothing is open; Connect has dialled. *)
Unstarted ==
    /\ ~ready => /\ startup = "no" /\ ~ctxDone /\ ~signal /\ conn = 0 /\ loop = "none"
                 /\ writer = "none" /\ due = [rehello |-> 0, reauth |-> 0]
                 /\ (\A p \in Pumps : pump[p] = "none")
                 /\ (\A s \in Senders : sender[s] = "idle")
    /\ ready => dials > 0

(* One token goes round: the reader, then its signal, then reconnectLoop    *)
(* from waking up to starting the next reader.                              *)
Busy == loop \in {"backoff", "dial", "guard", "spawn"}

OneToken ==
    /\ OneReader
    /\ \A p \in Pumps : Reading(p) => ~signal /\ ~Busy
    /\ signal => ~Busy

(* An open connection has a reader that will drop it, or is being handed to *)
(* one.                                                                     *)
Holds(p) == pump[p] \in {"start", "loop", "blocked", "callback", "exit"}

ConnHeld == conn # 0 => (\E p \in Pumps : Holds(p)) \/ loop \in {"guard", "spawn"}

(* The life cycle of Close: the context is cancelled first, only a done     *)
(* context ends reconnectLoop, and once everything has stopped it stays so. *)
Shutdown ==
    /\ ctxDone <=> closing # "no"
    /\ loop = "done" => ctxDone
    /\ ready => loop # "none"
    /\ closing \in {"closed", "cancelled"} => Stopped

(* A caller past ensureConnected still has the frame it came with. *)
Pending ==
    /\ \A s \in {"rehello", "reauth"} : sender[s] = "send" => due[s] > 0
    /\ sender["connect"] = "send" => startup \in {"hello", "auth"}

IInv ==
    /\ TypeOK /\ Unstarted /\ OneToken /\ ConnHeld /\ Shutdown /\ Pending
    /\ NoOrphanConn /\ Attended

(* The invariant holds initially. *)
LEMMA InitIInv == Init => IInv
<1> SUFFICES ASSUME Init PROVE IInv
  OBVIOUS
<1>1. TypeOK
  <2>1. <<>> \in Seq(Frames)
    OBVIOUS
  <2>2. 0 \in 0..MaxConns /\ 1 \in 1..MaxBackoff
    BY ParamAssumption
  <2>3. [rehello |-> 0, reauth |-> 0] \in [{"rehello", "reauth"} -> Nat]
    OBVIOUS
  <2>4. SendType
    BY <2>3 DEF Init, SendType
  <2> QED
    BY <2>1, <2>2, <2>4 DEF Init, TypeOK, ConnType, ReadType, LoopType, WriteType
<1>2. Unstarted /\ OneToken /\ ConnHeld /\ NoOrphanConn /\ Attended
  BY DEF Init, Unstarted, OneToken, OneReader, Reading, Busy, ConnHeld, NoOrphanConn, Attended
<1>3. Shutdown /\ Pending
  BY DEF Init, Shutdown, Pending, Senders
<1> QED
  BY <1>1, <1>2, <1>3 DEF IInv

(* The steps of readPump p. *)
LEMMA ReadIInv == ASSUME NEW p \in Pumps, IInv, Read(p) PROVE IInv'
<1> USE DEF connVars, readVars, loopVars, writeVars, sendVars
<1>1. ConnType /\ ReadType /\ LoopType /\ WriteType /\ SendType
  BY DEF IInv, TypeOK
<1>2. (LoopType /\ WriteType /\ SendType)'
  <2>1. UNCHANGED <<loopVars, writeVars, queue, chClosed, sendVars>>
    BY DEF Read, PumpLoad, PumpFrame, PumpReadFails, PumpExit, PumpSignal
  <2> QED
    BY <1>1, <2>1 DEF LoopType, WriteType, SendType
<1>3. ReadType'
  <2>1. signal' \in BOOLEAN
    BY <1>1 DEF ReadType, ConnType, Read, PumpLoad, PumpFrame, PumpReadFails, PumpExit, PumpSignal
  <2>2. pump' \in [Pumps -> {"none", "start", "loop", "blocked", "callback", "exit", "signal"}]
    BY <1>1 DEF ReadType, Read, PumpLoad, PumpFrame, PumpReadFails, PumpExit, PumpSignal
  <2>3. reading' = reading \/ reading' = [reading EXCEPT ![p] = conn]
                           \/ reading' = [reading EXCEPT ![p] = 0]
    BY DEF Read, PumpLoad, PumpFrame, PumpReadFails, PumpExit, PumpSignal
  <2>4. 0 \in 0..MaxConns
    BY ParamAssumption
  <2>5. reading' \in [Pumps -> 0..MaxConns]
    BY <1>1, <2>3, <2>4 DEF ReadType, ConnType
  <2> QED
    BY <2>1, <2>2, <2>5 DEF ReadType
<1>4. ConnType'
  <2>1. UNCHANGED <<dials, ready, ctxDone, closing>>
    BY DEF Read, PumpLoad, PumpFrame, PumpReadFails, PumpExit, PumpSignal, DropConn
  <2>2. UNCHANGED <<conn, up, connected>> \/ DropConn
    BY DEF Read, PumpLoad, PumpFrame, PumpReadFails, PumpExit, PumpSignal
  <2>3. panic' = panic \/ panic' = "nil conn"
    BY DEF Read, PumpLoad, PumpFrame, PumpReadFails, PumpExit, PumpSignal
  <2>4. 0 \in 0..MaxConns
    BY ParamAssumption
  <2> QED
    BY <1>1, <2>1, <2>2, <2>3, <2>4 DEF ConnType, DropConn
<1>5. Unstarted'
  <2>1. ready /\ ready' = ready /\ dials' = dials /\ dials > 0
    BY DEF IInv, Unstarted, DropConn, Read, PumpLoad, PumpFrame, PumpReadFails, PumpExit, PumpSignal
  <2> QED
    BY <2>1 DEF Unstarted
<1>6. /\ pump[p] # "none" /\ ~signal /\ ~Busy
      /\ \A q \in Pumps : q # p => pump[q] = "none" /\ pump'[q] = "none"
  <2>1. pump[p] # "none"
    BY DEF Read, PumpLoad, PumpFrame, PumpReadFails, PumpExit, PumpSignal
  <2>2. \A q \in Pumps : q # p => pump[q] = "none"
    BY <2>1 DEF IInv, OneToken, OneReader, Reading
  <2>3. \A q \in Pumps : q # p => pump'[q] = pump[q]
    BY <1>1 DEF ReadType, Read, PumpLoad, PumpFrame, PumpReadFails, PumpExit, PumpSignal
  <2> QED
    BY <2>1, <2>2, <2>3 DEF IInv, OneToken, Reading
<1>7. /\ loop' = loop /\ closing' = closing /\ ctxDone' = ctxDone /\ ready' = ready
      /\ sender' = sender /\ due' = due /\ startup' = startup /\ writer' = writer
  BY DEF Read, PumpLoad, PumpFrame, PumpReadFails, PumpExit, PumpSignal
<1>8. CASE PumpSignal(p)
  <2>1. pump'[p] = "none"
    BY <1>1, <1>8 DEF PumpSignal, ReadType
  <2>2. conn' = conn /\ up' = up /\ signal' = ~ctxDone
    BY <1>6, <1>8 DEF PumpSignal
  <2>3. \A q \in Pumps : pump'[q] = "none"
    BY <1>6, <2>1
  <2>4. conn = 0
    BY <1>6, <1>8 DEF PumpSignal, IInv, ConnHeld, Holds, Busy
  <2>5. (OneToken /\ ConnHeld /\ NoOrphanConn /\ Attended)'
    BY <1>6, <1>7, <2>2, <2>3, <2>4 DEF OneToken, OneReader, Reading, Busy, ConnHeld,
       NoOrphanConn, Attended, IInv
  <2>6. (Shutdown /\ Pending)'
    BY <1>7, <2>3 DEF IInv, Shutdown, Stopped, Pending
  <2> QED
    BY <1>2, <1>3, <1>4, <1>5, <2>5, <2>6 DEF IInv, TypeOK
<1>9. CASE ~PumpSignal(p)
  <2>1. pump'[p] # "none" /\ signal' = signal
    BY <1>1, <1>9 DEF ReadType, Read, PumpLoad, PumpFrame, PumpReadFails, PumpExit, PumpSignal
  <2>2. (OneToken /\ Attended)'
    BY <1>6, <1>7, <2>1 DEF OneToken, OneReader, Reading, Busy, Attended
  <2>3. conn' # 0 => conn' = conn /\ Holds(p)'
    BY <1>1, <1>9 DEF ReadType, Holds, Read, PumpLoad, PumpFrame, PumpReadFails, PumpExit,
       PumpSignal, DropConn
  <2>4. ConnHeld'
    BY <2>3 DEF ConnHeld
  <2>5. NoOrphanConn'
    BY DEF IInv, NoOrphanConn, Read, PumpLoad, PumpFrame, PumpReadFails, PumpExit, PumpSignal,
       DropConn
  <2>6. (Shutdown /\ Pending)'
    BY <1>6, <1>7 DEF IInv, Shutdown, Stopped, Pending
  <2> QED
    BY <1>2, <1>3, <1>4, <1>5, <2>2, <2>4, <2>5, <2>6 DEF IInv, TypeOK
<1> QED
  BY <1>8, <1>9

(* Without a connection no socket is open. *)
LEMMA NothingUp == ASSUME IInv, conn = 0 PROVE up = {}
<1>1. up \subseteq 1..MaxConns /\ up \subseteq {0}
  BY DEF IInv, TypeOK, ConnType, NoOrphanConn
<1>2. 0 \notin 1..MaxConns
  BY ParamAssumption
<1> QED
  BY <1>1, <1>2

(* A number for the next connection is at hand. *)
LEMMA NextConn == ASSUME ConnType, Publish
                  PROVE  /\ dials + 1 \in 1..MaxConns /\ dials + 1 \in 0..MaxConns
                         /\ dials + 1 # 0
<1>1. dials \in 0..MaxConns /\ dials < MaxConns
  BY DEF ConnType, Publish
<1>2. MaxConns \in Nat
  BY ParamAssumption
<1> QED
  BY <1>1, <1>2

(* Connect: the only step that leaves the unstarted state. *)
LEMMA ConnectIInv == IInv /\ Connect => IInv'
<1> SUFFICES ASSUME IInv, Connect PROVE IInv'
  OBVIOUS
<1> USE DEF connVars, readVars, loopVars, writeVars, sendVars
<1>1. ConnType /\ ReadType /\ LoopType /\ WriteType /\ SendType
  BY DEF IInv, TypeOK
<1>2. PICK p \in Pumps : pump' = [pump EXCEPT ![p] = "start"]
  BY DEF Connect
<1>3. /\ conn = 0 /\ up = {} /\ ~signal /\ ~ctxDone /\ closing = "no"
      /\ \A q \in Pumps : pump[q] = "none"
  BY NothingUp DEF Connect, IInv, Unstarted
<1>4. dials + 1 \in 1..MaxConns /\ dials + 1 \in 0..MaxConns /\ dials + 1 # 0
  BY <1>1, NextConn DEF Connect
<1>5. pump'[p] = "start" /\ \A q \in Pumps : q # p => pump'[q] = "none"
  BY <1>1, <1>2, <1>3 DEF ReadType
<1>6. ConnType'
  <2>1. /\ dials' = dials + 1 /\ conn' = dials + 1 /\ up' = up \cup {dials + 1}
        /\ connected' = TRUE /\ ready' = TRUE /\ ctxDone' = ctxDone
        /\ closing' = closing /\ panic' = panic
    BY DEF Connect, Publish
  <2> QED
    BY <1>1, <1>4, <2>1 DEF ConnType
<1>7. (ReadType /\ LoopType /\ WriteType)'
  BY <1>1 DEF Connect, ReadType, LoopType, WriteType
<1>8. SendType'
  BY <1>1 DEF Connect, SendType
<1>9. (Unstarted /\ NoOrphanConn /\ Attended)'
  BY <1>3, <1>4, <1>5 DEF Connect, Publish, Unstarted, NoOrphanConn, Attended, Reading
<1>10. (OneToken /\ ConnHeld)'
  BY <1>3, <1>5 DEF Connect, OneToken, OneReader, Reading, Busy, ConnHeld, Holds
<1>11. (Shutdown /\ Pending)'
  BY <1>3 DEF Connect, Shutdown, Stopped, Pending, IInv
<1> QED
  BY <1>6, <1>7, <1>8, <1>9, <1>10, <1>11 DEF IInv, TypeOK

(* The steps of reconnectLoop. *)
LEMMA ReconnectIInv == IInv /\ Reconnect => IInv'
<1> SUFFICES ASSUME IInv, Reconnect PROVE IInv'
  OBVIOUS
<1> USE DEF connVars, readVars, loopVars, writeVars, sendVars, LoopRest
<1>1. ConnType /\ ReadType /\ LoopType /\ WriteType /\ SendType
  BY DEF IInv, TypeOK
<1>2. (WriteType /\ SendType)'
  <2>1. UNCHANGED <<writeVars, queue, chClosed, sender, sent, startup>>
    BY DEF Reconnect, LoopWake, LoopStops, DialFails, DialOk, DialGuard, Spawn
  <2>2. due' \in [{"rehello", "reauth"} -> Nat]
    BY <1>1 DEF SendType, Reconnect, LoopWake, LoopStops, DialFails, DialOk, DialGuard, Spawn
  <2> QED
    BY <1>1, <2>1, <2>2 DEF WriteType, SendType
<1>3. ReadType'
  BY <1>1 DEF ReadType, Reconnect, LoopWake, LoopStops, DialFails, DialOk, DialGuard, Spawn
<1>4. LoopType'
  <2>1. loop' \in {"none", "wait", "backoff", "dial", "guard", "spawn", "done"}
    BY <1>1 DEF LoopType, Reconnect, LoopWake, LoopStops, DialFails, DialOk, DialGuard, Spawn
  <2>2. \/ backoff' = backoff \/ backoff' = 1
        \/ backoff' = IF backoff * 2 < MaxBackoff THEN backoff * 2 ELSE MaxBackoff
    BY DEF Reconnect, LoopWake, LoopStops, DialFails, DialOk, DialGuard, Spawn
  <2>3. backoff' \in 1..MaxBackoff
    BY <1>1, <2>2, ParamAssumption DEF LoopType
  <2> QED
    BY <2>1, <2>3 DEF LoopType
<1>5. ConnType'
  <2>1. UNCHANGED <<ready, ctxDone, closing, panic>>
    BY DEF Reconnect, LoopWake, LoopStops, DialFails, DialOk, DialGuard, Spawn
  <2>2. UNCHANGED connVars \/ Publish \/ DropConn
    BY DEF Reconnect, LoopWake, LoopStops, DialFails, DialOk, DialGuard, Spawn
  <2>3. 0 \in 0..MaxConns
    BY ParamAssumption
  <2>4. CASE UNCHANGED connVars
    BY <1>1, <2>1, <2>4 DEF ConnType
  <2>5. CASE Publish
    <3>1. dials + 1 \in 1..MaxConns /\ dials + 1 \in 0..MaxConns
      BY <1>1, <2>5, NextConn
    <3> QED
      BY <1>1, <2>1, <2>5, <3>1 DEF Publish, ConnType
  <2>6. CASE DropConn
    BY <1>1, <2>1, <2>3, <2>6 DEF DropConn, ConnType
  <2> QED
    BY <2>2, <2>4, <2>5, <2>6
<1>6. ready /\ ready' = ready /\ ctxDone' = ctxDone /\ closing' = closing /\ sender' = sender
  BY DEF IInv, Unstarted, Reconnect, LoopWake, LoopStops, DialFails, DialOk, DialGuard, Spawn
<1>7. Unstarted'
  <2>1. dials \in Nat /\ dials > 0
    <3>1. dials \in Nat
      <4>1. dials \in 0..MaxConns /\ MaxConns \in Nat
        BY <1>1, ParamAssumption DEF ConnType
      <4>2. \A n \in 0..MaxConns : n \in Nat
        OBVIOUS
      <4> QED
        BY <4>1, <4>2
    <3>2. dials > 0
      BY <1>6 DEF IInv, Unstarted
    <3> QED
      BY <3>1, <3>2
  <2>2. dials' = dials \/ dials' = dials + 1
    BY DEF Reconnect, LoopWake, LoopStops, DialFails, DialOk, DialGuard, Spawn, Publish,
       DropConn
  <2>3. dials' > 0
    BY <2>1, <2>2
  <2> QED
    BY <1>6, <2>3 DEF Unstarted
<1>8. ~Stopped
  BY DEF Stopped, Reconnect, LoopWake, LoopStops, DialFails, DialOk, DialGuard, Spawn
<1>9. Shutdown'
  <2>1. loop' = "done" => ctxDone
    BY DEF Reconnect, LoopWake, LoopStops, DialFails, DialOk, DialGuard, Spawn
  <2>2. loop' # "none"
    BY <1>1, <1>6 DEF IInv, Shutdown, Reconnect, LoopWake, LoopStops, DialFails, DialOk, DialGuard, Spawn
  <2> QED
    BY <1>6, <1>8, <2>1, <2>2 DEF IInv, Shutdown
<1>10. Pending'
  <2>1. due' = due \/ due' = [due EXCEPT !["rehello"] = @ + 1]
    BY DEF Reconnect, LoopWake, LoopStops, DialFails, DialOk, DialGuard, Spawn
  <2>2. \A s \in {"rehello", "reauth"} : due[s] > 0 => due'[s] > 0
    BY <1>1, <2>1 DEF SendType
  <2>3. startup' = startup
    BY DEF Reconnect, LoopWake, LoopStops, DialFails, DialOk, DialGuard, Spawn
  <2> QED
    BY <1>6, <2>2, <2>3 DEF IInv, Pending
<1>11. CASE LoopWake \/ LoopStops \/ DialFails
  <2>1. UNCHANGED <<conn, up, pump>>
    BY <1>11 DEF LoopWake, LoopStops, DialFails
  <2>2. loop \notin {"guard", "spawn"} /\ loop' \notin {"guard", "spawn"}
    BY <1>11 DEF LoopWake, LoopStops, DialFails
  <2>3. (ConnHeld /\ NoOrphanConn)'
    BY <2>1, <2>2 DEF IInv, ConnHeld, Holds, NoOrphanConn
  <2>4. (OneToken /\ Attended)'
    BY <1>6, <1>11, <2>1 DEF IInv, OneToken, OneReader, Reading, Busy, Attended, LoopWake,
       LoopStops, DialFails
  <2> QED
    BY <1>2, <1>3, <1>4, <1>5, <1>7, <1>9, <1>10, <2>3, <2>4 DEF IInv, TypeOK
<1>12. CASE DialOk
  <2>1. conn = 0
    BY <1>12 DEF DialOk, IInv, OneToken, Busy, ConnHeld, Holds, Reading
  <2>2. up = {}
    BY <2>1, NothingUp
  <2>3. (ConnHeld /\ NoOrphanConn)'
    BY <1>12, <2>2 DEF DialOk, Publish, ConnHeld, NoOrphanConn
  <2>4. (OneToken /\ Attended)'
    BY <1>12 DEF DialOk, IInv, OneToken, OneReader, Reading, Busy, Attended
  <2> QED
    BY <1>2, <1>3, <1>4, <1>5, <1>7, <1>9, <1>10, <2>3, <2>4 DEF IInv, TypeOK
<1>13. CASE DialGuard
  <2>1. (ConnHeld /\ NoOrphanConn)'
    BY <1>13 DEF DialGuard, DropConn, IInv, ConnHeld, NoOrphanConn
  <2>2. (OneToken /\ Attended)'
    BY <1>13 DEF DialGuard, IInv, OneToken, OneReader, Reading, Busy, Attended
  <2> QED
    BY <1>2, <1>3, <1>4, <1>5, <1>7, <1>9, <1>10, <2>1, <2>2 DEF IInv, TypeOK
<1>14. CASE Spawn
  <2>1. PICK p \in Pumps : pump' = [pump EXCEPT ![p] = "start"]
    BY <1>14 DEF Spawn
  <2>2. ~signal /\ signal' = signal /\ \A q \in Pumps : pump[q] = "none"
    BY <1>14 DEF Spawn, IInv, OneToken, Busy, Reading
  <2>3. pump'[p] = "start" /\ \A q \in Pumps : q # p => pump'[q] = "none"
    BY <1>1, <2>1, <2>2 DEF ReadType
  <2>4. (OneToken /\ Attended)'
    BY <1>14, <2>2, <2>3 DEF Spawn, OneToken, OneReader, Reading, Busy, Attended
  <2>5. (ConnHeld /\ NoOrphanConn)'
    BY <1>14, <2>3 DEF Spawn, IInv, ConnHeld, Holds, NoOrphanConn
  <2> QED
    BY <1>2, <1>3, <1>4, <1>5, <1>7, <1>9, <1>10, <2>4, <2>5 DEF IInv, TypeOK
<1> QED
  BY <1>11, <1>12, <1>13, <1>14 DEF Reconnect

(* The steps of writePump and of the callers of SendFrame, which touch      *)
(* neither the connection nor the reader.                                   *)
LEMMA WriteIInv == IInv /\ Write => IInv'
<1> SUFFICES ASSUME IInv, Write PROVE IInv'
  OBVIOUS
<1> USE DEF connVars, readVars, loopVars, writeVars, sendVars, WriteRest
<1>1. ConnType /\ ReadType /\ LoopType /\ WriteType /\ SendType
  BY DEF IInv, TypeOK
<1>2. UNCHANGED <<connVars, ready, ctxDone, readVars, loopVars, chClosed, closing,
                  sendVars, panic>>
  BY DEF Write, WriterTakes, WriterLoads, WriterWrites, WriterStops
<1>3. (ConnType /\ ReadType /\ LoopType /\ SendType)'
  <2>1. (ConnType /\ ReadType /\ LoopType)'
    BY <1>1, <1>2 DEF ConnType, ReadType, LoopType
  <2>2. SendType'
    BY <1>1, <1>2 DEF SendType
  <2> QED
    BY <2>1, <2>2
<1>4. WriteType'
  <2>1. /\ writer' \in {"none", "select", "load", "write", "done"}
        /\ chClosed' \in BOOLEAN
    BY <1>1, <1>2 DEF WriteType, Write, WriterTakes, WriterLoads, WriterWrites, WriterStops
  <2>2. queue' \in Seq(Frames) /\ hand' \in {"none"} \cup Frames
    <3>1. CASE WriterTakes
      BY <1>1, <3>1 DEF WriteType, WriterTakes
    <3>2. CASE WriterLoads \/ WriterWrites \/ WriterStops
      BY <1>1, <3>2 DEF WriteType, WriterLoads, WriterWrites, WriterStops
    <3> QED
      BY <3>1, <3>2 DEF Write
  <2>3. writeConn' = writeConn \/ writeConn' = conn \/ writeConn' = 0
    BY DEF Write, WriterTakes, WriterLoads, WriterWrites, WriterStops
  <2>4. 0 \in 0..MaxConns
    BY ParamAssumption
  <2>5. writeConn' \in 0..MaxConns
    BY <1>1, <2>3, <2>4 DEF WriteType, ConnType
  <2>6. firstOn' = firstOn \/ firstOn' = [firstOn EXCEPT ![writeConn] = hand]
    BY DEF Write, WriterTakes, WriterLoads, WriterWrites, WriterStops
  <2>7. firstOn' \in [1..MaxConns -> {"none"} \cup Frames]
    BY <1>1, <2>6 DEF WriteType
  <2> QED
    BY <2>1, <2>2, <2>7, <2>5 DEF WriteType
<1>5. (Unstarted /\ OneToken /\ ConnHeld /\ NoOrphanConn /\ Attended)'
  <2>1. ready => (Unstarted /\ OneToken /\ ConnHeld /\ NoOrphanConn /\ Attended)'
    BY <1>2 DEF IInv, Unstarted, OneToken, OneReader, Reading, Busy, ConnHeld, Holds,
       NoOrphanConn, Attended
  <2>2. writer # "none"
    BY DEF Write, WriterTakes, WriterLoads, WriterWrites, WriterStops
  <2> QED
    BY <2>1, <2>2 DEF IInv, Unstarted
<1>6. (Shutdown /\ Pending)'
  <2>1. writer # "done"
    BY DEF Write, WriterTakes, WriterLoads, WriterWrites, WriterStops
  <2> QED
    BY <1>2, <2>1 DEF IInv, Shutdown, Stopped, Pending
<1> QED
  BY <1>3, <1>4, <1>5, <1>6 DEF IInv, TypeOK

(* The callers of SendFrame: the handshake and sendLoop. *)
LEMMA SendIInv == ASSUME NEW s \in Senders, IInv, Send(s) PROVE IInv'
<1> USE DEF connVars, readVars, loopVars, writeVars, sendVars
<1>1. ConnType /\ ReadType /\ LoopType /\ WriteType /\ SendType
  BY DEF IInv, TypeOK
<1>2. UNCHANGED <<connVars, ready, ctxDone, readVars, loopVars, writeVars, chClosed, closing>>
  BY DEF Send, EnsureConnected, NotConnected, Enqueue
<1>3. (ReadType /\ LoopType)' /\ ConnType'
  <2>1. panic' = panic \/ panic' = "send on closed channel"
    BY DEF Send, EnsureConnected, NotConnected, Enqueue
  <2> QED
    BY <1>1, <1>2, <2>1 DEF ReadType, LoopType, ConnType
<1>4. /\ s \in {"rehello", "reauth"} => due[s] > 0
      /\ s = "connect" => startup \in {"hello", "auth"}
  BY <1>1 DEF SendType, IInv, Pending, Send, EnsureConnected, NotConnected, Enqueue, HasFrame
<1>5. WriteType'
  <2>1. Frame(s) \in Frames
    BY <1>4 DEF Frame, Frames, Senders
  <2>2. queue' = queue \/ queue' = Append(queue, Frame(s))
    BY DEF Send, EnsureConnected, NotConnected, Enqueue
  <2>3. queue' \in Seq(Frames)
    BY <1>1, <2>1, <2>2 DEF WriteType
  <2> QED
    BY <1>1, <1>2, <2>3 DEF WriteType
<1>6. \/ sender' = [sender EXCEPT ![s] = "send"] /\ UNCHANGED <<sent, startup, due>>
      \/ UNCHANGED sendVars
      \/ \E ok \in BOOLEAN : Dispose(s, ok)
  BY DEF Send, EnsureConnected, NotConnected, Enqueue
<1>7. (SendType /\ Pending)'
  <2>1. CASE sender' = [sender EXCEPT ![s] = "send"] /\ UNCHANGED <<sent, startup, due>>
    BY <1>1, <1>4, <2>1 DEF IInv, SendType, Pending
  <2>2. CASE UNCHANGED sendVars
    BY <1>1, <2>2 DEF IInv, SendType, Pending
  <2>3. ASSUME NEW ok \in BOOLEAN, Dispose(s, ok) PROVE (SendType /\ Pending)'
    <3>1. sender' = [sender EXCEPT ![s] = "idle"]
      BY <2>3 DEF Dispose
    <3>2. CASE s = "sendLoop"
      BY <1>1, <2>3, <3>1, <3>2 DEF IInv, Dispose, SendType, Pending
    <3>3. CASE s = "connect"
      BY <1>1, <2>3, <3>1, <3>3 DEF IInv, Dispose, SendType, Pending
    <3>4. CASE s = "rehello"
      BY <1>1, <1>4, <2>3, <3>1, <3>4 DEF IInv, Dispose, SendType, Pending
    <3>5. CASE s = "reauth"
      BY <1>1, <1>4, <2>3, <3>1, <3>5 DEF IInv, Dispose, SendType, Pending
    <3> QED
      BY <3>2, <3>3, <3>4, <3>5 DEF Senders
  <2> QED
    BY <1>6, <2>1, <2>2, <2>3
<1>8. ready
  <2>1. s = "sendLoop" => sender[s] = "send" \/ startup = "yes"
    BY <1>1 DEF SendType, Send, EnsureConnected, NotConnected, Enqueue, HasFrame
  <2> QED
    BY <1>4, <2>1 DEF IInv, Unstarted, Senders
<1>9. (Unstarted /\ OneToken /\ ConnHeld /\ NoOrphanConn /\ Attended)'
  BY <1>2, <1>8 DEF IInv, Unstarted, OneToken, OneReader, Reading, Busy, ConnHeld, Holds,
     NoOrphanConn, Attended
<1>10. Shutdown'
  BY <1>2 DEF IInv, Shutdown, Stopped
<1> QED
  BY <1>3, <1>5, <1>7, <1>9, <1>10 DEF IInv, TypeOK

(* A dropped connection, the steps of Close, and stuttering. *)
LEMMA OtherIInv == IInv /\ (PeerDrops \/ CloseStart \/ Closing \/ UNCHANGED vars) => IInv'
<1> SUFFICES ASSUME IInv, PeerDrops \/ CloseStart \/ Closing \/ UNCHANGED vars
             PROVE  IInv'
  OBVIOUS
<1> USE DEF vars, connVars, readVars, loopVars, writeVars, sendVars
<1>1. ConnType /\ ReadType /\ LoopType /\ WriteType /\ SendType
  BY DEF IInv, TypeOK
<1>2. UNCHANGED <<ready, readVars, loopVars, writeVars, queue, sendVars>>
  BY DEF PeerDrops, CloseStart, Closing, CloseFinish, ClientCancels
<1>3. chClosed' = chClosed \/ chClosed' = TRUE
  BY DEF PeerDrops, CloseStart, Closing, CloseFinish, ClientCancels
<1>4. (ReadType /\ LoopType /\ WriteType /\ SendType)'
  <2>1. chClosed' \in BOOLEAN
    BY <1>1, <1>3 DEF WriteType
  <2>2. ReadType' /\ LoopType' /\ SendType'
    BY <1>1, <1>2 DEF ReadType, LoopType, SendType
  <2>3. WriteType'
    BY <1>1, <1>2, <2>1 DEF WriteType
  <2> QED
    BY <2>2, <2>3
<1>5. /\ conn' = conn \/ conn' = 0
      /\ connected' = connected \/ connected' = FALSE
      /\ up' \subseteq up
      /\ dials' = dials /\ panic' = panic
      /\ ctxDone' = ctxDone \/ ctxDone' = TRUE
      /\ closing' = closing \/ closing' \in {"wait", "closed", "cancelled"}
  BY DEF PeerDrops, CloseStart, Closing, CloseFinish, ClientCancels, DropConn
<1>6. ConnType'
  <2>1. 0 \in 0..MaxConns
    BY ParamAssumption
  <2> QED
    BY <1>1, <1>2, <1>5, <2>1 DEF ConnType
<1>7. NoOrphanConn'
  BY <1>5 DEF IInv, NoOrphanConn, PeerDrops, CloseStart, Closing, CloseFinish, ClientCancels,
     DropConn
<1>8. (OneToken /\ ConnHeld)'
  BY <1>2, <1>5 DEF IInv, OneToken, OneReader, Reading, Busy, ConnHeld, Holds
<1>9. Attended'
  BY <1>2, <1>5 DEF IInv, Attended, Reading
<1>10. Unstarted'
  <2>1. startup # "no" => ready
    BY DEF IInv, Unstarted
  <2>2. ~ready => ctxDone' = ctxDone
    BY <2>1 DEF IInv, Unstarted, Shutdown, PeerDrops, CloseStart, Closing, CloseFinish,
       ClientCancels
  <2> QED
    BY <1>2, <1>5, <2>2 DEF IInv, Unstarted
<1>11. Pending'
  BY <1>2 DEF IInv, Pending
<1>12. Shutdown'
  <2>1. (closing \in {"closed", "cancelled"} => Stopped)'
    BY <1>2 DEF IInv, Shutdown, Stopped, PeerDrops, CloseStart, Closing, CloseFinish,
       ClientCancels
  <2>2. (ctxDone <=> closing # "no")'
    <3>1. ctxDone <=> closing # "no"
      BY DEF IInv, Shutdown
    <3>2. CASE PeerDrops \/ UNCHANGED vars
      BY <3>1, <3>2 DEF PeerDrops
    <3>3. CASE CloseStart
      BY <3>3 DEF CloseStart
    <3>4. CASE Closing
      BY <3>1, <3>4 DEF Closing, CloseFinish, ClientCancels
    <3> QED
      BY <3>2, <3>3, <3>4
  <2> QED
    BY <1>2, <1>5, <2>1, <2>2 DEF IInv, Shutdown
<1> QED
  BY <1>4, <1>6, <1>7, <1>8, <1>9, <1>10, <1>12, <1>11 DEF IInv, TypeOK

(* Every step keeps the invariant. *)
LEMMA NextIInv == IInv /\ [Next]_vars => IInv'
BY ConnectIInv, ReadIInv, ReconnectIInv, WriteIInv, SendIInv, OtherIInv DEF Next

-----------------------------------------------------------------------------
(* The inductive invariant holds in every reachable state. *)
THEOREM InvariantHolds == Spec => []IInv
<1>1. Init => IInv
  BY InitIInv
<1>2. IInv /\ [Next]_vars => IInv'
  BY NextIInv
<1> QED
  BY <1>1, <1>2, PTL DEF Spec

(* Every variable keeps its type; with it, the backoff stays within its cap *)
(* and the connection numbers within the bound.                             *)
THEOREM TypeCorrect == Spec => []TypeOK
<1>1. IInv => TypeOK
  BY DEF IInv
<1> QED
  BY <1>1, InvariantHolds, PTL

(* Never two goroutines read the socket, however often it reconnects. *)
THEOREM SingleReader == Spec => []OneReader
<1>1. IInv => OneReader
  BY DEF IInv, OneToken
<1> QED
  BY <1>1, InvariantHolds, PTL

(* No socket stays open that the transport does not hold. *)
THEOREM NoLeakedConn == Spec => []NoOrphanConn
<1>1. IInv => NoOrphanConn
  BY DEF IInv
<1> QED
  BY <1>1, InvariantHolds, PTL

(* No disconnect goes unnoticed while the transport is not closing. *)
THEOREM NoMissedDisconnect == Spec => []Attended
<1>1. IInv => Attended
  BY DEF IInv
<1> QED
  BY <1>1, InvariantHolds, PTL

(* After Close nothing runs and no connection is open: a stopped transport  *)
(* has no reader and no reconnect to hold a connection.                     *)
THEOREM CloseEndsAll == Spec => []CloseIsFinal
<1>1. IInv => CloseIsFinal
  <2> SUFFICES ASSUME IInv, closing \in {"closed", "cancelled"}
               PROVE  Stopped /\ up = {} /\ conn = 0
    BY DEF CloseIsFinal
  <2>1. Stopped
    BY DEF IInv, Shutdown
  <2>2. conn = 0
    BY <2>1 DEF IInv, ConnHeld, Holds, Stopped
  <2> QED
    BY <2>1, <2>2, NothingUp
<1> QED
  BY <1>1, InvariantHolds, PTL

-----------------------------------------------------------------------------
(* The greeting. *)

(* Before a second connection there is no handshake but the first.          *)
FirstOnly ==
    /\ conn \in {0, dials}
    /\ ready => dials > 0
    /\ ~ready => dials = 0
    /\ dials <= 1 => loop \notin {"guard", "spawn"} /\ due["rehello"] = 0 /\ due["reauth"] = 0
    /\ writer = "write" => writeConn # 0 /\ writeConn <= dials

(* What the start-up has done so far. *)
StartUp ==
    /\ startup = "no" => ~ready /\ queue = <<>>
    /\ startup \in {"no", "hello", "auth"} => closing = "no" /\ sender["sendLoop"] = "idle"

Writing == writer \in {"load", "write"}

(* While the first connection has carried nothing, HELLO is the next frame. *)
HelloNext ==
    1 \in up /\ firstOn[1] = "none" =>
        \/ Writing /\ hand = "hello"
        \/ ~Writing /\ queue # <<>> /\ Head(queue) = "hello"
        \/ ~Writing /\ queue = <<>> /\ startup = "hello"

Greeting == FirstOnly /\ StartUp /\ HelloNext /\ FirstConnectionGreets

LEMMA Numbers ==
    IInv => /\ dials \in Nat /\ conn \in Nat /\ writeConn \in Nat /\ Len(queue) \in Nat
            /\ firstOn \in [1..MaxConns -> {"none"} \cup Frames] /\ 1 \in 1..MaxConns
            /\ queue \in Seq(Frames) /\ up \subseteq {conn}
            /\ sender \in [Senders -> {"idle", "send"}]
            /\ due \in [{"rehello", "reauth"} -> Nat]
<1> SUFFICES ASSUME IInv PROVE
       /\ dials \in Nat /\ conn \in Nat /\ writeConn \in Nat /\ Len(queue) \in Nat
       /\ firstOn \in [1..MaxConns -> {"none"} \cup Frames] /\ 1 \in 1..MaxConns
       /\ queue \in Seq(Frames) /\ up \subseteq {conn}
       /\ sender \in [Senders -> {"idle", "send"}]
       /\ due \in [{"rehello", "reauth"} -> Nat]
  OBVIOUS
<1>1. dials \in 0..MaxConns /\ conn \in 0..MaxConns /\ writeConn \in 0..MaxConns
  BY DEF IInv, TypeOK, ConnType, WriteType
<1>2. MaxConns \in Nat \ {0}
  BY ParamAssumption
<1>3. queue \in Seq(Frames)
  BY DEF IInv, TypeOK, WriteType
<1>4. Len(queue) \in Nat
  BY <1>3
<1> QED
  BY <1>1, <1>2, <1>3, <1>4 DEF IInv, TypeOK, WriteType, SendType, NoOrphanConn

LEMMA InitGreeting == Init => Greeting
<1> SUFFICES ASSUME Init PROVE Greeting
  OBVIOUS
<1>1. 1 \in 1..MaxConns
  BY ParamAssumption
<1> QED
  BY <1>1 DEF Init, Greeting, FirstOnly, StartUp, HelloNext, FirstConnectionGreets, Senders

LEMMA ConnectGreeting == IInv /\ Greeting /\ Connect => Greeting'
<1> SUFFICES ASSUME IInv, Greeting, Connect PROVE Greeting'
  OBVIOUS
<1>1. /\ startup = "no" /\ dials = 0 /\ writer = "none" /\ queue = <<>> /\ due["rehello"] = 0
      /\ due["reauth"] = 0 /\ sender["sendLoop"] = "idle"
  BY DEF Connect, IInv, Unstarted, Greeting, FirstOnly, StartUp, Senders
<1>2. /\ dials' = 1 /\ conn' = 1 /\ ready' /\ writer' = "select" /\ loop' = "wait"
      /\ startup' = "hello" /\ closing = "no"
      /\ UNCHANGED <<writeConn, hand, firstOn, queue, closing, sender, due>>
  BY <1>1 DEF Connect, Publish
<1> QED
  BY <1>1, <1>2 DEF Greeting, FirstOnly, StartUp, HelloNext, FirstConnectionGreets, Writing

(* The steps that touch neither the queue nor a caller. *)
LEMMA AsideGreeting ==
    ASSUME IInv, Greeting,
           UNCHANGED <<dials, ready, writer, writeConn, hand, firstOn, queue, sender, startup, due>>,
           conn' \in {0, conn}, up' \subseteq up,
           loop' \in {"guard", "spawn"} => loop \in {"guard", "spawn"},
           closing' = closing \/ startup \notin {"no", "hello", "auth"}
    PROVE  Greeting'
BY DEF Greeting, FirstOnly, StartUp, HelloNext, FirstConnectionGreets, Writing

LEMMA ReadGreeting == ASSUME IInv, Greeting, NEW p \in Pumps, Read(p) PROVE Greeting'
<1>1. UNCHANGED <<dials, ready, writer, writeConn, hand, firstOn, queue, sender, startup, due,
                  loop, closing>>
  BY DEF Read, PumpLoad, PumpFrame, PumpReadFails, PumpExit, PumpSignal, DropConn, connVars,
     loopVars, writeVars, sendVars
<1>2. conn' \in {0, conn} /\ up' \subseteq up
  BY DEF Read, PumpLoad, PumpFrame, PumpReadFails, PumpExit, PumpSignal, DropConn, connVars
<1> QED
  BY <1>1, <1>2, AsideGreeting

LEMMA ReconnectGreeting == IInv /\ Greeting /\ Reconnect => Greeting'
<1> SUFFICES ASSUME IInv, Greeting, Reconnect PROVE Greeting'
  OBVIOUS
<1>1. CASE LoopWake \/ LoopStops \/ DialFails \/ DialGuard
  <2>1. UNCHANGED <<dials, ready, writer, writeConn, hand, firstOn, queue, sender, startup, due,
                    closing>>
    BY <1>1 DEF LoopWake, LoopStops, DialFails, DialGuard, DropConn, LoopRest, connVars,
       writeVars, sendVars
  <2>2. /\ conn' \in {0, conn} /\ up' \subseteq up
        /\ loop' \in {"guard", "spawn"} => loop \in {"guard", "spawn"}
    BY <1>1 DEF LoopWake, LoopStops, DialFails, DialGuard, DropConn, connVars
  <2> QED
    BY <2>1, <2>2, AsideGreeting
<1>2. CASE DialOk
  <2>1. ready /\ dials \in Nat /\ dials > 0
    BY <1>2, Numbers DEF DialOk, IInv, Unstarted, Greeting, FirstOnly
  <2>2. up = {}
    <3>1. conn = 0
      BY <1>2 DEF DialOk, IInv, ConnHeld, Holds, OneToken, Busy, Reading
    <3> QED
      BY <3>1, NothingUp
  <2>3. /\ dials' = dials + 1 /\ conn' = dials + 1 /\ up' = up \cup {dials + 1}
        /\ UNCHANGED <<ready, writer, writeConn, hand, firstOn, queue, sender, startup, due,
                       closing>>
    BY <1>2 DEF DialOk, Publish, LoopRest, writeVars, sendVars
  <2>4. writeConn \in Nat
    BY Numbers
  <2>5. /\ 1 \notin up' /\ ~(dials' <= 1) /\ dials' > 0
        /\ writeConn <= dials => writeConn <= dials'
    BY <2>1, <2>2, <2>3, <2>4
  <2> QED
    BY <2>1, <2>3, <2>4, <2>5 DEF Greeting, FirstOnly, StartUp, HelloNext, FirstConnectionGreets
<1>3. CASE Spawn
  <2>1. /\ ~(dials <= 1) /\ conn \in {0, dials} /\ dials \in Nat
    BY <1>3, Numbers DEF Spawn, Greeting, FirstOnly
  <2>2. 1 \notin up
    BY <2>1 DEF IInv, NoOrphanConn
  <2>3. UNCHANGED <<dials, conn, up, ready, writer, writeConn, hand, firstOn, queue, sender,
                    startup, closing>>
    BY <1>3 DEF Spawn, connVars, writeVars
  <2> QED
    BY <2>1, <2>2, <2>3 DEF Greeting, FirstOnly, StartUp, HelloNext, FirstConnectionGreets
<1> QED
  BY <1>1, <1>2, <1>3 DEF Reconnect

LEMMA WriteGreeting == IInv /\ Greeting /\ Write => Greeting'
<1> SUFFICES ASSUME IInv, Greeting, Write PROVE Greeting'
  OBVIOUS
<1>1. UNCHANGED <<dials, conn, up, ready, loop, due, startup, closing, sender>>
  BY DEF Write, WriterTakes, WriterLoads, WriterWrites, WriterStops, WriteRest, connVars,
     loopVars, sendVars
<1>2. /\ up \subseteq {conn} /\ dials \in Nat /\ conn \in {0, dials} /\ conn \in Nat
      /\ firstOn \in [1..MaxConns -> {"none"} \cup Frames] /\ 1 \in 1..MaxConns
      /\ queue \in Seq(Frames)
  BY Numbers DEF Greeting, FirstOnly
<1>3. CASE WriterTakes
  <2>1. /\ ~Writing /\ queue # <<>> /\ hand' = Head(queue) /\ queue' = Tail(queue)
        /\ writer' = "load" /\ UNCHANGED <<writeConn, firstOn>>
    BY <1>3 DEF WriterTakes, Writing
  <2>2. startup # "no"
    BY <2>1 DEF Greeting, StartUp
  <2> QED
    BY <1>1, <2>1, <2>2 DEF Greeting, FirstOnly, StartUp, HelloNext, FirstConnectionGreets, Writing
<1>4. CASE WriterLoads
  <2>1. /\ writer = "load" /\ writeConn' = conn /\ UNCHANGED <<firstOn, queue>>
        /\ writer' = (IF conn = 0 THEN "select" ELSE "write")
        /\ hand' = (IF conn = 0 THEN "none" ELSE hand)
    BY <1>4 DEF WriterLoads
  <2>2. CASE conn = 0
    <3>1. 1 \notin up
      BY <1>2, <2>2
    <3> QED
      BY <1>1, <2>1, <2>2, <3>1 DEF Greeting, FirstOnly, StartUp, HelloNext, FirstConnectionGreets
  <2>3. CASE conn # 0
    BY <1>1, <1>2, <2>1, <2>3 DEF Greeting, FirstOnly, StartUp, HelloNext,
       FirstConnectionGreets, Writing
  <2> QED
    BY <2>2, <2>3
<1>5. CASE WriterWrites
  <2>1. /\ writer = "write" /\ writer' = "select" /\ UNCHANGED queue
        /\ firstOn' = IF writeConn \in up /\ firstOn[writeConn] = "none"
                      THEN [firstOn EXCEPT ![writeConn] = hand] ELSE firstOn
    BY <1>5 DEF WriterWrites
  <2>2. writeConn # 0 /\ writeConn <= dials /\ writeConn \in Nat
    BY <2>1, ParamAssumption DEF Greeting, FirstOnly, IInv, TypeOK, WriteType
  <2>3. CASE 1 \in up
    <3>1. conn = 1 /\ dials = 1
      BY <1>2, <2>3
    <3>2. writeConn = 1
      BY <2>2, <3>1
    <3>3. CASE firstOn[1] = "none"
      <4>1. hand = "hello"
        BY <2>1, <2>3, <3>3 DEF Greeting, HelloNext, Writing
      <4>2. firstOn'[1] = "hello"
        BY <1>2, <2>1, <2>3, <3>2, <3>3, <4>1
      <4> QED
        BY <1>1, <2>1, <4>2 DEF Greeting, FirstOnly, StartUp, HelloNext, FirstConnectionGreets
    <3>4. CASE firstOn[1] # "none"
      <4>1. firstOn' = firstOn
        BY <2>1, <3>2, <3>4
      <4> QED
        BY <1>1, <2>1, <3>4, <4>1 DEF Greeting, FirstOnly, StartUp, HelloNext,
           FirstConnectionGreets
    <3> QED
      BY <3>3, <3>4
  <2>4. CASE 1 \notin up
    <3>1. firstOn'[1] = firstOn[1]
      BY <1>2, <2>1, <2>4
    <3> QED
      BY <1>1, <2>1, <2>4, <3>1 DEF Greeting, FirstOnly, StartUp, HelloNext, FirstConnectionGreets
  <2> QED
    BY <2>3, <2>4
<1>6. CASE WriterStops
  BY <1>1, <1>6 DEF WriterStops, Greeting, FirstOnly, StartUp, HelloNext, FirstConnectionGreets,
     Writing
<1> QED
  BY <1>3, <1>4, <1>5, <1>6 DEF Write

(* What a caller may do to the frames and to the start-up. *)
LEMMA SendGreeting == ASSUME IInv, Greeting, NEW s \in Senders, Send(s) PROVE Greeting'
<1>1. CASE EnsureConnected(s)
  <2>1. UNCHANGED <<dials, conn, up, ready, loop, closing, writer, writeConn, hand, firstOn,
                    queue, startup, due>>
    BY <1>1 DEF EnsureConnected, connVars, loopVars, writeVars
  <2>2. s = "sendLoop" => startup = "yes"
    BY <1>1, Numbers DEF EnsureConnected, HasFrame
  <2>3. "sendLoop" \in Senders => sender'["sendLoop"] = sender["sendLoop"] \/ s = "sendLoop"
    BY <1>1, Numbers DEF EnsureConnected
  <2>4. "sendLoop" \in Senders
    BY DEF Senders
  <2> QED
    BY <2>1, <2>2, <2>3, <2>4 DEF Greeting, FirstOnly, StartUp, HelloNext,
       FirstConnectionGreets, Writing
<1>2. CASE NotConnected(s)
  <2>1. UNCHANGED <<dials, conn, up, ready, loop, closing, writer, writeConn, hand, firstOn,
                    queue>>
    BY <1>2 DEF NotConnected, connVars, loopVars, writeVars
  <2>2. ctxDone /\ HasFrame(s) /\ Dispose(s, FALSE)
    BY <1>2 DEF NotConnected
  <2>3. startup \notin {"no", "hello", "auth"}
    BY <2>2 DEF IInv, Shutdown, Greeting, StartUp
  <2>4. s # "connect"
    BY <2>2, <2>3, Numbers DEF HasFrame
  <2>5. startup' = startup
    BY <2>2, <2>4 DEF Dispose
  <2>6. dials <= 1 => due'["rehello"] = 0 /\ due'["reauth"] = 0
    <3> SUFFICES ASSUME dials <= 1 PROVE due'["rehello"] = 0 /\ due'["reauth"] = 0
      OBVIOUS
    <3>1. due["rehello"] = 0 /\ due["reauth"] = 0
      BY DEF Greeting, FirstOnly
    <3>2. s \notin {"rehello", "reauth"}
      BY <2>2, <3>1 DEF HasFrame
    <3> QED
      BY <2>2, <3>1, <3>2 DEF Dispose
  <2> QED
    BY <2>1, <2>3, <2>5, <2>6 DEF Greeting, FirstOnly, StartUp, HelloNext,
       FirstConnectionGreets, Writing
<1>3. CASE Enqueue(s)
  <2>1. UNCHANGED <<dials, conn, up, ready, loop, closing, writer, writeConn, hand, firstOn>>
    BY <1>3 DEF Enqueue, connVars, loopVars, writeVars
  <2>2. sender[s] = "send"
    BY <1>3 DEF Enqueue
  <2>3. dials <= 1 => s \in {"sendLoop", "connect"}
    <3>1. dials <= 1 => due["rehello"] = 0 /\ due["reauth"] = 0
      BY DEF Greeting, FirstOnly
    <3>2. s \in {"rehello", "reauth"} => due[s] > 0
      BY <2>2 DEF IInv, Pending
    <3> QED
      BY <3>1, <3>2 DEF Senders
  <2>4. startup \in {"no", "hello", "auth"} => s # "sendLoop"
    BY <2>2 DEF Greeting, StartUp
  <2>5. s = "connect" => startup \in {"hello", "auth"} /\ ~ctxDone
    BY <2>2 DEF IInv, Pending, Shutdown, Greeting, StartUp
  <2>6. CASE ~chClosed /\ Len(queue) < QCap /\ queue' = Append(queue, Frame(s))
             /\ Dispose(s, TRUE)
    <3>1. CASE s = "connect"
      <4>1. /\ startup' = IF startup = "hello" THEN "auth" ELSE "yes"
            /\ due' = due /\ sender' = [sender EXCEPT !["connect"] = "idle"]
        BY <2>6, <3>1 DEF Dispose
      <4>2. Frame(s) = startup
        BY <3>1 DEF Frame
      <4>3. sender'["sendLoop"] = sender["sendLoop"]
        BY <4>1, Numbers DEF Senders
      <4>4. queue # <<>> => queue' # <<>> /\ Head(queue') = Head(queue)
        BY <2>6, Numbers
      <4>5. queue = <<>> => queue' # <<>> /\ Head(queue') = startup
        BY <2>6, <4>2
      <4>6. HelloNext'
        BY <2>1, <2>5, <3>1, <4>1, <4>4, <4>5 DEF Greeting, HelloNext, Writing
      <4>7. FirstOnly' /\ FirstConnectionGreets'
        BY <2>1, <4>1 DEF Greeting, FirstOnly, FirstConnectionGreets
      <4>8. StartUp'
        BY <2>1, <2>5, <3>1, <4>1, <4>3 DEF Greeting, StartUp
      <4> QED
        BY <4>6, <4>7, <4>8 DEF Greeting
    <3>2. CASE s # "connect"
      <4>1. startup' = startup /\ sender' = [sender EXCEPT ![s] = "idle"]
        BY <2>6, <3>2 DEF Dispose
      <4>2. dials <= 1 => due' = due
        BY <2>3, <2>6, <3>2 DEF Dispose
      <4>3. queue # <<>> => queue' # <<>> /\ Head(queue') = Head(queue)
        <5>1. queue' # <<>>
          BY <2>6, Numbers
        <5>2. Frame(s) \in Frames
          BY <3>2 DEF Frame, Frames, Senders
        <5> QED
          BY <2>6, <5>1, <5>2, Numbers
      <4>4. sender["sendLoop"] = "idle" => sender'["sendLoop"] = "idle"
        BY <4>1, Numbers DEF Senders
      <4>5. startup # "no"
        <5>1. startup = "no" => sender[s] = "idle"
          BY DEF IInv, Unstarted, Greeting, StartUp
        <5> QED
          BY <2>2, <5>1
      <4>6. 1 \in up => dials <= 1
        BY Numbers DEF Greeting, FirstOnly
      <4>7. HelloNext'
        BY <2>1, <2>3, <2>4, <3>2, <4>1, <4>3, <4>6 DEF Greeting, HelloNext, Writing
      <4>8. FirstOnly' /\ FirstConnectionGreets'
        BY <2>1, <4>2 DEF Greeting, FirstOnly, FirstConnectionGreets
      <4>9. StartUp'
        BY <2>1, <4>1, <4>4, <4>5 DEF Greeting, StartUp
      <4> QED
        BY <4>7, <4>8, <4>9 DEF Greeting
    <3> QED
      BY <3>1, <3>2
  <2>7. CASE (ctxDone \/ (~chClosed /\ Len(queue) = QCap)) /\ Dispose(s, FALSE)
             /\ queue' = queue
    <3>1. sender' = [sender EXCEPT ![s] = "idle"]
          /\ startup' = IF s = "connect" THEN "failed" ELSE startup
      BY <2>7 DEF Dispose
    <3>2. dials <= 1 => due' = due
      BY <2>3, <2>7 DEF Dispose
    <3>3. sender["sendLoop"] = "idle" => sender'["sendLoop"] = "idle"
      BY <3>1, Numbers DEF Senders
    <3>4. s = "connect" => queue # <<>>
      BY <2>5, <2>7, ParamAssumption
    <3>5. HelloNext'
      BY <2>1, <2>7, <3>1, <3>4 DEF Greeting, HelloNext, Writing
    <3>6. FirstOnly' /\ FirstConnectionGreets'
      BY <2>1, <3>2 DEF Greeting, FirstOnly, FirstConnectionGreets
    <3>7. StartUp'
      BY <2>1, <2>7, <3>1, <3>3 DEF Greeting, StartUp
    <3> QED
      BY <3>5, <3>6, <3>7 DEF Greeting
  <2>8. CASE UNCHANGED <<queue, sendVars>>
    BY <2>1, <2>8 DEF sendVars, Greeting, FirstOnly, StartUp, HelloNext, FirstConnectionGreets,
       Writing
  <2> QED
    BY <1>3, <2>6, <2>7, <2>8 DEF Enqueue
<1> QED
  BY <1>1, <1>2, <1>3 DEF Send

(* The rest touches neither the queue nor a caller. *)
LEMMA OtherGreeting ==
    ASSUME IInv, Greeting, PeerDrops \/ CloseStart \/ Closing \/ UNCHANGED vars
    PROVE  Greeting'
<1> USE DEF vars, connVars, readVars, loopVars, writeVars, sendVars
<1>1. UNCHANGED <<dials, ready, writer, writeConn, hand, firstOn, queue, sender, startup, due,
                  loop>>
  BY DEF PeerDrops, CloseStart, Closing, CloseFinish, ClientCancels, DropConn
<1>2. conn' \in {0, conn} /\ up' \subseteq up
  BY DEF PeerDrops, CloseStart, Closing, CloseFinish, ClientCancels, DropConn
<1>3. closing' = closing \/ startup \notin {"no", "hello", "auth"}
  BY DEF PeerDrops, CloseStart, Closing, CloseFinish, ClientCancels, Greeting, StartUp
<1> QED
  BY <1>1, <1>2, <1>3, AsideGreeting

LEMMA NextGreeting == IInv /\ Greeting /\ [Next]_vars => Greeting'
BY ConnectGreeting, ReadGreeting, ReconnectGreeting, WriteGreeting, SendGreeting, OtherGreeting
   DEF Next

(* Whatever reconnects, failures and other callers do, the first frame the  *)
(* first connection carries is the HELLO of Client.Connect.                 *)
THEOREM HelloComesFirst == Spec => []FirstConnectionGreets
<1>1. Init => Greeting
  BY InitGreeting
<1>2. IInv /\ Greeting /\ [Next]_vars => Greeting'
  BY NextGreeting
<1>3. Greeting => FirstConnectionGreets
  BY DEF Greeting
<1> QED
  BY <1>1, <1>2, <1>3, InvariantHolds, PTL DEF Spec

-----------------------------------------------------------------------------
(* A connection is at hand whenever readPump loads it, and until the        *)
(* goroutine that reconnectLoop starts for it can.                          *)
ConnAtHand ==
    /\ NilConnOnlyAfterClose
    /\ ~ctxDone => /\ \A p \in Pumps : Holds(p) => conn # 0
                   /\ loop \in {"guard", "spawn"} => conn # 0

LEMMA InitConnAtHand == Init => ConnAtHand
BY DEF Init, ConnAtHand, NilConnOnlyAfterClose, Holds

LEMMA ReadConnAtHand ==
    ASSUME IInv, ConnAtHand, NEW p \in Pumps, Read(p) PROVE ConnAtHand'
<1>1. /\ pump \in [Pumps -> {"none", "start", "loop", "blocked", "callback", "exit", "signal"}]
      /\ ctxDone' = ctxDone /\ loop' = loop /\ alive
  BY DEF IInv, TypeOK, ReadType, Read, PumpLoad, PumpFrame, PumpReadFails, PumpExit, PumpSignal,
     loopVars
<1>2. loop \notin {"guard", "spawn"}
  BY DEF IInv, OneToken, Reading, Busy, Read, PumpLoad, PumpFrame, PumpReadFails, PumpExit,
     PumpSignal
<1>3. panic' = panic \/ (Holds(p) /\ conn = 0)
  BY DEF Holds, Read, PumpLoad, PumpFrame, PumpReadFails, PumpExit, PumpSignal
<1>4. NilConnOnlyAfterClose'
  BY <1>1, <1>3 DEF ConnAtHand, NilConnOnlyAfterClose
<1>5. CASE PumpExit(p)
  <2>1. \A q \in Pumps : ~Holds(q)'
    BY <1>1, <1>5 DEF PumpExit, Holds, IInv, OneToken, OneReader, Reading
  <2> QED
    BY <1>1, <1>2, <1>4, <2>1 DEF ConnAtHand
<1>6. CASE ~PumpExit(p)
  <2>1. conn' = conn /\ \A q \in Pumps : Holds(q)' => Holds(q)
    BY <1>1, <1>6 DEF Holds, Read, PumpLoad, PumpFrame, PumpReadFails, PumpSignal, connVars
  <2> QED
    BY <1>1, <1>2, <1>4, <2>1 DEF ConnAtHand
<1> QED
  BY <1>5, <1>6

LEMMA ConnectConnAtHand == IInv /\ ConnAtHand /\ Connect => ConnAtHand'
<1> SUFFICES ASSUME IInv, ConnAtHand, Connect PROVE ConnAtHand'
  OBVIOUS
<1>1. conn' # 0 /\ ctxDone' = ctxDone /\ panic' = panic
  BY NextConn DEF Connect, Publish, IInv, TypeOK
<1> QED
  BY <1>1 DEF ConnAtHand, NilConnOnlyAfterClose

LEMMA ReconnectConnAtHand == IInv /\ ConnAtHand /\ Reconnect => ConnAtHand'
<1> SUFFICES ASSUME IInv, ConnAtHand, Reconnect PROVE ConnAtHand'
  OBVIOUS
<1>1. ctxDone' = ctxDone /\ panic' = panic
  BY DEF Reconnect, LoopWake, LoopStops, DialFails, DialOk, DialGuard, Spawn, LoopRest
<1>2. NilConnOnlyAfterClose'
  BY <1>1 DEF ConnAtHand, NilConnOnlyAfterClose
<1>3. CASE LoopWake \/ LoopStops \/ DialFails
  <2>1. conn' = conn /\ pump' = pump /\ loop' \notin {"guard", "spawn"}
    BY <1>3 DEF LoopWake, LoopStops, DialFails, LoopRest, connVars
  <2> QED
    BY <1>1, <1>2, <2>1 DEF ConnAtHand, Holds
<1>4. CASE DialOk
  <2>1. conn' # 0
    BY <1>4, NextConn DEF DialOk, Publish, IInv, TypeOK
  <2> QED
    BY <1>1, <1>2, <2>1 DEF ConnAtHand
<1>5. CASE DialGuard
  <2>1. ctxDone \/ (conn' = conn /\ conn # 0)
    BY <1>5 DEF DialGuard, ConnAtHand, connVars
  <2> QED
    BY <1>1, <1>2, <2>1 DEF ConnAtHand
<1>6. CASE Spawn
  <2>1. ctxDone \/ (conn' = conn /\ conn # 0)
    BY <1>6 DEF Spawn, ConnAtHand, connVars
  <2> QED
    BY <1>1, <1>2, <2>1 DEF ConnAtHand
<1> QED
  BY <1>3, <1>4, <1>5, <1>6 DEF Reconnect

LEMMA OtherConnAtHand ==
    ASSUME ConnAtHand,
           \/ PeerDrops \/ CloseStart \/ Closing \/ UNCHANGED vars \/ Write
           \/ \E s \in Senders : Send(s)
    PROVE  ConnAtHand'
<1>1. pump' = pump /\ loop' = loop
  BY DEF PeerDrops, CloseStart, Closing, CloseFinish, ClientCancels, Write, WriterTakes,
     WriterLoads, WriterWrites, WriterStops, WriteRest, Send, EnsureConnected, NotConnected,
     Enqueue, vars, readVars, loopVars
<1>2. CASE CloseStart
  BY <1>2 DEF CloseStart, ConnAtHand, NilConnOnlyAfterClose
<1>3. CASE ~CloseStart
  <2>1. /\ conn' = conn /\ ctxDone' = ctxDone
        /\ panic' = panic \/ panic' = "send on closed channel"
    BY <1>3 DEF PeerDrops, Closing, CloseFinish, ClientCancels, Write, WriterTakes,
       WriterLoads, WriterWrites, WriterStops, WriteRest, Send, EnsureConnected, NotConnected,
       Enqueue, vars, connVars
  <2> QED
    BY <1>1, <2>1 DEF ConnAtHand, NilConnOnlyAfterClose, Holds
<1> QED
  BY <1>2, <1>3

LEMMA NextConnAtHand == IInv /\ ConnAtHand /\ [Next]_vars => ConnAtHand'
BY ConnectConnAtHand, ReadConnAtHand, ReconnectConnAtHand, OtherConnAtHand DEF Next

(* Although readPump reads w.conn without the lock, no drop, reconnect or   *)
(* second reader makes it nil under it: only Close can.                     *)
THEOREM ReaderFindsConn == Spec => []NilConnOnlyAfterClose
<1>1. Init => ConnAtHand
  BY InitConnAtHand
<1>2. IInv /\ ConnAtHand /\ [Next]_vars => ConnAtHand'
  BY NextConnAtHand
<1>3. ConnAtHand => NilConnOnlyAfterClose
  BY DEF ConnAtHand
<1> QED
  BY <1>1, <1>2, <1>3, InvariantHolds, PTL DEF Spec

-----------------------------------------------------------------------------
(* The transport implements TransportLink. *)

Held == up \cup ({conn} \ {0})
InCallback == \E p \in Pumps : pump[p] = "callback"
Shut == closing \in {"closed", "cancelled"}

LEMMA HeldOf ==
    ASSUME NEW u, NEW c, u \subseteq 1..MaxConns, u \subseteq {c}
    PROVE  u \cup ({c} \ {0}) = IF c = 0 THEN {} ELSE {c}
<1>1. 0 \notin 1..MaxConns
  BY ParamAssumption
<1> QED
  BY <1>1

LEMMA HeldIsConn == ASSUME IInv PROVE Held = IF conn = 0 THEN {} ELSE {conn}
BY HeldOf DEF Held, IInv, TypeOK, ConnType, NoOrphanConn

LEMMA HeldIsConnNext == ASSUME IInv' PROVE Held' = IF conn' = 0 THEN {} ELSE {conn'}
BY HeldOf DEF Held, IInv, TypeOK, ConnType, NoOrphanConn

LEMMA LinkStutters ==
    ASSUME IInv, IInv', dials' = dials, conn' = conn, InCallback' <=> InCallback,
           Shut' <=> Shut
    PROVE  UNCHANGED Link!vars
<1>1. Held' = Held
  BY HeldIsConn, HeldIsConnNext
<1> QED
  BY <1>1 DEF Held, InCallback, Shut, Link!vars

LEMMA LinkLoses ==
    ASSUME IInv, IInv', dials' = dials, conn' = 0, InCallback' <=> InCallback, Shut' <=> Shut
    PROVE  [Link!Next]_(Link!vars)
<1>1. Held' = {}
  BY HeldIsConnNext
<1>2. CASE Held = {}
  BY <1>1, <1>2 DEF Held, InCallback, Shut, Link!vars
<1>3. CASE Held # {}
  BY <1>1, <1>3 DEF Held, InCallback, Shut, Link!Lose, Link!Next
<1> QED
  BY <1>2, <1>3

LEMMA LinkOpens ==
    ASSUME IInv, IInv', Publish, conn = 0, ~InCallback, ~InCallback', ~Shut, ~Shut'
    PROVE  Link!Open
<1>1. Held = {} /\ Held' = {dials'} /\ dials' = dials + 1
  BY HeldIsConn, HeldIsConnNext, NextConn DEF Publish, IInv, TypeOK
<1> QED
  BY <1>1 DEF Held, InCallback, Shut, Link!Open

LEMMA ReadLink ==
    ASSUME IInv, IInv', NEW p \in Pumps, Read(p) PROVE [Link!Next]_(Link!vars)
<1>1. /\ pump \in [Pumps -> {"none", "start", "loop", "blocked", "callback", "exit", "signal"}]
      /\ dials' = dials /\ (Shut' <=> Shut)
  BY DEF IInv, TypeOK, ReadType, Shut, Read, PumpLoad, PumpFrame, PumpReadFails, PumpExit,
     PumpSignal, DropConn, connVars
<1>2. \A q \in Pumps : q # p => pump[q] = "none"
  BY DEF IInv, OneToken, OneReader, Reading, Read, PumpLoad, PumpFrame, PumpReadFails, PumpExit,
     PumpSignal
<1>3. CASE PumpFrame(p)
  <2>1. conn' = conn /\ up' = up
    BY <1>3 DEF PumpFrame, connVars
  <2>2. CASE pump[p] = "blocked" /\ pump' = [pump EXCEPT ![p] = "callback"]
    <3>1. ~InCallback /\ InCallback'
      BY <1>1, <1>2, <2>2 DEF InCallback
    <3>2. Held' = Held
      BY <2>1 DEF Held
    <3>3. ~Shut /\ dials > 0
      BY <2>2 DEF Shut, IInv, TypeOK, ConnType, Shutdown, Stopped, Unstarted
    <3>4. Link!Hand
      BY <1>1, <3>1, <3>2, <3>3 DEF Link!Hand, Held, InCallback, Shut
    <3> QED
      BY <3>4 DEF Link!Next
  <2>3. CASE pump[p] = "callback" /\ pump' = [pump EXCEPT ![p] = "loop"]
    <3>1. InCallback /\ ~InCallback'
      BY <1>1, <1>2, <2>3 DEF InCallback
    <3>2. Held' = Held
      BY <2>1 DEF Held
    <3>3. Link!Handled
      BY <1>1, <3>1, <3>2 DEF Link!Handled, Held, InCallback, Shut
    <3> QED
      BY <3>3 DEF Link!Next
  <2> QED
    BY <1>3, <2>2, <2>3 DEF PumpFrame
<1>4. CASE ~PumpFrame(p)
  <2>1. InCallback' <=> InCallback
    BY <1>1, <1>4 DEF InCallback, Read, PumpLoad, PumpReadFails, PumpExit, PumpSignal
  <2>2. conn' = conn \/ conn' = 0
    BY <1>4 DEF Read, PumpLoad, PumpReadFails, PumpExit, PumpSignal, DropConn, connVars
  <2> QED
    BY <1>1, <2>1, <2>2, LinkStutters, LinkLoses
<1> QED
  BY <1>3, <1>4

LEMMA ReconnectLink == ASSUME IInv, IInv', Reconnect PROVE [Link!Next]_(Link!vars)
<1>1. pump \in [Pumps -> {"none", "start", "loop", "blocked", "callback", "exit", "signal"}]
  BY DEF IInv, TypeOK, ReadType
<1>2. Shut' <=> Shut
  BY DEF Shut, Reconnect, LoopWake, LoopStops, DialFails, DialOk, DialGuard, Spawn, LoopRest
<1>3. InCallback' <=> InCallback
  BY <1>1 DEF InCallback, Reconnect, LoopWake, LoopStops, DialFails, DialOk, DialGuard, Spawn,
     LoopRest
<1>4. CASE DialOk
  <2>1. \A p \in Pumps : pump[p] = "none"
    BY <1>4 DEF DialOk, IInv, OneToken, Busy, Reading
  <2>2. conn = 0
    BY <1>4, <2>1 DEF DialOk, IInv, ConnHeld, Holds
  <2>3. ~InCallback
    BY <2>1 DEF InCallback
  <2>4. ~Shut
    BY <1>4 DEF DialOk, Shut, IInv, Shutdown, Stopped
  <2>5. Link!Open
    BY <1>2, <1>3, <1>4, <2>2, <2>3, <2>4, LinkOpens DEF DialOk
  <2> QED
    BY <2>5 DEF Link!Next
<1>5. CASE ~DialOk
  <2>1. dials' = dials /\ (conn' = conn \/ conn' = 0)
    BY <1>5 DEF Reconnect, LoopWake, LoopStops, DialFails, DialGuard, Spawn, DropConn, connVars
  <2> QED
    BY <1>2, <1>3, <2>1, LinkStutters, LinkLoses
<1> QED
  BY <1>4, <1>5

LEMMA ConnectLink == ASSUME IInv, IInv', Connect PROVE Link!Open
<1>1. /\ conn = 0 /\ ~Shut /\ ~Shut' /\ Publish
      /\ \A p \in Pumps : pump[p] = "none"
      /\ \E p \in Pumps : pump' = [pump EXCEPT ![p] = "start"]
  BY DEF Connect, IInv, Unstarted, Shut
<1>2. ~InCallback /\ ~InCallback'
  BY <1>1 DEF InCallback, IInv, TypeOK, ReadType
<1> QED
  BY <1>1, <1>2, LinkOpens

LEMMA OtherLink ==
    ASSUME IInv, IInv',
           \/ PeerDrops \/ CloseStart \/ ClientCancels \/ UNCHANGED vars \/ Write
           \/ \E s \in Senders : Send(s)
    PROVE  [Link!Next]_(Link!vars)
<1>1. pump' = pump /\ dials' = dials
  BY DEF PeerDrops, CloseStart, ClientCancels, DropConn, Write, WriterTakes, WriterLoads,
     WriterWrites, WriterStops, WriteRest, Send, EnsureConnected, NotConnected, Enqueue, vars,
     readVars, connVars
<1>2. InCallback' <=> InCallback
  BY <1>1 DEF InCallback
<1>3. conn' = conn \/ conn' = 0
  BY DEF PeerDrops, CloseStart, ClientCancels, DropConn, Write, WriterTakes, WriterLoads,
     WriterWrites, WriterStops, WriteRest, Send, EnsureConnected, NotConnected, Enqueue, vars,
     connVars
<1>4. Shut' <=> Shut
  BY DEF Shut, PeerDrops, CloseStart, ClientCancels, Write, WriterTakes, WriterLoads,
     WriterWrites, WriterStops, WriteRest, Send, EnsureConnected, NotConnected, Enqueue, vars
<1> QED
  BY <1>1, <1>2, <1>3, <1>4, LinkStutters, LinkLoses

LEMMA CloseLink == ASSUME IInv, IInv', CloseFinish PROVE Link!Shut
<1>1. \A p \in Pumps : pump[p] = "none"
  BY DEF CloseFinish, Stopped
<1>2. conn = 0
  BY <1>1 DEF CloseFinish, Stopped, IInv, ConnHeld, Holds
<1>3. ~Shut /\ Shut' /\ dials' = dials /\ conn' = conn /\ pump' = pump
  BY DEF CloseFinish, Shut, connVars, readVars
<1>4. ~InCallback /\ ~InCallback'
  BY <1>1, <1>3 DEF InCallback
<1>5. Held = {} /\ Held' = {}
  BY <1>2, <1>3, HeldIsConn, HeldIsConnNext
<1> QED
  BY <1>3, <1>4, <1>5 DEF Link!Shut, Held, InCallback, Shut

LEMMA NextLink == ASSUME IInv, IInv', [Next]_vars PROVE [Link!Next]_(Link!vars)
<1>1. CASE Connect
  BY <1>1, ConnectLink DEF Link!Next
<1>2. CASE \E p \in Pumps : Read(p)
  BY <1>2, ReadLink
<1>3. CASE Reconnect
  BY <1>3, ReconnectLink
<1>4. CASE CloseFinish
  BY <1>4, CloseLink DEF Link!Next
<1>5. CASE \/ PeerDrops \/ CloseStart \/ ClientCancels \/ UNCHANGED vars \/ Write
           \/ \E s \in Senders : Send(s)
  BY <1>5, OtherLink
<1> QED
  BY <1>1, <1>2, <1>3, <1>4, <1>5 DEF Next, Closing

(* Dropped connections, reconnects, slow handlers and Close together keep   *)
(* the promise of TransportLink: one connection after the other, never a    *)
(* frame of one while the client still handles one of the last, and nothing *)
(* at all once Close has returned.                                          *)
THEOREM KeepsLinkPromise == Spec => ImplementsLink
<1>1. Init => Link!Init
  BY DEF Init, Link!Init
<1>2. IInv /\ IInv' /\ [Next]_vars => [Link!Next]_(Link!vars)
  BY NextLink
<1> QED
  BY <1>1, <1>2, InvariantHolds, PTL DEF Spec, ImplementsLink, Link!Spec
=============================================================================
