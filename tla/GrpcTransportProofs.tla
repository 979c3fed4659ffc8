------------------------ MODULE GrpcTransportProofs ------------------------
(***************************************************************************)
(* Proofs about GrpcTransport, for any number of goroutines, streams,      *)
(* calls and frames.                                                       *)
(***************************************************************************)
EXTENDS GrpcTransport, TLAPS

(* Goroutine p receives, or has seen its stream fail and not dropped it. *)
Attending(p) == gloop[p] \in Reading \cup {"failed"}

(* There is one such goroutine at most, and until Close it has a stream. *)
OneAttends ==
    /\ \A p, q \in GLoops : Attending(p) /\ Attending(q) => p = q
    /\ \A p \in GLoops : Attending(p) /\ ~gctxDone => gstream # 0

(* The stream is that of the connection. *)
StreamOfConn == gstream # 0 => gstream = gconn

(* Whoever sends a heartbeat is a heartbeat goroutine. *)
BeatSends == gsend = "beat" => gbeats > 0

GrpcIInv ==
    /\ GrpcTypeOK /\ OneAttends /\ StreamOfConn /\ BeatSends
    /\ NoLeakedStream /\ GrpcAttended /\ KeptAlive

(* The invariant holds initially. *)
LEMMA GrpcInitIInv == GrpcInit => GrpcIInv
<1> SUFFICES ASSUME GrpcInit PROVE GrpcIInv
  OBVIOUS
<1>1. GrpcTypeOK
  <2>1. 0 \in 0..GMaxConns /\ 0 \in 0..GMaxCalls /\ 1 \in 1..GMaxBackoff /\ 0 \in 0..(0 + 1)
    BY GrpcAssumption
  <2>2. gloop \in [GLoops -> {"none"} \cup Reading \cup Reconnecting]
    BY DEF GrpcInit
  <2>3. gon \in [GLoops -> 0..gopened] /\ gconn \in 0..(gopened + 1) /\ gstream \in 0..gopened
    BY DEF GrpcInit
  <2>4. gopened \in 0..GMaxConns /\ gcalls \in 0..GMaxCalls /\ gbackoff \in 1..GMaxBackoff
    BY <2>1 DEF GrpcInit
  <2>5. glive \subseteq gopen /\ gopen \subseteq 1..gopened
    BY DEF GrpcInit
  <2> QED
    BY <2>2, <2>3, <2>4, <2>5 DEF GrpcInit, GrpcTypeOK
<1>2. OneAttends /\ StreamOfConn /\ BeatSends
  BY DEF GrpcInit, OneAttends, Attending, Reading, StreamOfConn, BeatSends
<1>3. NoLeakedStream /\ GrpcAttended /\ KeptAlive
  BY DEF GrpcInit, NoLeakedStream, GrpcAttended, KeptAlive
<1> QED
  BY <1>1, <1>2, <1>3 DEF GrpcIInv

(* A stream opened for goroutine p. *)
LEMMA GrpcOpenIInv ==
    ASSUME GrpcIInv, GrpcOpen, NEW p \in GLoops,
           gloop[p] \in {"none", "dial"}, gloop' = [gloop EXCEPT ![p] = "load"],
           gcalls' \in 0..GMaxCalls, gbackoff' \in 1..GMaxBackoff,
           UNCHANGED <<gon, gSendVars, gctxDone, gpanic>>
    PROVE  GrpcIInv'
<1>1. GrpcTypeOK
  BY DEF GrpcIInv
<1>2. /\ gopened' = gopened + 1 /\ gopened' \in 1..GMaxConns
      /\ gconn' = gopened' /\ gstream' = gopened'
      /\ gopen' = gopen \cup {gopened'} /\ glive' = glive \cup {gopened'}
      /\ gbeats' = gbeats + 1 /\ ~gctxDone /\ ~gctxDone'
  BY <1>1, GrpcAssumption DEF GrpcOpen, GrpcTypeOK
<1>3. gconn = 0 /\ gstream = 0 /\ gopen = {}
  BY DEF GrpcOpen, GrpcIInv, StreamOfConn, NoLeakedStream
<1>4. \A q \in GLoops : ~Attending(q)
  BY <1>2, <1>3 DEF GrpcIInv, OneAttends
<1>5. GrpcTypeOK'
  <2>1. gloop' \in [GLoops -> {"none"} \cup Reading \cup Reconnecting]
    BY <1>1 DEF GrpcTypeOK, Reading
  <2>2. gon' \in [GLoops -> 0..gopened'] /\ gopened \in Nat
    BY <1>1, <1>2, GrpcAssumption DEF GrpcTypeOK
  <2>3. gopen' \subseteq 1..gopened' /\ glive' \subseteq gopen'
    BY <1>1, <1>2, <2>2 DEF GrpcTypeOK
  <2> QED
    BY <1>1, <1>2, <2>1, <2>2, <2>3 DEF GrpcTypeOK, gSendVars
<1>6. \A q \in GLoops : gloop'[q] = IF q = p THEN "load" ELSE gloop[q]
  BY <1>1 DEF GrpcTypeOK
<1>7. OneAttends'
  BY <1>2, <1>4, <1>6 DEF OneAttends, Attending
<1>8. (StreamOfConn /\ BeatSends /\ KeptAlive)'
  BY <1>1, <1>2 DEF StreamOfConn, BeatSends, KeptAlive, GrpcTypeOK, GrpcIInv, gSendVars
<1>9. NoLeakedStream'
  BY <1>2, <1>3 DEF NoLeakedStream
<1>10. GrpcAttended'
  BY <1>2, <1>6 DEF GrpcAttended, Reading
<1> QED
  BY <1>5, <1>7, <1>8, <1>9, <1>10 DEF GrpcIInv

(* A stream that could not be opened, while at most goroutine p changes,   *)
(* from "dial" to "backoff".                                               *)
LEMMA GrpcOpenFailsIInv ==
    ASSUME GrpcIInv, GrpcOpenFails,
           \/ UNCHANGED gloop
           \/ \E p \in GLoops : gloop[p] = "dial" /\ gloop' = [gloop EXCEPT ![p] = "backoff"],
           gcalls' \in 0..GMaxCalls, gbackoff' \in 1..GMaxBackoff,
           UNCHANGED <<gon, gSendVars, gctxDone, gpanic>>
    PROVE  GrpcIInv'
<1>1. GrpcTypeOK
  BY DEF GrpcIInv
<1>2. /\ gconn = 0 /\ gconn' = gopened + 1 /\ gstream' = gstream /\ gopened' = gopened
      /\ gopen' = gopen /\ glive' = glive /\ gbeats' = gbeats
      /\ gsend' = gsend /\ gsends' = gsends /\ gctxDone' = gctxDone
  BY DEF GrpcOpenFails, gSendVars
<1>3. gstream = 0 /\ gopen = {} /\ gopened \in Nat
  BY <1>1, <1>2, GrpcAssumption DEF GrpcIInv, StreamOfConn, NoLeakedStream, GrpcTypeOK
<1>4. gloop' \in [GLoops -> {"none"} \cup Reading \cup Reconnecting]
  BY <1>1 DEF GrpcTypeOK, Reconnecting
<1>5. GrpcTypeOK'
  BY <1>1, <1>2, <1>3, <1>4 DEF GrpcTypeOK
<1>6. \A q \in GLoops : Attending(q)' => Attending(q)
  BY <1>1 DEF Attending, GrpcTypeOK, Reading
<1>7. OneAttends'
  BY <1>2, <1>6 DEF GrpcIInv, OneAttends
<1>8. (StreamOfConn /\ BeatSends /\ NoLeakedStream)'
  BY <1>2, <1>3 DEF StreamOfConn, BeatSends, NoLeakedStream, GrpcIInv
<1>9. (GrpcAttended /\ KeptAlive)'
  BY <1>2, <1>3 DEF GrpcAttended, Wedged, KeptAlive, GrpcIInv
<1> QED
  BY <1>5, <1>7, <1>8, <1>9 DEF GrpcIInv

LEMMA GrpcAppConnectIInv == GrpcIInv /\ GrpcAppConnect => GrpcIInv'
<1> SUFFICES ASSUME GrpcIInv, GrpcAppConnect PROVE GrpcIInv'
  OBVIOUS
<1>1. gcalls' \in 0..GMaxCalls /\ gbackoff' \in 1..GMaxBackoff
  BY GrpcAssumption DEF GrpcIInv, GrpcTypeOK, GrpcAppConnect
<1>2. UNCHANGED <<gon, gSendVars, gctxDone, gpanic>>
  BY DEF GrpcAppConnect
<1>3. CASE GrpcOpen
  <2>1. gconn = 0 /\ gconn' # 0
    BY <1>3, GrpcAssumption DEF GrpcOpen, GrpcIInv, GrpcTypeOK
  <2>2. ~GrpcConnected
    BY <2>1 DEF GrpcConnected
  <2>3. CASE \E p \in GLoops : gloop[p] = "none" /\ gloop' = [gloop EXCEPT ![p] = "load"]
    BY <1>1, <1>2, <1>3, <2>3, GrpcOpenIInv
  <2>4. CASE GrpcOpenFails /\ UNCHANGED gloop
    BY <1>1, <1>2, <2>4, GrpcOpenFailsIInv
  <2> QED
    BY <2>2, <2>3, <2>4 DEF GrpcAppConnect
<1>4. CASE GrpcOpenFails /\ UNCHANGED gloop
  BY <1>1, <1>2, <1>4, GrpcOpenFailsIInv
<1>5. CASE GrpcConnected /\ UNCHANGED gloop
  BY <1>1, <1>2, <1>5 DEF GrpcConnected, gConnVars, gSendVars, GrpcIInv, GrpcTypeOK, OneAttends,
     Attending, StreamOfConn, BeatSends, NoLeakedStream, GrpcAttended, Wedged, KeptAlive
<1> QED
  BY <1>3, <1>4, <1>5 DEF GrpcAppConnect

LEMMA GrpcPeerBreaksIInv == GrpcIInv /\ GrpcPeerBreaks => GrpcIInv'
<1> SUFFICES ASSUME GrpcIInv, GrpcPeerBreaks PROVE GrpcIInv'
  OBVIOUS
<1>1. /\ glive' \subseteq glive
      /\ UNCHANGED <<gconn, gstream, gopened, gopen, gcalls, gLoopVars, gbeats, gSendVars,
                     gbackoff, gctxDone, gpanic>>
  BY DEF GrpcPeerBreaks
<1> QED
  BY <1>1 DEF gLoopVars, gSendVars, GrpcIInv, GrpcTypeOK, OneAttends,
     Attending, StreamOfConn, BeatSends, NoLeakedStream, GrpcAttended, Wedged, KeptAlive

(* The steps of a goroutine that only concern itself. *)
LEMMA GrpcLocalIInv ==
    ASSUME GrpcIInv, NEW p \in GLoops,
           \/ GrpcLoad(p) \/ GrpcFrame(p) \/ GrpcRecvFails(p)
           \/ GrpcBackoffEnds(p) \/ GrpcBackoffStops(p)
    PROVE  GrpcIInv'
<1>1. GrpcTypeOK
  BY DEF GrpcIInv
<1>2. /\ UNCHANGED <<gConnVars, gcalls, gbeats, gSendVars, gbackoff, gctxDone>>
      /\ \/ UNCHANGED gloop
         \/ gloop[p] \in Reading /\ gloop' = [gloop EXCEPT ![p] = "load"]
         \/ gloop[p] \in Reading /\ gloop' = [gloop EXCEPT ![p] = "recv"]
         \/ gloop[p] \in Reading /\ gloop' = [gloop EXCEPT ![p] = "callback"]
         \/ gloop[p] \in Reading /\ gloop' = [gloop EXCEPT ![p] = "failed"]
         \/ gloop[p] = "backoff" /\ gloop' = [gloop EXCEPT ![p] = "dial"]
         \/ gctxDone /\ gloop[p] = "backoff" /\ gloop' = [gloop EXCEPT ![p] = "none"]
      /\ gpanic' \in {gpanic, TRUE}
      /\ gon' \in {gon, [gon EXCEPT ![p] = gstream]}
  BY DEF GrpcLoad, GrpcFrame, GrpcRecvFails, GrpcBackoffEnds, GrpcBackoffStops, Reading,
     gLoopVars
<1>3. gloop' \in [GLoops -> {"none"} \cup Reading \cup Reconnecting]
  BY <1>1, <1>2 DEF GrpcTypeOK, Reading, Reconnecting
<1>4. GrpcTypeOK'
  <2>1. gon' \in [GLoops -> 0..gopened']
    BY <1>1, <1>2 DEF GrpcTypeOK, gConnVars
  <2> QED
    BY <1>1, <1>2, <1>3, <2>1 DEF GrpcTypeOK, gConnVars, gSendVars
<1>5. \A q \in GLoops : Attending(q)' <=> Attending(q)
  BY <1>1, <1>2 DEF GrpcTypeOK, Attending, Reading
<1>6. OneAttends'
  BY <1>2, <1>5 DEF GrpcIInv, OneAttends, gConnVars
<1>7. (StreamOfConn /\ BeatSends /\ NoLeakedStream /\ KeptAlive)'
  BY <1>2 DEF GrpcIInv, StreamOfConn, BeatSends, NoLeakedStream, KeptAlive, gConnVars, gSendVars
<1>8. GrpcAttended'
  <2>1. \A q \in GLoops : ~gctxDone /\ gloop[q] \in {"backoff", "dial"}
                             => gloop'[q] \in {"backoff", "dial"}
    BY <1>1, <1>2 DEF GrpcTypeOK, Reading
  <2> QED
    BY <1>2, <1>5, <2>1 DEF GrpcIInv, GrpcAttended, Wedged, Attending, gConnVars
<1> QED
  BY <1>4, <1>6, <1>7, <1>8 DEF GrpcIInv

LEMMA GrpcDropIInv == ASSUME GrpcIInv, NEW p \in GLoops, GrpcDrop(p) PROVE GrpcIInv'
<1>1. GrpcTypeOK
  BY DEF GrpcIInv
<1>2. /\ gconn' = 0 /\ gstream' = 0 /\ gopen' = {} /\ glive' = {}
      /\ UNCHANGED <<gopened, gcalls, gon, gbeats, gsend, gsends, gbackoff, gctxDone, gpanic>>
  BY <1>1 DEF GrpcDrop, GrpcIInv, NoLeakedStream, GrpcTypeOK, gSendVars
<1>3. \A q \in GLoops : gloop'[q] = IF q = p THEN "backoff" ELSE gloop[q]
  BY <1>1 DEF GrpcDrop, GrpcTypeOK
<1>4. GrpcTypeOK'
  <2>1. gloop' \in [GLoops -> {"none"} \cup Reading \cup Reconnecting]
    BY <1>1 DEF GrpcDrop, GrpcTypeOK, Reconnecting
  <2>2. 0 \in 0..(gopened + 1) /\ 0 \in 0..gopened
    BY <1>1, GrpcAssumption DEF GrpcTypeOK
  <2> QED
    BY <1>1, <1>2, <2>1, <2>2 DEF GrpcTypeOK
<1>5. \A q \in GLoops : ~Attending(q)'
  BY <1>3 DEF GrpcIInv, OneAttends, GrpcDrop, Attending, Reading
<1>6. OneAttends'
  BY <1>5 DEF OneAttends
<1>7. (StreamOfConn /\ BeatSends /\ NoLeakedStream /\ KeptAlive)'
  BY <1>2 DEF GrpcIInv, StreamOfConn, BeatSends, NoLeakedStream, KeptAlive
<1>8. GrpcAttended'
  BY <1>2, <1>3 DEF GrpcAttended
<1> QED
  BY <1>4, <1>6, <1>7, <1>8 DEF GrpcIInv

(* The attempts of reconnect. *)
LEMMA GrpcRetryIInv ==
    ASSUME GrpcIInv, NEW p \in GLoops,
           GrpcRetryOpens(p) \/ GrpcRetryFindsConn(p) \/ GrpcRetryFails(p)
    PROVE  GrpcIInv'
<1>1. GrpcTypeOK
  BY DEF GrpcIInv
<1>2. 1 \in 1..GMaxBackoff
  BY GrpcAssumption
<1>3. CASE GrpcRetryOpens(p)
  <2>1. GrpcOpen /\ gloop[p] = "dial" /\ gloop' = [gloop EXCEPT ![p] = "load"]
    BY <1>3 DEF GrpcRetryOpens
  <2>2. gcalls' \in 0..GMaxCalls /\ gbackoff' \in 1..GMaxBackoff
        /\ UNCHANGED <<gon, gSendVars, gctxDone, gpanic>>
    BY <1>1, <1>2, <1>3 DEF GrpcRetryOpens, GrpcTypeOK
  <2> QED
    BY <2>1, <2>2, GrpcOpenIInv
<1>4. CASE GrpcRetryFails(p)
  <2>1. gbackoff' \in 1..GMaxBackoff
    BY <1>1, <1>4, GrpcAssumption DEF GrpcRetryFails, GrpcTypeOK
  <2>2. /\ gcalls' \in 0..GMaxCalls /\ UNCHANGED <<gcalls, gon, gSendVars, gctxDone, gpanic>>
        /\ gloop[p] = "dial" /\ gloop' = [gloop EXCEPT ![p] = "backoff"]
    BY <1>1, <1>4 DEF GrpcRetryFails, GrpcTypeOK
  <2>3. CASE GrpcOpenFails
    BY <2>1, <2>2, <2>3, GrpcOpenFailsIInv
  <2>4. CASE UNCHANGED <<gConnVars, gbeats>>
    <3>1. \A q \in GLoops : gloop'[q] = IF q = p THEN "backoff" ELSE gloop[q]
      BY <1>1, <2>2 DEF GrpcTypeOK
    <3>2. GrpcTypeOK'
      BY <1>1, <2>1, <2>2, <2>4 DEF GrpcTypeOK, Reconnecting, gConnVars, gSendVars
    <3>3. OneAttends'
      BY <2>2, <2>4, <3>1 DEF GrpcIInv, OneAttends, Attending, Reading, gConnVars
    <3>4. (StreamOfConn /\ BeatSends /\ NoLeakedStream /\ KeptAlive)'
      BY <2>2, <2>4 DEF GrpcIInv, StreamOfConn, BeatSends, NoLeakedStream, KeptAlive,
         gConnVars, gSendVars
    <3>5. GrpcAttended'
      BY <2>2, <2>4, <3>1 DEF GrpcIInv, GrpcAttended, Wedged, Reading, gConnVars
    <3> QED
      BY <3>2, <3>3, <3>4, <3>5 DEF GrpcIInv
  <2> QED
    BY <1>4, <2>3, <2>4 DEF GrpcRetryFails
<1>5. CASE GrpcRetryFindsConn(p)
  <2>1. /\ gconn # 0 /\ gloop[p] = "dial" /\ gloop' = [gloop EXCEPT ![p] = "none"]
        /\ gbackoff' = 1
        /\ UNCHANGED <<gConnVars, gbeats, gcalls, gon, gSendVars, gctxDone, gpanic>>
    BY <1>5 DEF GrpcRetryFindsConn, GrpcConnected
  <2>2. \A q \in GLoops : gloop'[q] = IF q = p THEN "none" ELSE gloop[q]
    BY <1>1, <2>1 DEF GrpcTypeOK
  <2>3. GrpcTypeOK'
    BY <1>1, <1>2, <2>1 DEF GrpcTypeOK, gConnVars, gSendVars
  <2>4. OneAttends'
    BY <2>1, <2>2 DEF GrpcIInv, OneAttends, Attending, Reading, gConnVars
  <2>5. (StreamOfConn /\ BeatSends /\ NoLeakedStream /\ KeptAlive)'
    BY <2>1 DEF GrpcIInv, StreamOfConn, BeatSends, NoLeakedStream, KeptAlive,
       gConnVars, gSendVars
  <2>6. GrpcAttended'
    BY <2>1, <2>2 DEF GrpcIInv, GrpcAttended, Wedged, Reading, gConnVars
  <2> QED
    BY <2>3, <2>4, <2>5, <2>6 DEF GrpcIInv
<1> QED
  BY <1>3, <1>4, <1>5

(* The steps of senders and heartbeats. *)
LEMMA GrpcSendIInv ==
    ASSUME GrpcIInv,
           \/ \E who \in {"client", "beat"} : GrpcSend(who)
           \/ GrpcSendEnds \/ GrpcBeatStops
    PROVE  GrpcIInv'
<1>1. GrpcTypeOK
  BY DEF GrpcIInv
<1>2. UNCHANGED <<gConnVars, gcalls, gLoopVars, gbackoff, gctxDone, gpanic>>
  BY DEF GrpcSend, GrpcSendEnds, GrpcBeatStops
<1>3. gbeats' \in Nat /\ gsend' \in {"no", "client", "beat"} /\ gsends' \in Nat
  BY <1>1 DEF GrpcIInv, GrpcTypeOK, BeatSends, GrpcSend, GrpcSendEnds, GrpcBeatStops, gSendVars
<1>4. BeatSends'
  BY <1>1 DEF GrpcIInv, GrpcTypeOK, BeatSends, GrpcSend, GrpcSendEnds, GrpcBeatStops, gSendVars,
     Unlocked
<1>5. KeptAlive'
  <2>1. gbeats' = gbeats \/ gstream \notin glive \/ gctxDone
    <3>1. 0 \notin glive
      BY <1>1 DEF GrpcTypeOK
    <3> QED
      BY <1>1, <3>1 DEF GrpcIInv, StreamOfConn, GrpcSend, GrpcSendEnds, GrpcBeatStops
  <2> QED
    BY <1>2, <2>1 DEF GrpcIInv, KeptAlive, gConnVars
<1>6. GrpcTypeOK'
  BY <1>1, <1>2, <1>3 DEF GrpcTypeOK, gConnVars, gLoopVars
<1>7. (OneAttends /\ StreamOfConn /\ NoLeakedStream /\ GrpcAttended)'
  BY <1>2 DEF GrpcIInv, OneAttends, Attending, StreamOfConn, NoLeakedStream, GrpcAttended,
     Wedged, gConnVars, gLoopVars
<1> QED
  BY <1>4, <1>5, <1>6, <1>7 DEF GrpcIInv

LEMMA GrpcCloseIInv == GrpcIInv /\ GrpcClose => GrpcIInv'
<1> SUFFICES ASSUME GrpcIInv, GrpcClose PROVE GrpcIInv'
  OBVIOUS
<1>1. GrpcTypeOK
  BY DEF GrpcIInv
<1>2. /\ gconn' = 0 /\ gstream' = 0 /\ gopen' = {} /\ glive' = {} /\ gctxDone' = TRUE
      /\ UNCHANGED <<gopened, gcalls, gloop, gon, gbeats, gsend, gsends, gbackoff, gpanic>>
  BY <1>1 DEF GrpcClose, GrpcIInv, NoLeakedStream, GrpcTypeOK, gSendVars, gLoopVars
<1>3. GrpcTypeOK'
  <2>1. 0 \in 0..(gopened + 1) /\ 0 \in 0..gopened
    BY <1>1, GrpcAssumption DEF GrpcTypeOK
  <2> QED
    BY <1>1, <1>2, <2>1 DEF GrpcTypeOK
<1>4. (OneAttends /\ StreamOfConn /\ BeatSends)'
  BY <1>2 DEF GrpcIInv, OneAttends, Attending, StreamOfConn, BeatSends
<1>5. (NoLeakedStream /\ GrpcAttended /\ KeptAlive)'
  BY <1>2 DEF NoLeakedStream, GrpcAttended, KeptAlive
<1> QED
  BY <1>3, <1>4, <1>5 DEF GrpcIInv

LEMMA GrpcNextIInv == GrpcIInv /\ [GrpcNext]_grpcVars => GrpcIInv'
<1> SUFFICES ASSUME GrpcIInv, [GrpcNext]_grpcVars PROVE GrpcIInv'
  OBVIOUS
<1>1. ASSUME NEW p \in GLoops, GrpcLoop(p) PROVE GrpcIInv'
  BY <1>1, GrpcLocalIInv, GrpcDropIInv, GrpcRetryIInv DEF GrpcLoop
<1>2. CASE UNCHANGED grpcVars
  BY <1>2 DEF grpcVars, gConnVars, gLoopVars, gSendVars, GrpcIInv, GrpcTypeOK, OneAttends,
     Attending, StreamOfConn, BeatSends, NoLeakedStream, GrpcAttended, Wedged, KeptAlive
<1> QED
  BY <1>1, <1>2, GrpcAppConnectIInv, GrpcPeerBreaksIInv, GrpcSendIInv, GrpcCloseIInv
     DEF GrpcNext

(* What the invariant says of the receivers. *)
LEMMA GrpcOneReceiver == GrpcIInv => OneReceiver
  BY DEF GrpcIInv, OneAttends, Attending, OneReceiver

-----------------------------------------------------------------------------
(* recvLoop finds a stream to load until Close: a goroutine that receives    *)
(* has one.                                                                  *)
LEMMA GrpcInitNil == GrpcInit => NilStreamOnlyAfterClose
BY DEF GrpcInit, NilStreamOnlyAfterClose

LEMMA GrpcNextNil ==
    GrpcIInv /\ NilStreamOnlyAfterClose /\ [GrpcNext]_grpcVars => NilStreamOnlyAfterClose'
<1> SUFFICES ASSUME GrpcIInv, NilStreamOnlyAfterClose, [GrpcNext]_grpcVars
             PROVE  NilStreamOnlyAfterClose'
  OBVIOUS
<1>1. ASSUME NEW p \in GLoops, GrpcLoad(p) PROVE NilStreamOnlyAfterClose'
  <2>1. Attending(p) /\ (gpanic' => gstream = 0) /\ gctxDone' = gctxDone
    BY <1>1 DEF GrpcLoad, Attending, Reading
  <2> QED
    BY <2>1 DEF GrpcIInv, OneAttends, NilStreamOnlyAfterClose
<1>2. ASSUME \A p \in GLoops : ~GrpcLoad(p)
      PROVE  gpanic' = gpanic /\ (gctxDone' = gctxDone \/ gctxDone')
  BY <1>2 DEF grpcVars, GrpcNext, GrpcLoop, GrpcAppConnect, GrpcPeerBreaks, GrpcSendEnds,
     GrpcBeatStops, GrpcClose, GrpcSend, GrpcFrame, GrpcRecvFails, GrpcDrop, GrpcBackoffEnds,
     GrpcBackoffStops, GrpcRetryOpens, GrpcRetryFindsConn, GrpcRetryFails
<1> QED
  BY <1>1, <1>2 DEF NilStreamOnlyAfterClose

-----------------------------------------------------------------------------
(* The transport implements TransportLink. *)

GrpcInCallback == \E p \in GLoops : gloop[p] = "callback"

LEMMA GrpcLinkInit == GrpcInit => GrpcLink!Init
BY DEF GrpcInit, GrpcLink!Init

LEMMA GrpcLinkOpens ==
    ASSUME GrpcIInv, GrpcOpen, gctxDone' = gctxDone, NEW p \in GLoops,
           gloop' = [gloop EXCEPT ![p] = "load"]
    PROVE  GrpcLink!Open
<1>1. /\ gloop \in [GLoops -> {"none"} \cup Reading \cup Reconnecting]
      /\ gconn = 0 /\ gstream = 0 /\ gopen = {} /\ ~gctxDone
  BY DEF GrpcOpen, GrpcIInv, GrpcTypeOK, StreamOfConn, NoLeakedStream
<1>2. \A q \in GLoops : ~Attending(q)
  BY <1>1 DEF GrpcIInv, OneAttends
<1>3. ~GrpcInCallback /\ ~GrpcInCallback'
  BY <1>1, <1>2 DEF GrpcInCallback, Attending, Reading
<1>4. gopened' = gopened + 1 /\ gopen' = {gopened'}
  BY <1>1 DEF GrpcOpen
<1> QED
  BY <1>1, <1>3, <1>4 DEF GrpcLink!Open, GrpcInCallback

LEMMA GrpcFrameLink ==
    ASSUME GrpcIInv, NEW p \in GLoops, GrpcFrame(p) PROVE GrpcLink!Next
<1>1. /\ gloop \in [GLoops -> {"none"} \cup Reading \cup Reconnecting]
      /\ UNCHANGED <<gopened, gopen, gctxDone>>
  BY DEF GrpcIInv, GrpcTypeOK, GrpcFrame, gConnVars
<1>2. \A q \in GLoops : q # p => gloop[q] # "callback"
  BY DEF GrpcIInv, OneAttends, Attending, Reading, GrpcFrame
<1>3. CASE gloop[p] = "recv" /\ gon[p] \in glive /\ gloop' = [gloop EXCEPT ![p] = "callback"]
  <2>1. gopen # {}
    BY <1>3 DEF GrpcIInv, GrpcTypeOK
  <2>2. ~GrpcInCallback /\ GrpcInCallback'
    BY <1>1, <1>2, <1>3 DEF GrpcInCallback
  <2>3. GrpcLink!Hand
    BY <1>1, <2>1, <2>2 DEF GrpcLink!Hand, GrpcInCallback
  <2> QED
    BY <2>3 DEF GrpcLink!Next
<1>4. CASE gloop[p] = "callback" /\ gloop' = [gloop EXCEPT ![p] = "load"]
  <2>1. GrpcInCallback /\ ~GrpcInCallback'
    BY <1>1, <1>2, <1>4 DEF GrpcInCallback
  <2>2. GrpcLink!Handled
    BY <1>1, <2>1 DEF GrpcLink!Handled, GrpcInCallback
  <2> QED
    BY <2>2 DEF GrpcLink!Next
<1> QED
  BY <1>3, <1>4 DEF GrpcFrame

LEMMA GrpcDropLink ==
    ASSUME GrpcIInv, NEW p \in GLoops, GrpcDrop(p)
    PROVE  [GrpcLink!Next]_(GrpcLink!vars)
<1>1. gopened' = gopened /\ gctxDone' = gctxDone /\ gopen' = {}
  BY DEF GrpcDrop, GrpcIInv, NoLeakedStream
<1>2. GrpcInCallback' <=> GrpcInCallback
  BY DEF GrpcDrop, GrpcInCallback, GrpcIInv, GrpcTypeOK
<1>3. CASE gopen = {}
  BY <1>1, <1>2, <1>3 DEF GrpcLink!vars, GrpcInCallback
<1>4. CASE gopen # {}
  <2>1. GrpcLink!Lose
    BY <1>1, <1>2, <1>4 DEF GrpcLink!Lose, GrpcInCallback
  <2> QED
    BY <2>1 DEF GrpcLink!Next
<1> QED
  BY <1>3, <1>4

LEMMA GrpcCloseLink == ASSUME GrpcIInv, GrpcClose PROVE GrpcLink!Next
<1>1. /\ gopened' = gopened /\ gloop' = gloop /\ ~gctxDone /\ gctxDone' /\ gopen' = {}
      /\ gctxDone \in BOOLEAN /\ gctxDone' \in BOOLEAN
  BY DEF GrpcClose, GrpcIInv, GrpcTypeOK, NoLeakedStream, gLoopVars
<1>2. GrpcLink!Shut
  BY <1>1 DEF GrpcLink!Shut, GrpcClose
<1> QED
  BY <1>2 DEF GrpcLink!Next

(* The other steps open and close nothing and hand over no frame. *)
LEMMA GrpcOtherLink ==
    ASSUME GrpcIInv,
           UNCHANGED <<gopened, gopen, gctxDone>>,
           \/ UNCHANGED gloop
           \/ \E p \in GLoops, to \in {"none", "recv", "failed", "backoff", "dial"} :
                gloop[p] # "callback" /\ gloop' = [gloop EXCEPT ![p] = to]
    PROVE  UNCHANGED GrpcLink!vars
<1>1. GrpcInCallback' <=> GrpcInCallback
  BY DEF GrpcInCallback, GrpcIInv, GrpcTypeOK
<1> QED
  BY <1>1 DEF GrpcLink!vars, GrpcInCallback

LEMMA GrpcLoopLink ==
    ASSUME GrpcIInv, NEW p \in GLoops, GrpcLoop(p)
    PROVE  [GrpcLink!Next]_(GrpcLink!vars)
<1>1. CASE GrpcLoad(p) \/ GrpcRecvFails(p) \/ GrpcBackoffEnds(p) \/ GrpcBackoffStops(p)
           \/ GrpcRetryFindsConn(p) \/ GrpcRetryFails(p)
  <2>1. UNCHANGED <<gopened, gopen, gctxDone>>
    BY <1>1 DEF GrpcLoad, GrpcRecvFails, GrpcBackoffEnds, GrpcBackoffStops, GrpcRetryFindsConn,
       GrpcRetryFails, GrpcOpenFails, GrpcConnected, gConnVars
  <2>2. \/ UNCHANGED gloop
        \/ \E to \in {"none", "recv", "failed", "backoff", "dial"} :
             gloop[p] # "callback" /\ gloop' = [gloop EXCEPT ![p] = to]
    BY <1>1 DEF GrpcLoad, GrpcRecvFails, GrpcBackoffEnds, GrpcBackoffStops, GrpcRetryFindsConn,
       GrpcRetryFails, gLoopVars
  <2> QED
    BY <2>1, <2>2, GrpcOtherLink
<1>2. CASE GrpcFrame(p)
  BY <1>2, GrpcFrameLink
<1>3. CASE GrpcDrop(p)
  BY <1>3, GrpcDropLink
<1>4. CASE GrpcRetryOpens(p)
  BY <1>4, GrpcLinkOpens DEF GrpcRetryOpens, GrpcLink!Next
<1> QED
  BY <1>1, <1>2, <1>3, <1>4 DEF GrpcLoop

LEMMA GrpcAppConnectLink ==
    ASSUME GrpcIInv, GrpcAppConnect PROVE [GrpcLink!Next]_(GrpcLink!vars)
<1>1. gctxDone' = gctxDone
  BY DEF GrpcAppConnect
<1>2. ASSUME GrpcOpen, NEW p \in GLoops, gloop' = [gloop EXCEPT ![p] = "load"]
      PROVE  GrpcLink!Next
  BY <1>1, <1>2, GrpcLinkOpens DEF GrpcLink!Next
<1>3. CASE (GrpcOpenFails \/ GrpcConnected) /\ UNCHANGED gloop
  BY <1>1, <1>3, GrpcOtherLink DEF GrpcOpenFails, GrpcConnected, gConnVars
<1> QED
  BY <1>2, <1>3 DEF GrpcAppConnect

LEMMA GrpcLinkNext ==
    ASSUME GrpcIInv, [GrpcNext]_grpcVars PROVE [GrpcLink!Next]_(GrpcLink!vars)
<1>1. CASE \/ GrpcPeerBreaks \/ GrpcSendEnds \/ GrpcBeatStops \/ UNCHANGED grpcVars
           \/ \E who \in {"client", "beat"} : GrpcSend(who)
  <2>1. UNCHANGED <<gopened, gopen, gctxDone, gloop>>
    BY <1>1 DEF GrpcPeerBreaks, GrpcSendEnds, GrpcBeatStops, GrpcSend, grpcVars, gConnVars,
       gLoopVars
  <2> QED
    BY <2>1, GrpcOtherLink
<1>2. CASE GrpcAppConnect
  BY <1>2, GrpcAppConnectLink
<1>3. CASE GrpcClose
  BY <1>3, GrpcCloseLink
<1>4. CASE \E p \in GLoops : GrpcLoop(p)
  BY <1>4, GrpcLoopLink
<1> QED
  BY <1>1, <1>2, <1>3, <1>4 DEF GrpcNext
=============================================================================
