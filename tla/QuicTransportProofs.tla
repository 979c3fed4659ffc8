------------------------ MODULE QuicTransportProofs ------------------------
(***************************************************************************)
(* Proofs about QuicTransport, for any number of goroutines, connections   *)
(* and frames.                                                             *)
(***************************************************************************)
EXTENDS QuicTransport, TLAPS

NoReader == \A r \in QReaders : qreader[r] = "none"

(* A reader and q.connected go together until Close; while Connect is under *)
(* way there is neither, and nothing is open but what it has dialled.       *)
ReaderAndConn ==
    /\ qclose # "closed" /\ ~qconnected => NoReader
    /\ qcaller = "publish" => NoReader
    /\ qcaller = "dial" /\ qclose = "no" => NoReader
    /\ NoReader => qopen \subseteq (IF qcaller = "publish" THEN {qopened} ELSE {})

Odd(s) == Len(s) % 2 = 1

(* A stream that works and ends with a length is the one that the holder of *)
(* writeMu writes to.                                                       *)
HalfFrames ==
    /\ \A s, t \in QSenders : qsender[s] = "body" /\ qsender[t] = "body" => s = t
    /\ \A c \in qlive : Odd(qwire[c]) => \E s \in QSenders : qsender[s] = "body" /\ qto[s] = c
    /\ \A s \in QSenders : qsender[s] = "body" /\ qto[s] \in qlive =>
        /\ Odd(qwire[qto[s]])
        /\ qwire[qto[s]][Len(qwire[qto[s]])] = <<"length", qframe[s]>>
    /\ \A c \in 1..QMaxConns : c > qopened => qwire[c] = <<>>

QuicIInv ==
    /\ QuicTypeOK /\ ReaderAndConn /\ HalfFrames
    /\ FramesWhole /\ OneQuicReader /\ NoQuicOrphan /\ ConnectedIsRead

(* The invariant holds initially. *)
LEMMA QuicInitIInv == QuicInit => QuicIInv
<1> SUFFICES ASSUME QuicInit PROVE QuicIInv
  OBVIOUS
<1>1. QuicTypeOK
  <2>1. qopened \in 0..QMaxConns /\ qconn \in 0..qopened
    BY QuicAssumption DEF QuicInit
  <2>2. qon \in [QReaders -> 0..qopened] /\ qto \in [QSenders -> 0..qopened]
    BY DEF QuicInit
  <2>3. <<>> \in Seq(Part)
    OBVIOUS
  <2>4. qwire \in [1..QMaxConns -> Seq(Part)]
    BY <2>3 DEF QuicInit
  <2>5. qlive \subseteq qopen /\ qopen \subseteq 1..qopened /\ qframes \in Nat
    BY DEF QuicInit
  <2>6. /\ qreader \in [QReaders -> {"none", "load", "read", "callback", "exit"}]
        /\ qsender \in [QSenders -> {"idle", "lock", "body"}] /\ qframe \in [QSenders -> Nat]
    BY DEF QuicInit
  <2> QED
    BY <2>1, <2>2, <2>4, <2>5, <2>6 DEF QuicInit, QuicTypeOK
<1>2. ReaderAndConn /\ OneQuicReader /\ NoQuicOrphan /\ ConnectedIsRead
  BY DEF QuicInit, ReaderAndConn, NoReader, OneQuicReader, NoQuicOrphan, ConnectedIsRead
<1>3. HalfFrames /\ FramesWhole
  BY DEF QuicInit, HalfFrames, FramesWhole
<1> QED
  BY <1>1, <1>2, <1>3 DEF QuicIInv

(* What only takes streams away, and opens none, leaves the frames whole.   *)
LEMMA QuicWireKept ==
    ASSUME QuicIInv, qlive' \subseteq qlive, qopened' = qopened, UNCHANGED qSendVars
    PROVE  (HalfFrames /\ FramesWhole)'
BY DEF QuicIInv, HalfFrames, FramesWhole, qSendVars

(* The steps of Connect before it has a connection, and the peer's. *)
LEMMA QuicOutsideIInv ==
    ASSUME QuicIInv, QuicCheck \/ QuicDialFails \/ QuicPeerBreaks \/ QuicCloseStart
    PROVE  QuicIInv'
<1>1. QuicTypeOK
  BY DEF QuicIInv
<1>2. /\ UNCHANGED <<qconn, qstream, qconnected, qopened, qopen, qlate, qReadVars, qSendVars>>
      /\ qlive' \subseteq qlive
      /\ \/ qcaller' = qcaller
         \/ ~qconnected /\ qcaller = "idle" /\ qcaller' = "dial"
         \/ qcaller = "dial" /\ qcaller' = "idle"
      /\ qclose' = qclose \/ (qclose = "no" /\ qclose' = "cancelled")
  BY DEF QuicCheck, QuicDialFails, QuicPeerBreaks, QuicCloseStart, qConnVars
<1>3. QuicTypeOK'
  BY <1>1, <1>2 DEF QuicTypeOK, qReadVars, qSendVars
<1>4. (HalfFrames /\ FramesWhole)'
  BY <1>2, QuicWireKept
<1>5. ReaderAndConn'
  BY <1>2 DEF QuicIInv, ReaderAndConn, NoReader, qReadVars
<1>6. (OneQuicReader /\ NoQuicOrphan /\ ConnectedIsRead)'
  BY <1>2 DEF QuicIInv, OneQuicReader, NoQuicOrphan, ConnectedIsRead, qReadVars
<1> QED
  BY <1>3, <1>4, <1>5, <1>6 DEF QuicIInv

LEMMA QuicDialIInv == QuicIInv /\ QuicDial => QuicIInv'
<1> SUFFICES ASSUME QuicIInv, QuicDial PROVE QuicIInv'
  OBVIOUS
<1>1. QuicTypeOK
  BY DEF QuicIInv
<1>2. /\ qopened' = qopened + 1 /\ qopened' \in 1..QMaxConns /\ qopened \in Nat
      /\ qopen' = qopen \cup {qopened'} /\ qlive' = qlive \cup {qopened'}
      /\ qcaller = "dial" /\ qcaller' = "publish" /\ qclose = "no"
      /\ UNCHANGED <<qconn, qstream, qconnected, qlate, qclose, qreader, qon, qsender, qto,
                     qframe, qframes, qwire>>
  BY <1>1, QuicAssumption DEF QuicDial, QuicTypeOK, qReadVars, qSendVars
<1>3. NoReader /\ qopen = {}
  BY <1>2 DEF QuicIInv, ReaderAndConn
<1>4. QuicTypeOK'
  <2>1. \A n : n \in 0..qopened => n \in 0..qopened'
    BY <1>2
  <2>2. qopen' \subseteq 1..qopened' /\ qlive' \subseteq qopen'
    BY <1>1, <1>2, <1>3 DEF QuicTypeOK
  <2>3. qon' \in [QReaders -> 0..qopened'] /\ qto' \in [QSenders -> 0..qopened']
    BY <1>1, <1>2, <2>1 DEF QuicTypeOK
  <2>4. qconn' \in 0..qopened' /\ qopened' \in 0..QMaxConns
    BY <1>1, <1>2, <2>1 DEF QuicTypeOK
  <2> QED
    BY <1>1, <1>2, <2>2, <2>3, <2>4 DEF QuicTypeOK
<1>5. (ReaderAndConn /\ OneQuicReader /\ NoQuicOrphan /\ ConnectedIsRead)'
  BY <1>2, <1>3 DEF QuicIInv, ReaderAndConn, NoReader, OneQuicReader, NoQuicOrphan,
     ConnectedIsRead
<1>6. HalfFrames'
  <2>1. qwire[qopened'] = <<>>
    BY <1>2 DEF QuicIInv, HalfFrames
  <2>2. \A s \in QSenders : qto[s] # qopened'
    BY <1>1, <1>2 DEF QuicTypeOK
  <2>3. \A c \in 1..QMaxConns : c > qopened' => c > qopened
    BY <1>2
  <2>4. ~Odd(qwire[qopened'])
    BY <2>1 DEF Odd
  <2> QED
    BY <1>2, <2>2, <2>3, <2>4 DEF QuicIInv, HalfFrames, Odd
<1>7. FramesWhole'
  BY <1>2 DEF QuicIInv, FramesWhole
<1> QED
  BY <1>4, <1>5, <1>6, <1>7 DEF QuicIInv

LEMMA QuicPublishIInv == QuicIInv /\ QuicPublish => QuicIInv'
<1> SUFFICES ASSUME QuicIInv, QuicPublish PROVE QuicIInv'
  OBVIOUS
<1>1. QuicTypeOK
  BY DEF QuicIInv
<1>2. PICK r \in QReaders : qreader' = [qreader EXCEPT ![r] = "load"]
  BY DEF QuicPublish
<1>3. /\ qcaller = "publish" /\ qcaller' = "idle"
      /\ qconn' = qopened /\ qstream' = qopened /\ qconnected' = TRUE
      /\ qlate' \in BOOLEAN
      /\ UNCHANGED <<qopened, qopen, qlive, qclose, qon, qSendVars>>
  BY DEF QuicPublish
<1>4. \A t \in QReaders : qreader'[t] = IF t = r THEN "load" ELSE "none"
  BY <1>1, <1>2, <1>3 DEF QuicTypeOK, QuicIInv, ReaderAndConn, NoReader
<1>5. qopen \subseteq {qopened}
  BY <1>3 DEF QuicIInv, ReaderAndConn
<1>6. QuicTypeOK'
  <2>1. qreader' \in [QReaders -> {"none", "load", "read", "callback", "exit"}]
    BY <1>1, <1>2 DEF QuicTypeOK
  <2>2. qopened \in 0..qopened
    BY <1>1, QuicAssumption DEF QuicTypeOK
  <2> QED
    BY <1>1, <1>3, <2>1, <2>2 DEF QuicTypeOK, qSendVars
<1>7. (HalfFrames /\ FramesWhole)'
  BY <1>3, QuicWireKept
<1>8. (ReaderAndConn /\ OneQuicReader /\ NoQuicOrphan /\ ConnectedIsRead)'
  BY <1>3, <1>4, <1>5 DEF ReaderAndConn, NoReader, OneQuicReader, NoQuicOrphan, ConnectedIsRead
<1> QED
  BY <1>6, <1>7, <1>8 DEF QuicIInv

LEMMA QuicReaderIInv == ASSUME QuicIInv, NEW r \in QReaders, QuicReader(r) PROVE QuicIInv'
<1>1. QuicTypeOK
  BY DEF QuicIInv
<1>2. qreader[r] # "none" /\ \A t \in QReaders : t # r => qreader[t] = "none"
  <2>1. qreader[r] # "none"
    BY DEF QuicReader, QuicLoad, QuicFrame, QuicReadFails, QuicReaderExit
  <2> QED
    BY <2>1 DEF QuicIInv, OneQuicReader
<1>3. qcaller # "publish"
  BY <1>2 DEF QuicIInv, ReaderAndConn, NoReader
<1>4. CASE QuicReaderExit(r)
  <2>1. /\ \A t \in QReaders : qreader'[t] = "none"
        /\ qreader' \in [QReaders -> {"none", "load", "read", "callback", "exit"}]
    BY <1>1, <1>2, <1>4 DEF QuicReaderExit, QuicTypeOK
  <2>2. /\ qopen' = {} /\ qlive' = {} /\ qconnected' = FALSE
        /\ UNCHANGED <<qconn, qstream, qopened, qcaller, qlate, qclose, qon, qSendVars>>
    BY <1>1, <1>3, <1>4 DEF QuicReaderExit, QuicIInv, NoQuicOrphan, QuicTypeOK
  <2>3. QuicTypeOK'
    BY <1>1, <2>1, <2>2 DEF QuicTypeOK, qSendVars
  <2>4. (HalfFrames /\ FramesWhole)'
    BY <2>2, QuicWireKept
  <2>5. (ReaderAndConn /\ OneQuicReader /\ NoQuicOrphan /\ ConnectedIsRead)'
    BY <2>1, <2>2 DEF ReaderAndConn, NoReader, OneQuicReader, NoQuicOrphan, ConnectedIsRead
  <2> QED
    BY <2>3, <2>4, <2>5 DEF QuicIInv
<1>5. CASE QuicLoad(r) \/ QuicFrame(r) \/ QuicReadFails(r)
  <2>1. /\ UNCHANGED <<qConnVars, qcaller, qlate, qclose, qSendVars>>
        /\ qon' \in {qon, [qon EXCEPT ![r] = qstream]}
        /\ \E to \in {"load", "read", "callback", "exit"} : qreader' = [qreader EXCEPT ![r] = to]
    BY <1>5 DEF QuicLoad, QuicFrame, QuicReadFails
  <2>2. /\ qreader'[r] # "none" /\ \A t \in QReaders : t # r => qreader'[t] = "none"
        /\ qreader' \in [QReaders -> {"none", "load", "read", "callback", "exit"}]
    BY <1>1, <1>2, <2>1 DEF QuicTypeOK
  <2>3. QuicTypeOK'
    <3>1. qstream \in 0..qopened
      BY <1>1, QuicAssumption DEF QuicTypeOK
    <3>2. qon' \in [QReaders -> 0..qopened]
      BY <1>1, <2>1, <3>1 DEF QuicTypeOK
    <3> QED
      BY <1>1, <2>1, <2>2, <3>2 DEF QuicTypeOK, qConnVars, qSendVars
  <2>4. (HalfFrames /\ FramesWhole)'
    BY <2>1, QuicWireKept DEF qConnVars
  <2>5. ReaderAndConn'
    BY <1>2, <1>3, <2>1, <2>2 DEF QuicIInv, ReaderAndConn, NoReader, qConnVars
  <2>6. (OneQuicReader /\ NoQuicOrphan /\ ConnectedIsRead)'
    BY <2>1, <2>2 DEF QuicIInv, OneQuicReader, NoQuicOrphan, ConnectedIsRead, qConnVars
  <2> QED
    BY <2>3, <2>4, <2>5, <2>6 DEF QuicIInv
<1> QED
  BY <1>4, <1>5 DEF QuicReader

LEMMA QuicCloseIInv == QuicIInv /\ QuicCloseFinish => QuicIInv'
<1> SUFFICES ASSUME QuicIInv, QuicCloseFinish PROVE QuicIInv'
  OBVIOUS
<1>1. QuicTypeOK
  BY DEF QuicIInv
<1>2. /\ qclose' = "closed" /\ qconn' = 0 /\ qstream' = 0 /\ qconnected' = FALSE
      /\ qopen' \subseteq (IF qcaller = "publish" THEN {qopened} ELSE {})
      /\ qopen' \subseteq qopen /\ qlive' \subseteq qopen' /\ qlive' \subseteq qlive
      /\ UNCHANGED <<qopened, qcaller, qlate, qReadVars, qSendVars>>
  BY <1>1 DEF QuicCloseFinish, QuicIInv, NoQuicOrphan, QuicTypeOK
<1>3. QuicTypeOK'
  <2>1. 0 \in 0..qopened
    BY <1>1, QuicAssumption DEF QuicTypeOK
  <2> QED
    BY <1>1, <1>2, <2>1 DEF QuicTypeOK, qReadVars, qSendVars
<1>4. (HalfFrames /\ FramesWhole)'
  BY <1>2, QuicWireKept
<1>5. (ReaderAndConn /\ OneQuicReader /\ NoQuicOrphan /\ ConnectedIsRead)'
  BY <1>2 DEF QuicIInv, ReaderAndConn, NoReader, OneQuicReader, NoQuicOrphan, ConnectedIsRead,
     qReadVars
<1> QED
  BY <1>3, <1>4, <1>5 DEF QuicIInv

LEMMA QuicSendIInv == ASSUME QuicIInv, NEW s \in QSenders, QuicSend(s) PROVE QuicIInv'
<1>1. QuicTypeOK
  BY DEF QuicIInv
<1>2. /\ qframes' = qframes + 1 /\ qframe' = [qframe EXCEPT ![s] = qframes']
      /\ qto' = [qto EXCEPT ![s] = qstream] /\ qsender' = [qsender EXCEPT ![s] = "lock"]
      /\ UNCHANGED <<qConnVars, qcaller, qlate, qclose, qReadVars, qwire>>
      /\ qsender[s] = "idle"
  BY DEF QuicSend
<1>3. QuicTypeOK'
  <2>1. qstream \in 0..qopened /\ qframes' \in Nat
    BY <1>1, <1>2, QuicAssumption DEF QuicTypeOK
  <2> QED
    BY <1>1, <1>2, <2>1 DEF QuicTypeOK, qConnVars, qReadVars
<1>4. \A t \in QSenders : /\ qsender'[t] = "body" <=> qsender[t] = "body"
                          /\ qsender[t] = "body" => qto'[t] = qto[t] /\ qframe'[t] = qframe[t]
  BY <1>1, <1>2 DEF QuicTypeOK
<1>5. HalfFrames'
  BY <1>2, <1>4 DEF QuicIInv, HalfFrames, qConnVars
<1>6. FramesWhole'
  BY <1>2 DEF QuicIInv, FramesWhole
<1>7. (ReaderAndConn /\ OneQuicReader /\ NoQuicOrphan /\ ConnectedIsRead)'
  BY <1>2 DEF QuicIInv, ReaderAndConn, NoReader, OneQuicReader, NoQuicOrphan, ConnectedIsRead,
     qConnVars, qReadVars
<1> QED
  BY <1>3, <1>5, <1>6, <1>7 DEF QuicIInv

(* A write that fails: the sender is idle again. *)
LEMMA QuicWriteFailsIInv ==
    ASSUME QuicIInv, NEW s \in QSenders, qto[s] \notin qlive,
           qsender' = [qsender EXCEPT ![s] = "idle"],
           UNCHANGED <<qConnVars, qcaller, qlate, qclose, qReadVars, qto, qframe, qframes, qwire>>
    PROVE  QuicIInv'
<1>1. QuicTypeOK
  BY DEF QuicIInv
<1>2. \A t \in QSenders : qsender'[t] = IF t = s THEN "idle" ELSE qsender[t]
  BY <1>1 DEF QuicTypeOK
<1>3. QuicTypeOK'
  BY <1>1 DEF QuicTypeOK, qConnVars, qReadVars
<1>4. HalfFrames'
  BY <1>2 DEF QuicIInv, HalfFrames, qConnVars
<1>5. (FramesWhole /\ ReaderAndConn /\ OneQuicReader /\ NoQuicOrphan /\ ConnectedIsRead)'
  BY DEF QuicIInv, FramesWhole, ReaderAndConn, NoReader, OneQuicReader, NoQuicOrphan,
     ConnectedIsRead, qConnVars, qReadVars
<1> QED
  BY <1>3, <1>4, <1>5 DEF QuicIInv

LEMMA Parity == ASSUME NEW n \in Nat PROVE ((n + 1) % 2 = 1) <=> ~(n % 2 = 1)
OBVIOUS

(* A write that succeeds appends one part, of the right kind. *)
LEMMA QuicAppend ==
    ASSUME NEW w \in Seq(Part), NEW e \in Part
    PROVE  /\ Append(w, e) \in Seq(Part) /\ Len(Append(w, e)) = Len(w) + 1
           /\ \A i \in 1..Len(w) : Append(w, e)[i] = w[i]
           /\ Append(w, e)[Len(w) + 1] = e
           /\ DOMAIN Append(w, e) = 1..(Len(w) + 1) /\ DOMAIN w = 1..Len(w)
           /\ Len(w) \in Nat
           /\ Odd(Append(w, e)) <=> ~Odd(w)
<1>1. Len(w) \in Nat /\ Len(Append(w, e)) = Len(w) + 1
  OBVIOUS
<1>2. Odd(Append(w, e)) <=> ~Odd(w)
  BY <1>1, Parity DEF Odd
<1> QED
  BY <1>1, <1>2

LEMMA QuicWriteIInv ==
    ASSUME QuicIInv, NEW s \in QSenders, QuicWriteLength(s) \/ QuicWritePayload(s)
    PROVE  QuicIInv'
<1>1. QuicTypeOK
  BY DEF QuicIInv
<1>2. UNCHANGED <<qConnVars, qcaller, qlate, qclose, qReadVars, qto, qframe, qframes>>
  BY DEF QuicWriteLength, QuicWritePayload
<1>3. CASE qto[s] \notin qlive
  <2>1. qsender' = [qsender EXCEPT ![s] = "idle"] /\ UNCHANGED qwire
    BY <1>3 DEF QuicWriteLength, QuicWritePayload, QuicWrite
  <2> QED
    BY <1>2, <1>3, <2>1, QuicWriteFailsIInv
<1>4. CASE qto[s] \in qlive
  <2> DEFINE c == qto[s]
             w == qwire[c]
  <2>1. c \in 1..QMaxConns /\ w \in Seq(Part) /\ qframe[s] \in Nat
    <3>1. \A n \in 1..qopened : n \in 1..QMaxConns
      BY <1>1, QuicAssumption DEF QuicTypeOK
    <3> QED
      BY <1>1, <1>4, <3>1 DEF QuicTypeOK
  <2>2. (ReaderAndConn /\ OneQuicReader /\ NoQuicOrphan /\ ConnectedIsRead)'
    BY <1>2 DEF QuicIInv, ReaderAndConn, NoReader, OneQuicReader, NoQuicOrphan,
       ConnectedIsRead, qConnVars, qReadVars
  <2>3. ASSUME NEW e \in Part, NEW to \in {"idle", "body"},
               qwire' = [qwire EXCEPT ![c] = Append(@, e)],
               qsender' = [qsender EXCEPT ![s] = to]
        PROVE  /\ QuicTypeOK' /\ qwire'[c] = Append(w, e)
               /\ \A d \in 1..QMaxConns : d # c => qwire'[d] = qwire[d]
               /\ \A t \in QSenders : qsender'[t] = IF t = s THEN to ELSE qsender[t]
               /\ \A d \in 1..QMaxConns : d > qopened' => qwire'[d] = <<>>
    <3>1. Append(w, e) \in Seq(Part)
      BY <2>1
    <3>2. /\ qwire' \in [1..QMaxConns -> Seq(Part)] /\ qwire'[c] = Append(w, e)
          /\ \A d \in 1..QMaxConns : d # c => qwire'[d] = qwire[d]
      BY <1>1, <2>1, <2>3, <3>1 DEF QuicTypeOK
    <3>3. /\ qsender' \in [QSenders -> {"idle", "lock", "body"}]
          /\ \A t \in QSenders : qsender'[t] = IF t = s THEN to ELSE qsender[t]
      BY <1>1, <2>3 DEF QuicTypeOK
    <3>4. QuicTypeOK'
      BY <1>1, <1>2, <3>2, <3>3 DEF QuicTypeOK, qConnVars, qReadVars
    <3>5. ~(c > qopened) /\ qopened' = qopened
      BY <1>1, <1>2, <1>4, QuicAssumption DEF QuicTypeOK, qConnVars
    <3> QED
      BY <3>2, <3>3, <3>4, <3>5 DEF QuicIInv, HalfFrames
  <2>4. CASE QuicWriteLength(s)
    <3> DEFINE e == <<"length", qframe[s]>>
    <3>1. e \in Part
      BY <2>1 DEF Part
    <3>2. /\ qwire' = [qwire EXCEPT ![c] = Append(@, e)]
          /\ qsender' = [qsender EXCEPT ![s] = "body"]
          /\ \A t \in QSenders : qsender[t] # "body"
      BY <1>4, <2>4 DEF QuicWriteLength, QuicWrite
    <3>3. /\ QuicTypeOK' /\ qwire'[c] = Append(w, e)
          /\ \A d \in 1..QMaxConns : d # c => qwire'[d] = qwire[d]
          /\ \A t \in QSenders : qsender'[t] = IF t = s THEN "body" ELSE qsender[t]
          /\ \A d \in 1..QMaxConns : d > qopened' => qwire'[d] = <<>>
      BY <2>3, <3>1, <3>2
    <3>4. \A d \in qlive : ~Odd(qwire[d])
      BY <3>2 DEF QuicIInv, HalfFrames
    <3>5. /\ Odd(qwire'[c]) /\ qwire'[c][Len(qwire'[c])] = e
          /\ \A i \in 1..Len(w) : qwire'[c][i] = w[i]
          /\ DOMAIN qwire'[c] = 1..(Len(w) + 1) /\ DOMAIN w = 1..Len(w) /\ Len(w) \in Nat
          /\ qwire'[c][Len(w) + 1] = e
      BY <1>4, <2>1, <3>1, <3>3, <3>4, QuicAppend
    <3>6. HalfFrames'
      <4>1. qlive' = qlive /\ qto' = qto /\ qframe' = qframe /\ qlive \subseteq 1..QMaxConns
        BY <1>1, <1>2, QuicAssumption DEF qConnVars, QuicTypeOK
      <4>2. \A d \in qlive : Odd(qwire'[d]) => d = c
        BY <3>3, <3>4, <4>1
      <4>3. \A t \in QSenders : qsender'[t] = "body" => t = s
        BY <3>2, <3>3
      <4>4. qsender'[s] = "body" /\ qto'[s] = c /\ qframe'[s] = qframe[s]
        BY <3>3, <4>1
      <4>5. \A d \in qlive' : Odd(qwire'[d]) =>
                \E t \in QSenders : qsender'[t] = "body" /\ qto'[t] = d
        BY <4>1, <4>2, <4>4
      <4>6. \A t \in QSenders : qsender'[t] = "body" /\ qto'[t] \in qlive' =>
                /\ Odd(qwire'[qto'[t]])
                /\ qwire'[qto'[t]][Len(qwire'[qto'[t]])] = <<"length", qframe'[t]>>
        BY <3>5, <4>3, <4>4
      <4> QED
        BY <3>3, <4>3, <4>5, <4>6 DEF HalfFrames, Odd
    <3>7. FramesWhole'
      <4>1. (Len(w) + 1) % 2 = 1
        BY <1>4, <3>4, <3>5, Parity DEF Odd
      <4>2. \A i \in DOMAIN qwire'[c] : IF i % 2 = 1 THEN qwire'[c][i][1] = "length"
                     ELSE qwire'[c][i] = <<"payload", qwire'[c][i - 1][2]>>
        <5> TAKE i \in DOMAIN qwire'[c]
        <5>1. CASE i = Len(w) + 1
          BY <3>5, <4>1, <5>1
        <5>2. CASE i \in 1..Len(w)
          <6>1. IF i % 2 = 1 THEN w[i][1] = "length"
                ELSE w[i] = <<"payload", w[i - 1][2]>>
            BY <2>1, <3>5, <5>2 DEF QuicIInv, FramesWhole
          <6>2. i % 2 # 1 => i - 1 \in 1..Len(w)
            BY <3>5, <5>2
          <6> QED
            BY <3>5, <5>2, <6>1, <6>2
        <5>3. i = Len(w) + 1 \/ i \in 1..Len(w)
          BY <3>5
        <5> QED
          BY <5>1, <5>2, <5>3
      <4>3. ASSUME NEW d \in 1..QMaxConns, NEW i \in DOMAIN qwire'[d]
            PROVE  IF i % 2 = 1 THEN qwire'[d][i][1] = "length"
                   ELSE qwire'[d][i] = <<"payload", qwire'[d][i - 1][2]>>
        <5>1. CASE d = c
          BY <4>2, <5>1
        <5>2. CASE d # c
          <6>1. qwire'[d] = qwire[d]
            BY <3>3, <5>2
          <6> QED
            BY <6>1 DEF QuicIInv, FramesWhole
        <5> QED
          BY <5>1, <5>2
      <4> QED
        BY <4>3 DEF FramesWhole
    <3> QED
      BY <2>2, <3>3, <3>6, <3>7 DEF QuicIInv
  <2>5. CASE QuicWritePayload(s)
    <3> DEFINE e == <<"payload", qframe[s]>>
    <3>1. e \in Part
      BY <2>1 DEF Part
    <3>2. /\ qwire' = [qwire EXCEPT ![c] = Append(@, e)]
          /\ qsender' = [qsender EXCEPT ![s] = "idle"]
          /\ qsender[s] = "body"
      BY <1>4, <2>5 DEF QuicWritePayload, QuicWrite
    <3>3. /\ QuicTypeOK' /\ qwire'[c] = Append(w, e)
          /\ \A d \in 1..QMaxConns : d # c => qwire'[d] = qwire[d]
          /\ \A t \in QSenders : qsender'[t] = IF t = s THEN "idle" ELSE qsender[t]
          /\ \A d \in 1..QMaxConns : d > qopened' => qwire'[d] = <<>>
      BY <2>3, <3>1, <3>2
    <3>4. w[Len(w)] = <<"length", qframe[s]>>
      BY <1>4, <3>2 DEF QuicIInv, HalfFrames
    <3>9. Odd(w)
      BY <1>4, <3>2 DEF QuicIInv, HalfFrames
    <3>5. \A t \in QSenders : t # s => qsender[t] # "body"
      BY <3>2 DEF QuicIInv, HalfFrames
    <3>6. /\ ~Odd(qwire'[c])
          /\ \A i \in 1..Len(w) : qwire'[c][i] = w[i]
          /\ DOMAIN qwire'[c] = 1..(Len(w) + 1) /\ DOMAIN w = 1..Len(w) /\ Len(w) \in Nat
          /\ qwire'[c][Len(w) + 1] = e
      BY <2>1, <3>1, <3>3, <3>9, QuicAppend
    <3>7. HalfFrames'
      <4>1. qlive' = qlive /\ qto' = qto /\ qframe' = qframe /\ qlive \subseteq 1..QMaxConns
        BY <1>1, <1>2, QuicAssumption DEF qConnVars, QuicTypeOK
      <4>2. \A d \in qlive : d # c => ~Odd(qwire[d])
        BY <3>2, <3>5 DEF QuicIInv, HalfFrames
      <4>3. \A d \in qlive : ~Odd(qwire'[d])
        BY <3>3, <3>6, <4>1, <4>2
      <4> QED
        BY <3>3, <3>5, <4>1, <4>3 DEF HalfFrames
    <3>8. FramesWhole'
      <4>1. (Len(w) + 1) % 2 # 1 /\ Len(w) \in 1..Len(w)
        <5>1. Len(w) \in Nat /\ Len(w) % 2 = 1
          BY <3>6, <3>9 DEF Odd
        <5>2. \A n \in Nat : n % 2 = 1 => n \in 1..n
          OBVIOUS
        <5> QED
          BY <5>1, <5>2, Parity
      <4>2. \A i \in DOMAIN qwire'[c] : IF i % 2 = 1 THEN qwire'[c][i][1] = "length"
                     ELSE qwire'[c][i] = <<"payload", qwire'[c][i - 1][2]>>
        <5> TAKE i \in DOMAIN qwire'[c]
        <5>1. CASE i = Len(w) + 1
          <6>1. i - 1 = Len(w) /\ i % 2 # 1
            <7>1. \A n \in Nat : (n + 1) - 1 = n
              OBVIOUS
            <7> QED
              BY <3>6, <4>1, <5>1, <7>1
          <6>2. qwire'[c][i - 1][2] = qframe[s]
            BY <3>4, <3>6, <4>1, <6>1
          <6> QED
            BY <3>6, <5>1, <6>1, <6>2
        <5>2. CASE i \in 1..Len(w)
          <6>1. IF i % 2 = 1 THEN w[i][1] = "length"
                ELSE w[i] = <<"payload", w[i - 1][2]>>
            BY <2>1, <3>6, <5>2 DEF QuicIInv, FramesWhole
          <6>2. i % 2 # 1 => i - 1 \in 1..Len(w)
            BY <3>6, <5>2
          <6> QED
            BY <3>6, <5>2, <6>1, <6>2
        <5> QED
          BY SMTT(30), <3>6, <5>1, <5>2
      <4>3. ASSUME NEW d \in 1..QMaxConns, NEW i \in DOMAIN qwire'[d]
            PROVE  IF i % 2 = 1 THEN qwire'[d][i][1] = "length"
                   ELSE qwire'[d][i] = <<"payload", qwire'[d][i - 1][2]>>
        <5>1. CASE d = c
          BY <4>2, <5>1
        <5>2. CASE d # c
          <6>1. qwire'[d] = qwire[d]
            BY <3>3, <5>2
          <6> QED
            BY <6>1 DEF QuicIInv, FramesWhole
        <5> QED
          BY <5>1, <5>2
      <4> QED
        BY <4>3 DEF FramesWhole
    <3> QED
      BY <2>2, <3>3, <3>7, <3>8 DEF QuicIInv
  <2> QED
    BY <2>4, <2>5
<1> QED
  BY <1>3, <1>4

LEMMA QuicNextIInv == QuicIInv /\ [QuicNext]_quicVars => QuicIInv'
<1> SUFFICES ASSUME QuicIInv, [QuicNext]_quicVars PROVE QuicIInv'
  OBVIOUS
<1>1. CASE UNCHANGED quicVars
  <2>1. qlive' \subseteq qlive /\ qopened' = qopened /\ UNCHANGED qSendVars
    BY <1>1 DEF quicVars, qConnVars
  <2>2. (HalfFrames /\ FramesWhole)'
    BY <2>1, QuicWireKept
  <2> QED
    BY <1>1, <2>2 DEF quicVars, qConnVars, qReadVars, qSendVars, QuicIInv, QuicTypeOK,
       ReaderAndConn, NoReader, OneQuicReader, NoQuicOrphan, ConnectedIsRead
<1> QED
  BY <1>1, QuicOutsideIInv, QuicDialIInv, QuicPublishIInv, QuicReaderIInv, QuicCloseIInv,
     QuicSendIInv, QuicWriteIInv DEF QuicNext

-----------------------------------------------------------------------------
(* The transport implements TransportLink. *)

QuicInCallback == \E r \in QReaders : qreader[r] = "callback"

LEMMA QuicLinkInit == QuicInit => QuicLink!Init
BY DEF QuicInit, QuicLink!Init

LEMMA QuicDialLink == ASSUME QuicIInv, QuicDial PROVE QuicLink!Next
<1>1. /\ NoReader /\ qopen = {} /\ qopened' = qopened + 1 /\ qopen' = {qopened'}
      /\ qclose = "no" /\ qclose' = "no" /\ qreader' = qreader
  BY DEF QuicDial, QuicIInv, ReaderAndConn, qReadVars
<1>2. ~QuicInCallback /\ ~QuicInCallback'
  BY <1>1 DEF QuicInCallback, NoReader
<1>3. QuicLink!Open
  BY <1>1, <1>2 DEF QuicLink!Open, QuicInCallback
<1> QED
  BY <1>3 DEF QuicLink!Next

LEMMA QuicFrameLink ==
    ASSUME QuicIInv, NEW r \in QReaders, QuicFrame(r) PROVE QuicLink!Next
<1>1. /\ qreader \in [QReaders -> {"none", "load", "read", "callback", "exit"}]
      /\ UNCHANGED <<qopened, qopen, qclose>>
  BY DEF QuicIInv, QuicTypeOK, QuicFrame, qConnVars
<1>2. \A t \in QReaders : t # r => qreader[t] = "none"
  BY DEF QuicIInv, OneQuicReader, QuicFrame
<1>3. CASE qreader[r] = "read" /\ qon[r] \in qlive
           /\ qreader' = [qreader EXCEPT ![r] = "callback"]
  <2>1. qopen # {}
    BY <1>3 DEF QuicIInv, QuicTypeOK
  <2>2. ~QuicInCallback /\ QuicInCallback'
    BY <1>1, <1>2, <1>3 DEF QuicInCallback
  <2>3. QuicLink!Hand
    BY <1>1, <2>1, <2>2 DEF QuicLink!Hand, QuicInCallback
  <2> QED
    BY <2>3 DEF QuicLink!Next
<1>4. CASE qreader[r] = "callback" /\ qreader' = [qreader EXCEPT ![r] = "load"]
  <2>1. QuicInCallback /\ ~QuicInCallback'
    BY <1>1, <1>2, <1>4 DEF QuicInCallback
  <2>2. QuicLink!Handled
    BY <1>1, <2>1 DEF QuicLink!Handled, QuicInCallback
  <2> QED
    BY <2>2 DEF QuicLink!Next
<1> QED
  BY <1>3, <1>4 DEF QuicFrame

(* A readLoop that ends closes whatever is open. *)
LEMMA QuicReaderExitLink ==
    ASSUME QuicIInv, NEW r \in QReaders, QuicReaderExit(r)
    PROVE  [QuicLink!Next]_(QuicLink!vars)
<1>1. qopened' = qopened /\ qclose' = qclose /\ qopen' = {}
  BY DEF QuicReaderExit, QuicIInv, NoQuicOrphan, ReaderAndConn, NoReader
<1>2. QuicInCallback' <=> QuicInCallback
  BY DEF QuicReaderExit, QuicInCallback, QuicIInv, QuicTypeOK
<1>3. CASE qopen = {}
  BY <1>1, <1>2, <1>3 DEF QuicLink!vars, QuicInCallback
<1>4. CASE qopen # {}
  <2>1. QuicLink!Lose
    BY <1>1, <1>2, <1>4 DEF QuicLink!Lose, QuicInCallback
  <2> QED
    BY <2>1 DEF QuicLink!Next
<1> QED
  BY <1>3, <1>4

(* Close closes q.conn; what Connect has just dialled stays. *)
LEMMA QuicCloseLink == ASSUME QuicIInv, QuicCloseFinish PROVE QuicLink!Next
<1>1. /\ qopened' = qopened /\ qreader' = qreader /\ qclose # "closed" /\ qclose' = "closed"
      /\ qopen' = qopen \ {qconn}
  BY DEF QuicCloseFinish, qReadVars
<1>2. qopen \subseteq {qconn} \/ qopen \subseteq {qopened}
  BY DEF QuicIInv, NoQuicOrphan, ReaderAndConn
<1>3. qopen' = qopen \/ qopen' = {}
  BY <1>1, <1>2
<1>4. QuicLink!Shut
  BY <1>1, <1>3 DEF QuicLink!Shut
<1> QED
  BY <1>4 DEF QuicLink!Next

(* The other steps open and close nothing and hand over no frame. *)
LEMMA QuicOtherLink ==
    ASSUME QuicIInv,
           UNCHANGED <<qopened, qopen>>, qclose' = "closed" <=> qclose = "closed",
           \/ UNCHANGED qreader
           \/ \E r \in QReaders, to \in {"load", "read", "exit"} :
                qreader[r] # "callback" /\ qreader' = [qreader EXCEPT ![r] = to]
    PROVE  UNCHANGED QuicLink!vars
<1>1. QuicInCallback' <=> QuicInCallback
  BY DEF QuicInCallback, QuicIInv, QuicTypeOK
<1> QED
  BY <1>1 DEF QuicLink!vars, QuicInCallback

LEMMA QuicReaderLink ==
    ASSUME QuicIInv, NEW r \in QReaders, QuicReader(r)
    PROVE  [QuicLink!Next]_(QuicLink!vars)
<1>1. CASE QuicLoad(r) \/ QuicReadFails(r)
  <2>1. UNCHANGED <<qopened, qopen, qclose>>
    BY <1>1 DEF QuicLoad, QuicReadFails, qConnVars
  <2>2. \E to \in {"load", "read", "exit"} :
          qreader[r] # "callback" /\ qreader' = [qreader EXCEPT ![r] = to]
    BY <1>1 DEF QuicLoad, QuicReadFails
  <2> QED
    BY <2>1, <2>2, QuicOtherLink
<1> QED
  BY <1>1, QuicFrameLink, QuicReaderExitLink DEF QuicReader

LEMMA QuicPublishLink == ASSUME QuicIInv, QuicPublish PROVE UNCHANGED QuicLink!vars
<1>1. UNCHANGED <<qopened, qopen, qclose>>
  BY DEF QuicPublish
<1>2. \E r \in QReaders, to \in {"load", "read", "exit"} :
        qreader[r] # "callback" /\ qreader' = [qreader EXCEPT ![r] = to]
  BY DEF QuicPublish
<1> QED
  BY <1>1, <1>2, QuicOtherLink

LEMMA QuicLinkNext ==
    ASSUME QuicIInv, [QuicNext]_quicVars PROVE [QuicLink!Next]_(QuicLink!vars)
<1>1. CASE \/ QuicCheck \/ QuicDialFails \/ QuicPeerBreaks \/ QuicCloseStart
           \/ UNCHANGED quicVars
           \/ \E s \in QSenders : QuicSend(s) \/ QuicWriteLength(s) \/ QuicWritePayload(s)
  <2>1. UNCHANGED <<qopened, qopen, qreader>> /\ (qclose' = "closed" <=> qclose = "closed")
    BY <1>1 DEF QuicCheck, QuicDialFails, QuicPeerBreaks, QuicCloseStart, QuicSend,
       QuicWriteLength, QuicWritePayload, quicVars, qConnVars, qReadVars
  <2> QED
    BY <2>1, QuicOtherLink
<1>2. CASE QuicPublish
  BY <1>2, QuicPublishLink
<1> QED
  BY <1>1, <1>2, QuicDialLink, QuicCloseLink, QuicReaderLink DEF QuicNext
=============================================================================
