-------------------------- MODULE TransportsProofs --------------------------
(***************************************************************************)
(* The theorems about the transports CreateTransport can make: the         *)
(* invariant of each is an invariant of all, because a step of one leaves  *)
(* the others alone.                                                       *)
(***************************************************************************)
EXTENDS Transports, HttpTransportProofs, GrpcTransportProofs, QuicTransportProofs

IInv == mode \in {"h2", "grpc", "quic"} /\ HttpIInv /\ GrpcIInv /\ QuicIInv

(* A step of any transport is a step or a stutter of each. *)
LEMMA StepOfEach ==
    ASSUME [Next]_vars
    PROVE  [HttpNext]_httpVars /\ [GrpcNext]_grpcVars /\ [QuicNext]_quicVars /\
           (mode \in {"h2", "grpc", "quic"} => mode' \in {"h2", "grpc", "quic"})
<1>1. CASE Http
  BY <1>1 DEF Http
<1>2. CASE Grpc
  BY <1>2 DEF Grpc
<1>3. CASE Quic
  BY <1>3 DEF Quic
<1>4. CASE UNCHANGED vars
  BY <1>4 DEF vars
<1> QED
  BY <1>1, <1>2, <1>3, <1>4 DEF Next

(* The inductive invariant holds initially and is kept by every step. *)
LEMMA InitIInv == Init => IInv
BY HttpInitIInv, GrpcInitIInv, QuicInitIInv DEF Init, IInv

LEMMA NextIInv == IInv /\ [Next]_vars => IInv'
BY StepOfEach, HttpNextIInv, GrpcNextIInv, QuicNextIInv DEF IInv

LEMMA Invariant == Spec => []IInv
<1> QED
  BY InitIInv, NextIInv, PTL DEF Spec

(* Every variable of every transport has its type. *)
THEOREM TypeCorrect == Spec => []TypeOK
<1>1. IInv => TypeOK
  BY DEF IInv, TypeOK, HttpIInv, GrpcIInv, QuicIInv
<1> QED
  BY <1>1, Invariant, PTL

(* At any moment one goroutine at most hands received frames to the client,  *)
(* whatever the order of connects, reconnects and Close.                     *)
THEOREM OneReceiverEver == Spec => []SingleReader
<1>1. IInv => SingleReader
  BY GrpcOneReceiver DEF IInv, SingleReader, QuicIInv
<1> QED
  BY <1>1, Invariant, PTL

(* No stream or connection is left open that the transport no longer holds.  *)
THEOREM NothingLeaks == Spec => []NoLostConn
<1>1. IInv => NoLostConn
  BY DEF IInv, NoLostConn, GrpcIInv, QuicIInv
<1> QED
  BY <1>1, Invariant, PTL

(* A connection the transport holds has the goroutines that read it, notice  *)
(* its end and keep it alive.                                                *)
THEOREM AlwaysAttended == Spec => []Attended
<1>1. IInv => Attended
  BY DEF IInv, Attended, GrpcIInv, QuicIInv
<1> QED
  BY <1>1, Invariant, PTL

(* Every pooled buffer SendFrame took is queued, with a worker, or has been  *)
(* given back once.                                                          *)
THEOREM BuffersReturned == Spec => []BuffersAccounted
<1>1. IInv => BuffersAccounted
  BY DEF IInv, HttpIInv
<1> QED
  BY <1>1, Invariant, PTL

(* What the QUIC transport has written and read keeps a frame's prefix with  *)
(* its body.                                                                 *)
THEOREM FramesStayWhole == Spec => []FramesWhole
<1>1. IInv => FramesWhole
  BY DEF IInv, QuicIInv
<1> QED
  BY <1>1, Invariant, PTL

(* The HTTP transports' queues, workers and Close implement FrameLane: the    *)
(* frames of a priority are posted in the order they were accepted, each      *)
(* reaches the server at most once, and only one whose request ended without  *)
(* an answer can reach it behind a later one, or after Close has returned.    *)
THEOREM ImplementsLane == Spec => HttpImplementsLane
<1>1. Init => Lanes!Init
  BY HttpLaneInit DEF Init
<1>2. IInv /\ [Next]_vars => [Lanes!Next]_(Lanes!vars)
  BY StepOfEach, HttpLaneNext DEF IInv
<1> QED
  BY <1>1, <1>2, Invariant, PTL DEF Spec, HttpImplementsLane, Lanes!Spec

(* No drop, reconnect or second Connect makes recvLoop find a nil stream:    *)
(* only Close can.                                                           *)
THEOREM ReceiverFindsStream == Spec => []NilStreamOnlyAfterClose
<1>1. Init => NilStreamOnlyAfterClose
  BY GrpcInitNil DEF Init
<1>2. IInv /\ NilStreamOnlyAfterClose /\ [Next]_vars => NilStreamOnlyAfterClose'
  BY StepOfEach, GrpcNextNil DEF IInv
<1> QED
  BY <1>1, <1>2, Invariant, PTL DEF Spec

(* The gRPC transport's receivers, which reconnect each for itself, keep the *)
(* promise of TransportLink: one connection after the other, and never a     *)
(* frame of one while the client still handles a frame of the last.          *)
THEOREM GrpcKeepsLinkPromise == Spec => GrpcImplementsLink
<1>1. Init => GrpcLink!Init
  BY GrpcLinkInit DEF Init
<1>2. IInv /\ [Next]_vars => [GrpcLink!Next]_(GrpcLink!vars)
  BY StepOfEach, GrpcLinkNext DEF IInv
<1> QED
  BY <1>1, <1>2, Invariant, PTL DEF Spec, GrpcImplementsLink, GrpcLink!Spec

(* So does the QUIC transport, although its Connect checks and publishes in  *)
(* two locked sections and its Close waits for nobody.                       *)
THEOREM QuicKeepsLinkPromise == Spec => QuicImplementsLink
<1>1. Init => QuicLink!Init
  BY QuicLinkInit DEF Init
<1>2. IInv /\ [Next]_vars => [QuicLink!Next]_(QuicLink!vars)
  BY StepOfEach, QuicLinkNext DEF IInv
<1> QED
  BY <1>1, <1>2, Invariant, PTL DEF Spec, QuicImplementsLink, QuicLink!Spec

(* One connection at a time, the next one behind the last frame of the one    *)
(* before it, and none after Close: for both transports with a reader.       *)
THEOREM KeepsLinkPromise == Spec => ImplementsLink
BY GrpcKeepsLinkPromise, QuicKeepsLinkPromise DEF ImplementsLink
=============================================================================
