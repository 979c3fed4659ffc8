----------------------------- MODULE Transports -----------------------------
(***************************************************************************)
(* CreateTransport (sdk/transport/transport.go): the mode of the options   *)
(* picks the one transport a client has for its life.  The WebSocket       *)
(* transport has a specification of its own (WsTransport), because it      *)
(* interacts with the client's handshake.                                  *)
(***************************************************************************)
EXTENDS HttpTransport, GrpcTransport, QuicTransport

VARIABLE mode  \* options.Mode; "h2" stands for "h2", "http2", "h3" and "http3"

vars == <<mode, httpVars, grpcVars, quicVars>>

Init ==
    /\ mode \in {"h2", "grpc", "quic"}
    /\ HttpInit /\ GrpcInit /\ QuicInit

Http == mode = "h2" /\ HttpNext /\ UNCHANGED <<mode, grpcVars, quicVars>>
Grpc == mode = "grpc" /\ GrpcNext /\ UNCHANGED <<mode, httpVars, quicVars>>
Quic == mode = "quic" /\ QuicNext /\ UNCHANGED <<mode, httpVars, grpcVars>>

Next == Http \/ Grpc \/ Quic

(* The actions that have to happen are disabled in a transport that was      *)
(* never connected, so the fairness of the other two asks nothing.           *)
Spec == Init /\ [][Next]_vars /\ HttpFairness /\ GrpcFairness /\ QuicFairness

-----------------------------------------------------------------------------
(* Properties of every transport. *)

(* Every variable has its type. *)
TypeOK == mode \in {"h2", "grpc", "quic"} /\ HttpTypeOK /\ GrpcTypeOK /\ QuicTypeOK

(* Frames are received by one goroutine, however Connect, reconnects and     *)
(* Close interleave.                                                         *)
SingleReader == OneReceiver /\ OneQuicReader

(* No connection is left open that the transport does not hold.              *)
NoLostConn == NoLeakedStream /\ NoQuicOrphan

(* A connection always has the goroutines that notice its end and keep it    *)
(* alive.                                                                    *)
Attended == GrpcAttended /\ KeptAlive /\ ConnectedIsRead

(* Both transports with a reader of their own keep the promise of            *)
(* TransportLink.                                                            *)
ImplementsLink == GrpcImplementsLink /\ QuicImplementsLink

(* A stream that fails is replaced by one that works, whatever the number of  *)
(* event streams repeated calls of Connect have started.  (Over QUIC it is    *)
(* not: see QuicReconnects.)                                                  *)
Recovers ==
    /\ \A k \in HConnects : mode = "h2" /\ HttpBroken(k) ~> HttpRecovered(k)
    /\ mode = "grpc" /\ GrpcBroken ~> GrpcRecovered

(* The same of gRPC without the exception Recovers makes for a stream that   *)
(* could not be opened: the README's "Automatic Reconnection".               *)
GrpcReconnects ==
    mode = "grpc" /\ GrpcBroken ~> gstream \in glive \/ gctxDone \/ gpanic

(* The same of QUIC, which the README's list of transports with "Automatic   *)
(* Reconnection" names, too.  The code does not keep this.                   *)
QuicReconnects ==
    mode = "quic" /\ QuicBroken ~> QuicRestored

(* After Close every goroutine of the transport ends.                        *)
CloseEndsAll ==
    \/ mode = "h2" /\ HttpClosing
    \/ mode = "grpc" /\ GrpcClosing
    \/ mode = "quic" /\ QuicClosing
    ~>
    \/ mode = "h2" /\ HttpEnded
    \/ mode = "grpc" /\ GrpcEnded
    \/ mode = "quic" /\ QuicEnded
=============================================================================
