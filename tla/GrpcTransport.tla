--------------------------- MODULE GrpcTransport ---------------------------
(***************************************************************************)
(* The gRPC transport (sdk/transport/grpc_transport.go): Connect, the      *)
(* recvLoop and the heartbeat goroutine that each successful Connect       *)
(* starts, the reconnect that a recvLoop runs when its stream fails,       *)
(* SendFrame, which keeps g.mu while the stream takes the frame, and       *)
(* Close.  A connection and its one stream have one number; 0 is nil.      *)
(* What happens under g.mu is one step, except for a Send.                 *)
(***************************************************************************)
EXTENDS Naturals, FiniteSets

CONSTANTS
    GLoops,      \* slots for recvLoop goroutines
    GMaxConns,   \* bound: streams opened in a behaviour
    GMaxCalls,   \* bound: calls of Connect by the application
    GMaxSends,   \* bound: calls of SendFrame that reach the stream
    GMaxBackoff  \* maxBackoff, in units of the initial one

ASSUME GrpcAssumption ==
    /\ GLoops # {}
    /\ GMaxConns \in Nat \ {0} /\ GMaxCalls \in Nat /\ GMaxSends \in Nat
    /\ GMaxBackoff \in Nat \ {0}

VARIABLES
    gconn,     \* g.conn
    gstream,   \* g.stream
    gopened,   \* streams opened so far
    gopen,     \* connections the client has not closed
    glive,     \* those whose stream works
    gcalls,    \* calls of Connect by the application so far
    gloop,     \* where each recvLoop is
    gon,       \* the stream each recvLoop waits on
    gbeats,    \* heartbeat goroutines
    gsend,     \* who holds g.mu in stream.Send
    gsends,    \* how often that was the case so far
    gbackoff,  \* g.backoff, in units of the initial one
    gctxDone,  \* g.ctx is cancelled: Close has run
    gpanic     \* a nil g.stream was used

gConnVars == <<gconn, gstream, gopened, gopen, glive>>
gLoopVars == <<gloop, gon>>
gSendVars == <<gsend, gsends>>
grpcVars == <<gConnVars, gcalls, gLoopVars, gbeats, gSendVars, gbackoff, gctxDone, gpanic>>

Reading == {"load", "recv", "callback"}
Reconnecting == {"failed", "backoff", "dial"}

GrpcInit ==
    /\ gconn = 0 /\ gstream = 0 /\ gopened = 0 /\ gopen = {} /\ glive = {}
    /\ gcalls = 0
    /\ gloop = [p \in GLoops |-> "none"] /\ gon = [p \in GLoops |-> 0]
    /\ gbeats = 0 /\ gsend = "no" /\ gsends = 0 /\ gbackoff = 1
    /\ gctxDone = FALSE /\ gpanic = FALSE

(* g.mu is free. *)
Unlocked == ~gpanic /\ gsend = "no"

(* The stream could not be opened: conn was closed, but g.conn keeps it. *)
Wedged == gconn # 0 /\ gstream = 0

-----------------------------------------------------------------------------
(* Connect, called by the application or by reconnect. *)

(* Mutant: a connection that is already there is not looked for. *)
GrpcOpenAnyway ==
    /\ ~gctxDone /\ gopened < GMaxConns
    /\ gopened' = gopened + 1 /\ gconn' = gopened' /\ gstream' = gopened'
    /\ gopen' = gopen \cup {gopened'} /\ glive' = glive \cup {gopened'}
    /\ gbeats' = gbeats + 1

GrpcOpen ==
    /\ gconn = 0 /\ ~gctxDone /\ gopened < GMaxConns
    /\ gopened' = gopened + 1 /\ gconn' = gopened' /\ gstream' = gopened'
    /\ gopen' = gopen \cup {gopened'} /\ glive' = glive \cup {gopened'}
    /\ gbeats' = gbeats + 1

(* Signal fails, as it always does once the context is cancelled. *)
GrpcOpenFails ==
    /\ gconn = 0
    /\ gconn' = gopened + 1
    /\ UNCHANGED <<gstream, gopened, gopen, glive, gbeats>>

GrpcConnected == gconn # 0 /\ UNCHANGED <<gConnVars, gbeats>>

(* The first error, of the dial itself, changes nothing and is left out. *)
GrpcAppConnect ==
    /\ Unlocked /\ gcalls < GMaxCalls
    /\ gcalls' = gcalls + 1
    /\ \/ /\ GrpcOpen
          /\ \E p \in GLoops : gloop[p] = "none" /\ gloop' = [gloop EXCEPT ![p] = "load"]
       \/ (GrpcOpenFails \/ GrpcConnected) /\ UNCHANGED gloop
    /\ UNCHANGED <<gon, gSendVars, gbackoff, gctxDone, gpanic>>

(* The server or the network ends a stream. *)
GrpcPeerBreaks ==
    /\ ~gpanic /\ gopened < GMaxConns
    /\ \E g \in glive : glive' = glive \ {g}
    /\ UNCHANGED <<gconn, gstream, gopened, gopen, gcalls, gLoopVars, gbeats, gSendVars,
                   gbackoff, gctxDone, gpanic>>

-----------------------------------------------------------------------------
(* recvLoop and, on the same goroutine, reconnect. *)

(* g.stream is read without the lock before each Recv. *)
GrpcLoad(p) ==
    /\ ~gpanic /\ gloop[p] = "load"
    /\ IF gstream = 0
       THEN gpanic' = TRUE /\ UNCHANGED gLoopVars
       ELSE /\ gloop' = [gloop EXCEPT ![p] = "recv"]
            /\ gon' = [gon EXCEPT ![p] = gstream]
            /\ UNCHANGED gpanic
    /\ UNCHANGED <<gConnVars, gcalls, gbeats, gSendVars, gbackoff, gctxDone>>

(* A frame: decoded and handed to the client, on this goroutine. *)
GrpcFrame(p) ==
    /\ ~gpanic
    /\ \/ gloop[p] = "recv" /\ gon[p] \in glive /\ gloop' = [gloop EXCEPT ![p] = "callback"]
       \/ gloop[p] = "callback" /\ gloop' = [gloop EXCEPT ![p] = "load"]
    /\ UNCHANGED <<gConnVars, gcalls, gon, gbeats, gSendVars, gbackoff, gctxDone, gpanic>>

GrpcRecvFails(p) ==
    /\ ~gpanic /\ gloop[p] = "recv" /\ gon[p] \notin glive
    /\ gloop' = [gloop EXCEPT ![p] = "failed"]
    /\ UNCHANGED <<gConnVars, gcalls, gon, gbeats, gSendVars, gbackoff, gctxDone, gpanic>>

(* reconnect closes the connection that g.conn holds. *)
GrpcDrop(p) ==
    /\ Unlocked /\ gloop[p] = "failed"
    /\ gconn' = 0 /\ gstream' = 0
    /\ gopen' = gopen \ {gconn} /\ glive' = glive \ {gconn}
    /\ gloop' = [gloop EXCEPT ![p] = "backoff"]
    /\ UNCHANGED <<gopened, gcalls, gon, gbeats, gSendVars, gbackoff, gctxDone, gpanic>>

(* The select on the context and the timer. *)
GrpcBackoffEnds(p) ==
    /\ ~gpanic /\ gloop[p] = "backoff"
    /\ gloop' = [gloop EXCEPT ![p] = "dial"]
    /\ UNCHANGED <<gConnVars, gcalls, gon, gbeats, gSendVars, gbackoff, gctxDone, gpanic>>

GrpcBackoffStops(p) ==
    /\ ~gpanic /\ gloop[p] = "backoff" /\ gctxDone
    /\ gloop' = [gloop EXCEPT ![p] = "none"]
    /\ UNCHANGED <<gConnVars, gcalls, gon, gbeats, gSendVars, gbackoff, gctxDone, gpanic>>

(* Mutant: the stream does not depend on the transport's context. *)
GrpcRetryOpensUnbound(p) ==
    /\ Unlocked /\ gloop[p] = "dial"
    /\ gconn = 0 /\ gopened < GMaxConns
    /\ gopened' = gopened + 1 /\ gconn' = gopened' /\ gstream' = gopened'
    /\ gopen' = gopen \cup {gopened'} /\ glive' = glive \cup {gopened'}
    /\ gbeats' = gbeats + 1
    /\ gloop' = [gloop EXCEPT ![p] = "load"] /\ gbackoff' = 1
    /\ UNCHANGED <<gcalls, gon, gSendVars, gctxDone, gpanic>>

(* Connect succeeds: the old goroutine returns, the new one takes its slot. *)
GrpcRetryOpens(p) ==
    /\ Unlocked /\ gloop[p] = "dial"
    /\ GrpcOpen
    /\ gloop' = [gloop EXCEPT ![p] = "load"] /\ gbackoff' = 1
    /\ UNCHANGED <<gcalls, gon, gSendVars, gctxDone, gpanic>>

(* Mutant: recvLoop goes on after a reconnect that succeeds. *)
GrpcRetryFindsConnContinues(p) ==
    /\ Unlocked /\ gloop[p] = "dial"
    /\ GrpcConnected
    /\ gloop' = [gloop EXCEPT ![p] = "load"] /\ gbackoff' = 1
    /\ UNCHANGED <<gcalls, gon, gSendVars, gctxDone, gpanic>>

(* Connect finds g.conn set and reports success without doing anything. *)
GrpcRetryFindsConn(p) ==
    /\ Unlocked /\ gloop[p] = "dial"
    /\ GrpcConnected
    /\ gloop' = [gloop EXCEPT ![p] = "none"] /\ gbackoff' = 1
    /\ UNCHANGED <<gcalls, gon, gSendVars, gctxDone, gpanic>>

(* Mutant: the doubled backoff has no cap. *)
GrpcRetryFailsUncapped(p) ==
    /\ Unlocked /\ gloop[p] = "dial" /\ gconn = 0
    /\ GrpcOpenFails \/ UNCHANGED <<gConnVars, gbeats>>
    /\ gloop' = [gloop EXCEPT ![p] = "backoff"]
    /\ gbackoff' = 2 * gbackoff
    /\ UNCHANGED <<gcalls, gon, gSendVars, gctxDone, gpanic>>

(* The dial fails, or the stream does. *)
GrpcRetryFails(p) ==
    /\ Unlocked /\ gloop[p] = "dial" /\ gconn = 0
    /\ GrpcOpenFails \/ UNCHANGED <<gConnVars, gbeats>>
    /\ gloop' = [gloop EXCEPT ![p] = "backoff"]
    /\ gbackoff' = IF 2 * gbackoff < GMaxBackoff THEN 2 * gbackoff ELSE GMaxBackoff
    /\ UNCHANGED <<gcalls, gon, gSendVars, gctxDone, gpanic>>

-----------------------------------------------------------------------------
(* SendFrame.  Send may wait until the peer reads, with g.mu locked. *)

GrpcSend(who) ==
    /\ Unlocked /\ gconn # 0 /\ gstream # 0 /\ gsends < GMaxSends
    /\ who = "beat" => gbeats > 0
    /\ gsend' = who /\ gsends' = gsends + 1
    /\ UNCHANGED <<gConnVars, gcalls, gLoopVars, gbeats, gbackoff, gctxDone, gpanic>>

(* Mutant: a heartbeat goroutine sends one heartbeat. *)
GrpcSendEndsBeat ==
    /\ ~gpanic /\ gsend # "no"
    /\ gsend' = "no"
    /\ gbeats' = IF gsend = "beat" THEN gbeats - 1 ELSE gbeats
    /\ UNCHANGED <<gConnVars, gcalls, gLoopVars, gsends, gbackoff, gctxDone, gpanic>>

(* A heartbeat that fails ends its goroutine; other senders just see the     *)
(* error.                                                                    *)
GrpcSendEnds ==
    /\ ~gpanic /\ gsend # "no"
    /\ gsend' = "no"
    /\ \/ UNCHANGED gbeats
       \/ gsend = "beat" /\ gstream \notin glive /\ gbeats' = gbeats - 1
    /\ UNCHANGED <<gConnVars, gcalls, gLoopVars, gsends, gbackoff, gctxDone, gpanic>>

(* The heartbeat finds no stream, or sees the cancelled context. *)
GrpcBeatStops ==
    /\ Unlocked /\ gbeats > 0
    /\ gctxDone \/ gconn = 0 \/ gstream = 0
    /\ gbeats' = gbeats - 1
    /\ UNCHANGED <<gConnVars, gcalls, gLoopVars, gSendVars, gbackoff, gctxDone, gpanic>>

GrpcClose ==
    /\ Unlocked /\ ~gctxDone /\ gcalls > 0
    /\ gconn' = 0 /\ gstream' = 0
    /\ gopen' = gopen \ {gconn} /\ glive' = glive \ {gconn}
    /\ gctxDone' = TRUE
    /\ UNCHANGED <<gopened, gcalls, gLoopVars, gbeats, gSendVars, gbackoff, gpanic>>

-----------------------------------------------------------------------------
GrpcLoop(p) ==
    \/ GrpcLoad(p) \/ GrpcFrame(p) \/ GrpcRecvFails(p) \/ GrpcDrop(p)
    \/ GrpcBackoffEnds(p) \/ GrpcBackoffStops(p) \/ GrpcRetryOpens(p)
    \/ GrpcRetryFindsConn(p) \/ GrpcRetryFails(p)

GrpcNext ==
    \/ GrpcAppConnect \/ GrpcPeerBreaks \/ GrpcSendEnds \/ GrpcBeatStops \/ GrpcClose
    \/ \E who \in {"client", "beat"} : GrpcSend(who)
    \/ \E p \in GLoops : GrpcLoop(p)

(* Goroutines run, and get g.mu when they wait for it, for Send returns (a   *)
(* peer reads) and is called finitely often.  A server asked for ever opens  *)
(* a stream, and the select of the backoff, in which the cancelled context   *)
(* is ready each time, takes it in the end.                                  *)
GrpcFairness ==
    /\ WF_grpcVars(GrpcSendEnds) /\ WF_grpcVars(GrpcBeatStops)
    /\ \A p \in GLoops :
        /\ WF_grpcVars(GrpcLoop(p) /\ (gloop[p] = "recv" => gon[p] \notin glive))
        /\ SF_grpcVars(GrpcRetryOpens(p) \/ GrpcBackoffStops(p))

GrpcSpec == GrpcInit /\ [][GrpcNext]_grpcVars /\ GrpcFairness

-----------------------------------------------------------------------------
(* Properties. *)

(* Every variable has its type. *)
GrpcTypeOK ==
    /\ gopened \in 0..GMaxConns
    /\ gconn \in 0..(gopened + 1) /\ gstream \in 0..gopened
    /\ glive \subseteq gopen /\ gopen \subseteq 1..gopened
    /\ gcalls \in 0..GMaxCalls
    /\ gloop \in [GLoops -> {"none"} \cup Reading \cup Reconnecting]
    /\ gon \in [GLoops -> 0..gopened]
    /\ gbeats \in Nat /\ gsend \in {"no", "client", "beat"} /\ gsends \in Nat
    /\ gbackoff \in 1..GMaxBackoff
    /\ gctxDone \in BOOLEAN /\ gpanic \in BOOLEAN

(* However Connect, the reconnects of several goroutines and Close           *)
(* interleave, at most one goroutine receives.                               *)
OneReceiver == \A p, q \in GLoops : gloop[p] \in Reading /\ gloop[q] \in Reading => p = q

(* Every connection that is open is the one g.conn holds: no reconnect and   *)
(* no Close leaves one behind, and after Close none is ever open.            *)
NoLeakedStream == gopen \subseteq {gconn} \ {0} /\ (gctxDone => gopen = {})

(* Until Close a stream always has a goroutine that receives from it or has  *)
(* seen it fail, and a transport that has lost its connection has one that   *)
(* reconnects; unless a stream could not be opened.                          *)
GrpcAttended ==
    gopened > 0 /\ ~gctxDone /\ ~Wedged =>
        \E p \in GLoops :
            IF gstream # 0 THEN gloop[p] \in Reading \/ gloop[p] = "failed"
                           ELSE gloop[p] \in {"backoff", "dial"}

(* A stream that works has a heartbeat goroutine, although those that find   *)
(* no stream, or a broken one, end for good and none of them knows for which *)
(* stream it was started.                                                    *)
KeptAlive == gstream \in glive /\ ~gctxDone => gbeats > 0

(* recvLoop loads g.stream without the lock; whatever Connect and the        *)
(* reconnects do in between, it never finds nil there before Close is called.*)
NilStreamOnlyAfterClose == gpanic => gctxDone

(* However Connect, reconnects and Close interleave, the transport keeps the *)
(* promise of TransportLink; Close leaves no connection, but does not wait   *)
(* for the goroutine that is handling a frame.                               *)
GrpcLink == INSTANCE TransportLink WITH
    Drops <- TRUE, Waits <- FALSE,
    opened <- gopened, links <- gopen,
    handling <- \E p \in GLoops : gloop[p] = "callback",
    shut <- gctxDone

GrpcImplementsLink == GrpcLink!Spec

(* The stream has failed; there is one that works, or one could not be       *)
(* opened, or Close came.                                                    *)
GrpcBroken == gstream # 0 /\ gstream \notin glive
GrpcRecovered == gstream \in glive \/ Wedged \/ gctxDone \/ gpanic

(* Close has run; every goroutine has ended, whatever number of receivers,   *)
(* reconnects and heartbeats there were.                                     *)
GrpcClosing == gctxDone
GrpcEnded == gpanic \/ (gbeats = 0 /\ \A p \in GLoops : gloop[p] = "none")
=============================================================================
