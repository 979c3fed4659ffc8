--------------------------- MODULE HttpTransport ---------------------------
(***************************************************************************)
(* The HTTP/2 and HTTP/3 transports (sdk/transport/http2_transport.go;     *)
(* http3_transport.go is the same code over another http.Client): three    *)
(* send queues with a worker each that posts one frame at a time, the      *)
(* event stream from which the server's frames come, receiveLoop that      *)
(* hands them to the client, and Close.  A call of Client.Connect calls    *)
(* Connect, which has no guard and starts another sseLoop each time, then  *)
(* SendFrame for HELLO and AUTH, and then starts a sendLoop, which calls   *)
(* SendFrame too: one caller per call of Client.Connect.  The application  *)
(* calls it again once the call before has returned.                       *)
(*                                                                         *)
(* A frame is its number among those its lane has accepted.                *)
(***************************************************************************)
EXTENDS Integers, Sequences

CONSTANTS
    HLanes,      \* the send queues used: "high", "normal", "low"
    HQCap,       \* capacity of a send queue
    HRecvCap,    \* capacity of recvCh
    HMaxBackoff, \* maxBackoff, in units of the initial one
    HMaxCalls    \* bounds: calls of SendFrame by each call of Client.Connect
                 \* and its sendLoop, and so the number of those calls

ASSUME HttpAssumption ==
    /\ HLanes \subseteq {"high", "normal", "low"} /\ "normal" \in HLanes
    /\ HQCap \in Nat \ {0} /\ HRecvCap \in Nat \ {0}
    /\ HMaxBackoff \in Nat \ {0}
    /\ HMaxCalls \in Seq(Nat)

HConnects == DOMAIN HMaxCalls

VARIABLES
    hclose,    \* where Close is: "waiting" after it has closed the channels
    hcall,     \* per Connect, its caller: "none", "idle", "stopped", or the lane
               \* of the frame it holds between the check of closed and the select
    hcalls,    \* per Connect: calls of SendFrame so far
    hq,        \* sendHighCh, sendNormalCh, sendLowCh
    hgiven,    \* per lane: frames accepted
    hshake,    \* which frames of the lane "normal" are HELLO and AUTH
    hworker,   \* where each sendWorker is
    hhand,     \* the frame it holds, 0 if none
    hstray,    \* per lane: frames of requests that have ended for the client
               \* and may still reach the server
    harrived,  \* history, per lane: the frames the server has received
    hbuffers,  \* history, per lane: buffers EncodePooled has taken from the
               \* pool that ReleaseEncoded has not given back
    hsse,      \* per Connect: where its sseLoop is
    hbackoff,  \* h.backoff of all of them, in units of the initial one
    hrecv,     \* recvCh
    hloop,     \* where receiveLoop is
    hpanic     \* a send on a closed channel has ended the process

hSendVars ==
    <<hcall, hcalls, hq, hgiven, hshake, hworker, hhand, hstray, harrived, hbuffers>>
hStreamVars == <<hsse, hbackoff>>
httpVars == <<hclose, hSendVars, hStreamVars, hrecv, hloop, hpanic>>

hcancelled == hclose # "no"
hchClosed == hclose \in {"waiting", "closed"}

(* What recvCh holds: a FrameRoute or another frame that came as an answer, *)
(* and events, which may be frames of any type.                             *)
Item == {"route", "answer", "event"}

(* The frames of the handshakes carry no priority. *)
IsHello(l, n) == l = "normal" /\ n \in hshake.hello
IsAuth(l, n) == l = "normal" /\ n \in hshake.auth

HttpInit ==
    /\ hclose = "no" /\ hpanic = FALSE
    /\ hcall = [k \in HConnects |-> "none"] /\ hcalls = [k \in HConnects |-> 0]
    /\ hq = [l \in HLanes |-> <<>>] /\ hgiven = [l \in HLanes |-> 0]
    /\ hshake = [hello |-> {}, auth |-> {}]
    /\ hworker = [l \in HLanes |-> "idle"] /\ hhand = [l \in HLanes |-> 0]
    /\ hstray = [l \in HLanes |-> {}] /\ harrived = [l \in HLanes |-> <<>>]
    /\ hbuffers = [l \in HLanes |-> 0]
    /\ hsse = [k \in HConnects |-> "none"]
    /\ hbackoff = 1 /\ hrecv = <<>> /\ hloop = "loop"

-----------------------------------------------------------------------------
(* The callers. *)

(* The k-th call of Client.Connect has returned. *)
HttpReturned(k) ==
    \/ hcall[k] = "stopped"
    \/ hcalls[k] = 2 /\ hcall[k] = "idle"
    \/ hcalls[k] > 2

(* Connect looks at nothing; after Close its sseLoop ends at once. *)
HttpConnect(k) ==
    /\ ~hpanic /\ hcall[k] = "none"
    /\ \A j \in 1..(k - 1) : HttpReturned(j)
    /\ hcall' = [hcall EXCEPT ![k] = "idle"]
    /\ hsse' = [hsse EXCEPT ![k] = IF hcancelled THEN "done" ELSE "dial"]
    /\ UNCHANGED <<hclose, hcalls, hq, hgiven, hshake, hworker, hhand, hstray,
                   harrived, hbuffers, hbackoff, hrecv, hloop, hpanic>>

(* A call of SendFrame that is refused; one of the handshake is an error of  *)
(* Connect, and its sendLoop does not start.                                 *)
HttpRefused(k, calls) ==
    hcall' = [hcall EXCEPT ![k] = IF calls <= 2 THEN "stopped" ELSE "idle"]

(* First half of SendFrame: the check of closed, under closeMu, which Close *)
(* holds from its start to its end; a caller that finds it held waits and   *)
(* then finds closed set.                                                   *)
HttpCall(k, l) ==
    /\ ~hpanic /\ hcall[k] = "idle"
    /\ hcalls[k] < HMaxCalls[k] /\ hcalls' = [hcalls EXCEPT ![k] = @ + 1]
    /\ hcalls[k] < 2 => l = "normal"
    /\ \/ hclose = "no" /\ hcall' = [hcall EXCEPT ![k] = l]
       \/ hclose = "closed" /\ HttpRefused(k, hcalls[k] + 1)
    /\ UNCHANGED <<hclose, hq, hgiven, hshake, hworker, hhand, hstray, harrived,
                   hbuffers, hStreamVars, hrecv, hloop, hpanic>>

(* Second half: encode, and a select that takes any ready case.  A closed    *)
(* channel is a ready case that panics.                                      *)
HttpEnqueue(k) ==
    /\ ~hpanic /\ hcall[k] \in HLanes
    /\ LET l == hcall[k]
           n == hgiven[l] + 1
       IN  /\ ~hchClosed /\ Len(hq[l]) < HQCap
           /\ hq' = [hq EXCEPT ![l] = Append(@, n)]
           /\ hgiven' = [hgiven EXCEPT ![l] = n]
           /\ hshake' = [hello |-> IF hcalls[k] = 1 THEN hshake.hello \cup {n} ELSE hshake.hello,
                         auth |-> IF hcalls[k] = 2 THEN hshake.auth \cup {n} ELSE hshake.auth]
           /\ hbuffers' = [hbuffers EXCEPT ![l] = @ + 1]
    /\ hcall' = [hcall EXCEPT ![k] = "idle"]
    /\ UNCHANGED <<hclose, hcalls, hworker, hhand, hstray, harrived, hStreamVars,
                   hrecv, hloop, hpanic>>

(* Mutant: the buffer of a refused frame is forgotten. *)
HttpRefuseLeaks(k) ==
    /\ ~hpanic /\ hcall[k] \in HLanes
    /\ hcancelled \/ Len(hq[hcall[k]]) = HQCap
    /\ hbuffers' = [hbuffers EXCEPT ![hcall[k]] = @ + 1]
    /\ HttpRefused(k, hcalls[k])
    /\ UNCHANGED <<hclose, hcalls, hq, hgiven, hshake, hworker, hhand, hstray,
                   harrived, hStreamVars, hrecv, hloop, hpanic>>

(* The context is cancelled or the queue is full: the buffer goes back. *)
HttpRefuse(k) ==
    /\ ~hpanic /\ hcall[k] \in HLanes
    /\ hcancelled \/ Len(hq[hcall[k]]) = HQCap
    /\ HttpRefused(k, hcalls[k])
    /\ UNCHANGED <<hclose, hcalls, hq, hgiven, hshake, hworker, hhand, hstray,
                   harrived, hbuffers, hStreamVars, hrecv, hloop, hpanic>>

HttpSendPanics(k) ==
    /\ ~hpanic /\ hcall[k] \in HLanes /\ hchClosed
    /\ hpanic' = TRUE
    /\ UNCHANGED <<hclose, hSendVars, hStreamVars, hrecv, hloop>>

-----------------------------------------------------------------------------
(* recvCh: a non-blocking send, which drops the frame when it is full. *)

HttpPush(item) ==
    hrecv' = IF Len(hrecv) < HRecvCap THEN Append(hrecv, item) ELSE hrecv

(* The workers.  A select may go on taking frames after the cancellation,    *)
(* and a closed channel still hands out what it holds.                       *)

HttpTake(l) ==
    /\ ~hpanic /\ hworker[l] = "idle" /\ hq[l] # <<>>
    /\ hhand' = [hhand EXCEPT ![l] = Head(hq[l])]
    /\ hq' = [hq EXCEPT ![l] = Tail(@)]
    /\ hworker' = [hworker EXCEPT ![l] = "posting"]
    /\ UNCHANGED <<hclose, hcall, hcalls, hgiven, hshake, hstray, harrived, hbuffers,
                   hStreamVars, hrecv, hloop, hpanic>>

HttpWorkerStops(l) ==
    /\ ~hpanic /\ hworker[l] = "idle"
    /\ hcancelled
    /\ hworker' = [hworker EXCEPT ![l] = "done"]
    /\ UNCHANGED <<hclose, hcall, hcalls, hq, hgiven, hshake, hhand, hstray, harrived,
                   hbuffers, hStreamVars, hrecv, hloop, hpanic>>

(* Mutant: the request is sent again when its answer is late. *)
HttpPostAgain(l) ==
    /\ ~hpanic /\ hworker[l] \in {"posting", "answered"}
    /\ harrived' = [harrived EXCEPT ![l] = Append(@, hhand[l])]
    /\ hworker' = [hworker EXCEPT ![l] = "answered"]
    /\ UNCHANGED <<hclose, hcall, hcalls, hq, hgiven, hshake, hhand, hstray, hbuffers,
                   hStreamVars, hrecv, hloop, hpanic>>

(* The server receives the request. *)
HttpPost(l) ==
    /\ ~hpanic /\ hworker[l] = "posting"
    /\ harrived' = [harrived EXCEPT ![l] = Append(@, hhand[l])]
    /\ hworker' = [hworker EXCEPT ![l] = "answered"]
    /\ UNCHANGED <<hclose, hcall, hcalls, hq, hgiven, hshake, hhand, hstray, hbuffers,
                   hStreamVars, hrecv, hloop, hpanic>>

(* The worker gives its buffer back and goes to its select. *)
HttpWorkerFree(l) ==
    /\ hworker' = [hworker EXCEPT ![l] = "idle"]
    /\ hhand' = [hhand EXCEPT ![l] = 0]
    /\ hbuffers' = [hbuffers EXCEPT ![l] = @ - 1]

(* A request the server has not received yet is not taken back by its end. *)
HttpStrays(l) ==
    hstray' = IF hworker[l] = "posting"
              THEN [hstray EXCEPT ![l] = @ \cup {hhand[l]}] ELSE hstray

(* Mutant: the request is not bound to the transport's context. *)
HttpPostFailsUnbound(l) ==
    /\ ~hpanic /\ hworker[l] \in {"posting", "answered"} /\ ~hcancelled
    /\ HttpWorkerFree(l) /\ HttpStrays(l)
    /\ UNCHANGED <<hclose, hcall, hcalls, hq, hgiven, hshake, harrived,
                   hStreamVars, hrecv, hloop, hpanic>>

(* No answer, or none that is looked at: an error, the cancellation, a       *)
(* status other than 200, any frame but the handshake's.  The request has no *)
(* timeout.                                                                  *)
HttpPostEnds(l) ==
    /\ ~hpanic /\ hworker[l] \in {"posting", "answered"}
    /\ HttpWorkerFree(l) /\ HttpStrays(l)
    /\ UNCHANGED <<hclose, hcall, hcalls, hq, hgiven, hshake, harrived,
                   hStreamVars, hrecv, hloop, hpanic>>

(* The network delivers what was on the wire, whenever it likes: behind the  *)
(* frames of later requests, and after Close.  It may also lose it.          *)
HttpStrayArrives(l) ==
    /\ \E n \in hstray[l] :
        /\ hstray' = [hstray EXCEPT ![l] = @ \ {n}]
        /\ harrived' = [harrived EXCEPT ![l] = Append(@, n)]
    /\ UNCHANGED <<hclose, hcall, hcalls, hq, hgiven, hshake, hworker, hhand, hbuffers,
                   hStreamVars, hrecv, hloop, hpanic>>

(* The answer to a HELLO is a frame of the server's choice, a FrameRoute     *)
(* perhaps; the one to an AUTH is made into a FrameRoute.  FrameRoute makes  *)
(* the client report the connection.                                         *)
HttpAnswer(l) ==
    /\ ~hpanic /\ hworker[l] = "answered"
    /\ IsHello(l, hhand[l]) \/ IsAuth(l, hhand[l])
    /\ IF hchClosed
       THEN hpanic' = TRUE /\ UNCHANGED <<hworker, hhand, hbuffers, hrecv>>
       ELSE /\ \/ IsHello(l, hhand[l]) /\ HttpPush("answer")
               \/ HttpPush("route")
            /\ HttpWorkerFree(l)
            /\ UNCHANGED hpanic
    /\ UNCHANGED <<hclose, hcall, hcalls, hq, hgiven, hshake, hstray, harrived,
                   hStreamVars, hloop>>

-----------------------------------------------------------------------------
(* The sseLoop of the k-th Connect. *)

Doubled(b) == IF 2 * b < HMaxBackoff THEN 2 * b ELSE HMaxBackoff

HttpStreamOpens(k) ==
    /\ ~hpanic /\ hsse[k] = "dial" /\ ~hcancelled
    /\ hsse' = [hsse EXCEPT ![k] = "read"] /\ hbackoff' = 1
    /\ UNCHANGED <<hclose, hSendVars, hrecv, hloop, hpanic>>

(* Mutant: a stream that cannot be opened is given up. *)
HttpStreamFailsForGood(k) ==
    /\ ~hpanic /\ hsse[k] \in {"dial", "read"}
    /\ hsse' = [hsse EXCEPT ![k] = IF hsse[k] = "dial" THEN "done" ELSE "sleep"]
    /\ UNCHANGED <<hclose, hSendVars, hbackoff, hrecv, hloop, hpanic>>

(* The request fails, has a bad status, or the open stream ends. *)
HttpStreamFails(k) ==
    /\ ~hpanic /\ hsse[k] \in {"dial", "read"}
    /\ hsse' = [hsse EXCEPT ![k] = "sleep"]
    /\ UNCHANGED <<hclose, hSendVars, hbackoff, hrecv, hloop, hpanic>>

(* After the sleep, which a cancellation does not cut short. *)
HttpStreamWakes(k) ==
    /\ ~hpanic /\ hsse[k] = "sleep"
    /\ hbackoff' = Doubled(hbackoff)
    /\ hsse' = [hsse EXCEPT ![k] = IF hcancelled THEN "done" ELSE "dial"]
    /\ UNCHANGED <<hclose, hSendVars, hrecv, hloop, hpanic>>

(* A line has come; the context is looked at once per line. *)
HttpEvent(k) ==
    /\ ~hpanic /\ hsse[k] = "read"
    /\ hsse' = [hsse EXCEPT ![k] = IF hcancelled THEN "done" ELSE "event"]
    /\ UNCHANGED <<hclose, hSendVars, hbackoff, hrecv, hloop, hpanic>>

(* The decoded frame goes to recvCh, which Close may have closed since. *)
HttpEventPush(k) ==
    /\ ~hpanic /\ hsse[k] = "event"
    /\ IF hchClosed
       THEN hpanic' = TRUE /\ UNCHANGED <<hsse, hrecv>>
       ELSE /\ HttpPush("event")
            /\ hsse' = [hsse EXCEPT ![k] = "read"] /\ UNCHANGED hpanic
    /\ UNCHANGED <<hclose, hSendVars, hbackoff, hloop>>

-----------------------------------------------------------------------------
(* receiveLoop. *)

(* The callback handles the frame on this goroutine and returns. *)
HttpReceive ==
    /\ ~hpanic /\ hloop = "loop" /\ hrecv # <<>>
    /\ hrecv' = Tail(hrecv)
    /\ UNCHANGED <<hclose, hSendVars, hStreamVars, hloop, hpanic>>

(* The context is cancelled, or recvCh is closed and empty. *)
HttpReceiveStops ==
    /\ ~hpanic /\ hloop = "loop" /\ hcancelled
    /\ hloop' = "done"
    /\ UNCHANGED <<hclose, hSendVars, hStreamVars, hrecv, hpanic>>

-----------------------------------------------------------------------------
(* Close, called once the client is connected: set closed and cancel, close  *)
(* the channels, wait for the workers.  closeMu is held throughout.          *)

HttpCloseStart ==
    /\ ~hpanic /\ hclose = "no" /\ \E k \in HConnects : hcall[k] # "none"
    /\ hclose' = "cancelled"
    /\ UNCHANGED <<hSendVars, hStreamVars, hrecv, hloop, hpanic>>

HttpCloseChannels ==
    /\ ~hpanic /\ hclose = "cancelled"
    /\ hclose' = "waiting"
    /\ UNCHANGED <<hSendVars, hStreamVars, hrecv, hloop, hpanic>>

HttpCloseFinish ==
    /\ ~hpanic /\ hclose = "waiting"
    /\ \A l \in HLanes : hworker[l] = "done"
    /\ hclose' = "closed"
    /\ UNCHANGED <<hSendVars, hStreamVars, hrecv, hloop, hpanic>>

-----------------------------------------------------------------------------
HttpSender(k) == HttpEnqueue(k) \/ HttpRefuse(k) \/ HttpSendPanics(k)
HttpReceiver == HttpReceive \/ HttpReceiveStops
HttpCloser == HttpCloseChannels \/ HttpCloseFinish

HttpNext ==
    \/ HttpReceiver \/ HttpCloseStart \/ HttpCloser
    \/ \E k \in HConnects :
        \/ HttpConnect(k) \/ HttpSender(k) \/ \E l \in HLanes : HttpCall(k, l)
        \/ HttpStreamOpens(k) \/ HttpStreamFails(k) \/ HttpStreamWakes(k)
        \/ HttpEvent(k) \/ HttpEventPush(k)
    \/ \E l \in HLanes :
        \/ HttpTake(l) \/ HttpWorkerStops(l)
        \/ HttpPost(l) \/ HttpPostEnds(l) \/ HttpStrayArrives(l) \/ HttpAnswer(l)

(* Goroutines run.  A request whose context is cancelled ends; a server that *)
(* is asked for its stream for ever opens it in the end.  The selects that   *)
(* also watch the context need no more than that, because nothing feeds      *)
(* their queues for ever after the cancellation.                             *)
HttpFairness ==
    /\ WF_httpVars(HttpCloser) /\ WF_httpVars(HttpReceiver)
    /\ \A k \in HConnects :
        /\ WF_httpVars(HttpSender(k))
        /\ WF_httpVars(HttpStreamWakes(k) \/ HttpEventPush(k)
                         \/ (HttpStreamFails(k) /\ (hsse[k] = "dial" \/ hcancelled)))
        /\ SF_httpVars(HttpStreamOpens(k))
    /\ \A l \in HLanes :
        WF_httpVars(HttpTake(l) \/ HttpWorkerStops(l) \/ (HttpPostEnds(l) /\ hcancelled))

HttpSpec == HttpInit /\ [][HttpNext]_httpVars /\ HttpFairness

-----------------------------------------------------------------------------
(* Properties. *)

(* Every variable has its type. *)
HttpTypeOK ==
    /\ hclose \in {"no", "cancelled", "waiting", "closed"}
    /\ hcall \in [HConnects -> {"none", "idle", "stopped"} \cup HLanes]
    /\ hcalls \in [HConnects -> Nat]
    /\ hq \in [HLanes -> Seq(Nat)] /\ hgiven \in [HLanes -> Nat]
    /\ hshake \in [hello : SUBSET Nat, auth : SUBSET Nat]
    /\ hworker \in [HLanes -> {"idle", "posting", "answered", "done"}]
    /\ hhand \in [HLanes -> Nat]
    /\ hstray \in [HLanes -> SUBSET Nat] /\ harrived \in [HLanes -> Seq(Nat)]
    /\ hbuffers \in [HLanes -> Int]
    /\ hsse \in [HConnects -> {"none", "dial", "read", "event", "sleep", "done"}]
    /\ hbackoff \in 1..HMaxBackoff
    /\ hrecv \in Seq(Item) /\ Len(hrecv) <= HRecvCap
    /\ hloop \in {"loop", "done"}
    /\ hpanic \in BOOLEAN

(* Every buffer SendFrame took from the pool is in its queue, in the hands   *)
(* of a worker, or has been given back once, whatever failed: no path        *)
(* forgets it or gives it back twice.  (Frames left in a queue by Close keep *)
(* theirs.)                                                                  *)
BuffersAccounted ==
    \A l \in HLanes :
        hbuffers[l] = Len(hq[l]) + (IF hhand[l] # 0 THEN 1 ELSE 0)

(* The frames of a lane that SendFrame accepted, from several callers, are   *)
(* posted one after another in that order, and none again: only one whose    *)
(* request ended without an answer may reach the server behind a later one,  *)
(* or after Close has returned, and each reaches it at most once, although   *)
(* workers may still take frames after the cancellation.                     *)
Lanes == INSTANCE FrameLane WITH
    Lanes <- HLanes, given <- hgiven, arrived <- harrived, adrift <- hstray,
    past <- [l \in HLanes |-> hgiven[l] - Len(hq[l])
                                - (IF hworker[l] = "posting" THEN 1 ELSE 0)],
    shut <- hclose = "closed"
HttpImplementsLane == Lanes!Spec

(* No answer makes the client report the connection (OnConnect, "on          *)
(* successful connection and handshake") before the server has an AUTH.  The *)
(* code does not keep this.                                                  *)
RouteFollowsAuth ==
    (\E i \in DOMAIN hrecv : hrecv[i] = "route") =>
        \E n \in DOMAIN harrived["normal"] : IsAuth("normal", harrived["normal"][n])

(* Close waits for the workers, and "in-flight requests will finish": one    *)
(* under way while it waits does not end before it has reached the server.   *)
(* The code does not keep this.                                              *)
InFlightFinishes ==
    [][\A l \in HLanes :
         hclose = "waiting" /\ hworker[l] = "posting" => hworker'[l] \in {"posting", "answered"}]_httpVars

(* An event stream has failed; it works again, or need not.                  *)
HttpBroken(k) == hsse[k] = "sleep"
HttpRecovered(k) == hsse[k] = "read" \/ hcancelled \/ hpanic

(* Close has begun; it has returned and every goroutine has ended, those it  *)
(* does not wait for (sseLoop, receiveLoop) included.                        *)
HttpClosing == hclose = "cancelled"
HttpEnded ==
    \/ hpanic
    \/ /\ hclose = "closed" /\ hloop = "done"
       /\ \A k \in HConnects : hsse[k] \in {"none", "done"}
       /\ \A l \in HLanes : hworker[l] = "done"
=============================================================================
