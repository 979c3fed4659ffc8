----------------------------- MODULE ClientCore -----------------------------
(***************************************************************************)
(* The client between the application and its transport                    *)
(* (sdk/client/client.go): the three send queues and sendLoop that empties *)
(* them, heartbeatLoop, what the transport's reader goroutine does with    *)
(* received frames, the pool both take frames from (pkg/frame/frame.go),   *)
(* the smoothed round trip time (rtt_manager.go), and Close.               *)
(*                                                                         *)
(* A frame is the object a *Frame points to.  They are all alike, so one   *)
(* of them, "x", is followed, and every other one is "other".              *)
(***************************************************************************)
EXTENDS Integers, Sequences

CONSTANTS
    HighCap, NormalCap, LowCap,  \* capacities of highCh, normalCh, lowCh
    Samples,      \* round trip times that may be measured
    BytesPerUnit, \* 10e6 / 8 bytes per second, per unit of time
    ChunkSize     \* of an upload

ASSUME ClientAssumption ==
    /\ HighCap \in Nat \ {0} /\ NormalCap \in Nat \ {0} /\ LowCap \in Nat \ {0}
    /\ Samples \subseteq Nat \ {0}
    /\ BytesPerUnit \in Nat /\ ChunkSize \in Nat \ {0}

Prios == 0..2  \* 0 = high, 1 = normal, 2 = low
Cap == [p \in Prios |-> IF p = 0 THEN HighCap ELSE IF p = 1 THEN NormalCap ELSE LowCap]

VARIABLES
    queue,     \* highCh, normalCh, lowCh
    stage,     \* where sendLoop is: its three selects, or in SendFrame
    sending,   \* the frame it holds
    overtakes, \* history: frames of lower priority that sendLoop has taken
               \* since the head of a queue became its head
    beat,      \* heartbeatLoop: "idle", "enqueue", "done"
    beatFrame, \* the heartbeat it holds
    reader,    \* the reader goroutine: "idle", "handle", "put"
    readFrame, \* the frame it holds
    kind,      \* what was decoded into it
    pool,      \* how often x is in framePool
    ackSeen,   \* history: a FileAck has been handled
    pinged,    \* pingTime is set
    smoothed,  \* smoothedRTT
    close      \* "no", "transport" (it is closed), "cancelled" (so is ctx)

sendVars == <<queue, stage, sending, overtakes>>
beatVars == <<beat, beatFrame>>
readVars == <<reader, readFrame, kind, ackSeen>>
rttVars == <<pinged, smoothed>>
vars == <<sendVars, beatVars, readVars, rttVars, pool, close>>

Kinds == {"heartbeat", "fileAck", "data"}
Frames == {"x", "other"}

Init ==
    /\ queue = [p \in Prios |-> <<>>] /\ stage = "high" /\ sending = "none"
    /\ overtakes = [p \in Prios |-> 0]
    /\ beat = "idle" /\ beatFrame = "none"
    /\ reader = "idle" /\ readFrame = "none" /\ kind = "data" /\ ackSeen = FALSE
    /\ pinged = FALSE /\ smoothed = 0
    /\ pool = 0 /\ close = "no"

-----------------------------------------------------------------------------
(* The pool. *)

(* Where x is in a queue, and everywhere it is, besides the pool. *)
Places(p) == {<<"queue", p, i>> : i \in {j \in DOMAIN queue[p] : queue[p][j] = "x"}}

HeldBy(who, f) == IF f = "x" THEN {<<who, 0, 0>>} ELSE {}

Owners ==
    (UNION {Places(p) : p \in Prios})
    \cup HeldBy("sendLoop", sending) \cup HeldBy("heartbeatLoop", beatFrame)
    \cup HeldBy("reader", readFrame)

(* An allocation may only return x while nothing refers to it.               *)
Allocated(f) == f = "x" => pool = 0 /\ Owners = {}

(* GetFrame takes a frame of the pool or allocates one.                      *)
GetFrame(f) ==
    \/ Allocated(f) /\ UNCHANGED pool
    \/ f = "x" /\ pool > 0 /\ pool' = pool - 1

(* Bound: a third entry of x would tell no more than the second. *)
PutFrame(f) == pool' = IF f = "x" /\ pool < 2 THEN pool + 1 ELSE pool

-----------------------------------------------------------------------------
(* SendPrioritized, of a frame that is handed over. *)

Enqueue(f, p) ==
    IF Len(queue[p]) < Cap[p]
    THEN queue' = [queue EXCEPT ![p] = Append(@, f)] /\ UNCHANGED pool
    ELSE PutFrame(f) /\ UNCHANGED queue

(* The application and the client's own senders make a frame and send it.    *)
AppSends(p) ==
    /\ \E f \in Frames : Allocated(f) /\ Enqueue(f, p)
    /\ UNCHANGED <<stage, sending, overtakes, beatVars, readVars, rttVars, close>>

-----------------------------------------------------------------------------
(* sendLoop. *)

(* A frame of queue p is taken.  Every higher queue that is not empty has    *)
(* been overtaken.                                                           *)
Take(p) ==
    /\ queue[p] # <<>>
    /\ sending' = Head(queue[p]) /\ queue' = [queue EXCEPT ![p] = Tail(@)]
    /\ stage' = "send"
    /\ overtakes' = [q \in Prios |->
            IF q = p \/ queue[q] = <<>> THEN 0
            ELSE IF q < p THEN overtakes[q] + 1 ELSE overtakes[q]]

(* The first two selects: one queue, or go on. *)
SelectOne(here, p, next) ==
    /\ stage = here
    /\ \/ Take(p)
       \/ /\ queue[p] = <<>> /\ close # "cancelled"
          /\ stage' = next /\ UNCHANGED <<queue, sending, overtakes>>
    /\ UNCHANGED <<beatVars, readVars, rttVars, pool, close>>

(* The third: whatever is ready, at random. *)
SelectAny ==
    /\ stage = "any"
    /\ \E p \in Prios : Take(p)
    /\ UNCHANGED <<beatVars, readVars, rttVars, pool, close>>

(* Mutant: the last select does not watch the context. *)
SendLoopStopsAbove ==
    /\ stage \in {"high", "normal"} /\ close = "cancelled"
    /\ stage' = "done"
    /\ UNCHANGED <<queue, sending, overtakes, beatVars, readVars, rttVars, pool, close>>

(* The context is ready in every select. *)
SendLoopStops ==
    /\ stage \in {"high", "normal", "any"} /\ close = "cancelled"
    /\ stage' = "done"
    /\ UNCHANGED <<queue, sending, overtakes, beatVars, readVars, rttVars, pool, close>>

(* Mutant: the last select is repeated while it has something to do. *)
SentStays ==
    /\ stage = "send"
    /\ stage' = (IF queue[2] = <<>> THEN "high" ELSE "any") /\ sending' = "none"
    /\ \/ close = "no" /\ UNCHANGED pool
       \/ PutFrame(sending)
    /\ UNCHANGED <<queue, overtakes, beatVars, readVars, rttVars, close>>

(* SendFrame returns, with an error if the transport is closed.              *)
Sent ==
    /\ stage = "send"
    /\ stage' = "high" /\ sending' = "none"
    /\ \/ close = "no" /\ UNCHANGED pool
       \/ PutFrame(sending)
    /\ UNCHANGED <<queue, overtakes, beatVars, readVars, rttVars, close>>

-----------------------------------------------------------------------------
(* heartbeatLoop. *)

(* A tick: take a frame, note the time. *)
Tick ==
    /\ beat = "idle"
    /\ \E f \in Frames : GetFrame(f) /\ beatFrame' = f
    /\ beat' = "enqueue" /\ pinged' = TRUE
    /\ UNCHANGED <<sendVars, readVars, smoothed, close>>

(* Mutant: the heartbeat that does not fit is given back by its sender too. *)
BeatPutsToo ==
    /\ beat = "enqueue"
    /\ IF Len(queue[0]) < Cap[0]
       THEN queue' = [queue EXCEPT ![0] = Append(@, beatFrame)] /\ UNCHANGED pool
       ELSE pool' = (IF beatFrame = "x" THEN 2 ELSE pool) /\ UNCHANGED queue
    /\ beat' = "idle" /\ beatFrame' = "none"
    /\ UNCHANGED <<stage, sending, overtakes, readVars, rttVars, close>>

Beat ==
    /\ beat = "enqueue"
    /\ Enqueue(beatFrame, 0)
    /\ beat' = "idle" /\ beatFrame' = "none"
    /\ UNCHANGED <<stage, sending, overtakes, readVars, rttVars, close>>

BeatStops ==
    /\ beat = "idle" /\ close = "cancelled"
    /\ beat' = "done"
    /\ UNCHANGED <<sendVars, beatFrame, readVars, rttVars, pool, close>>

-----------------------------------------------------------------------------
(* The reader goroutine of the transport. *)

Receive ==
    /\ reader = "idle" /\ close = "no"
    /\ \E f \in Frames : GetFrame(f) /\ readFrame' = f
    /\ kind' \in Kinds /\ reader' = "handle"
    /\ UNCHANGED <<sendVars, beatVars, ackSeen, rttVars, close>>

(* Mutant: the weights do not add up. *)
SmoothLight(old, rtt) == IF old = 0 THEN rtt ELSE (6 * old + rtt) \div 8

(* (7*smoothedRTT + rtt) / 8, but the first sample is taken as it is. *)
Smooth(old, rtt) == IF old = 0 THEN rtt ELSE (7 * old + rtt) \div 8

(* A heartbeat frame ends the measurement, whichever ping it answers. *)
RecordPong ==
    IF pinged
    THEN pinged' = FALSE /\ \E rtt \in Samples : smoothed' = Smooth(smoothed, rtt)
    ELSE UNCHANGED rttVars

(* handleSystemFrames: the FileAck branch puts the frame, although           *)
(* handleIncoming puts it when it returns.                                   *)
Handle ==
    /\ reader = "handle" /\ reader' = "put"
    /\ IF kind = "fileAck" THEN PutFrame(readFrame) ELSE UNCHANGED pool
    /\ IF kind = "heartbeat" THEN RecordPong ELSE UNCHANGED rttVars
    /\ ackSeen' = (ackSeen \/ kind = "fileAck")
    /\ UNCHANGED <<sendVars, beatVars, readFrame, kind, close>>

HandlePut ==
    /\ reader = "put"
    /\ PutFrame(readFrame)
    /\ reader' = "idle" /\ readFrame' = "none" /\ kind' = "data"
    /\ UNCHANGED <<sendVars, beatVars, ackSeen, rttVars, close>>

-----------------------------------------------------------------------------
CloseTransport ==
    /\ close = "no" /\ close' = "transport"
    /\ UNCHANGED <<sendVars, beatVars, readVars, rttVars, pool>>

(* The deferred cancel. *)
CloseCancel ==
    /\ close = "transport" /\ close' = "cancelled"
    /\ UNCHANGED <<sendVars, beatVars, readVars, rttVars, pool>>

SelectHigh == SelectOne("high", 0, "normal")
SelectNormal == SelectOne("normal", 1, "any")
SendLoop == SelectHigh \/ SelectNormal \/ SelectAny \/ Sent

Next ==
    \/ SendLoop \/ SendLoopStops \/ Tick \/ Beat \/ BeatStops
    \/ Receive \/ Handle \/ HandlePut \/ CloseTransport \/ CloseCancel
    \/ \E p \in Prios : AppSends(p)

(* Goroutines run, transport.Close returns, and a select in which the        *)
(* context is ready again and again takes it in the end.                     *)
Spec ==
    /\ Init /\ [][Next]_vars
    /\ WF_vars(SendLoop) /\ SF_vars(SendLoopStops)
    /\ WF_vars(Beat) /\ SF_vars(BeatStops) /\ WF_vars(CloseCancel)

-----------------------------------------------------------------------------
(* windowSize of the RTT manager, for an upload that starts now. *)
Clamp(n) == IF n < 32 THEN 32 ELSE IF n > 256 THEN 256 ELSE n
WindowFor(rtt) ==
    IF rtt = 0 THEN 64 ELSE Clamp((BytesPerUnit * rtt) \div ChunkSize)

-----------------------------------------------------------------------------
(* Properties. *)

(* Every variable has its type. *)
TypeOK ==
    /\ queue \in [Prios -> Seq(Frames)] /\ \A p \in Prios : Len(queue[p]) <= Cap[p]
    /\ stage \in {"high", "normal", "any", "send", "done"}
    /\ sending \in Frames \cup {"none"} /\ overtakes \in [Prios -> Nat]
    /\ beat \in {"idle", "enqueue", "done"} /\ beatFrame \in Frames \cup {"none"}
    /\ reader \in {"idle", "handle", "put"} /\ readFrame \in Frames \cup {"none"}
    /\ kind \in Kinds /\ ackSeen \in BOOLEAN
    /\ pool \in 0..2
    /\ pinged \in BOOLEAN /\ smoothed \in Nat
    /\ close \in {"no", "transport", "cancelled"}

(* While a frame is the first of its queue, at most one frame of lower       *)
(* priority goes out before it, although the queues are filled at any time   *)
(* between sendLoop's selects and the last of these picks at random.         *)
AtMostOneOvertakes == \A p \in Prios : overtakes[p] <= 1

(* A frame has one owner: one goroutine, one place in one queue, or one      *)
(* entry of the pool.  PutFrame is called for it at most once, on whatever   *)
(* error path, unless a FileAck has been handled.                            *)
OneOwner ==
    \/ ackSeen
    \/ pool = 0 /\ \A a, b \in Owners : a = b
    \/ pool = 1 /\ Owners = {}

(* "Double PutFrame" is a pitfall to avoid, says the package of the frames   *)
(* (pkg/frame/OWNERSHIP.md): a frame is never in the pool twice, FileAck or  *)
(* not.  The code does not keep this.                                        *)
NoDoublePut == pool <= 1

(* The window an upload would use is one that some measured time asks for,   *)
(* or between two such, and never outside 32..256: lost and late answers,    *)
(* answers to older heartbeats and rounding do not move the average past     *)
(* what was measured.                                                        *)
WindowFollowsSamples ==
    smoothed # 0 =>
        /\ WindowFor(smoothed) \in 32..256
        /\ \E low, high \in Samples : WindowFor(low) <= WindowFor(smoothed)
                                        /\ WindowFor(smoothed) <= WindowFor(high)

(* After Close sendLoop and heartbeatLoop end, although the application goes *)
(* on sending.                                                               *)
ClientEnds == close = "transport" ~> stage = "done" /\ beat = "done"
=============================================================================
