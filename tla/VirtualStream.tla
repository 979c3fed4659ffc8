---------------------------- MODULE VirtualStream ----------------------------
(***************************************************************************)
(* One file upload: Client.SendVirtualStream and its uploader goroutine,   *)
(* the client's low-priority queue and sendLoop, the transport, the        *)
(* server's acknowledgments, and the reader goroutine that turns them into *)
(* tokens on the session's ackChan (sdk/client/file_transfer_virtual.go,   *)
(* send_prioritized_blocking.go and client.go).                            *)
(*                                                                         *)
(* The data are abstract: a chunk is its position in the file and the      *)
(* index the client stamps on it.  File IDs are unique, so one upload is   *)
(* modelled, and what other goroutines put on the shared low queue is      *)
(* OtherTraffic.  Acknowledgments carry nothing the uploader looks at, so  *)
(* those in transit are counted.                                           *)
(***************************************************************************)
EXTENDS Naturals, Sequences, FiniteSets

CONSTANTS
    Chunks,        \* number of reads that return data (0 for an empty file)
    Window,        \* rttManager.windowSize at the start: 32..256 in the code
    AckCap,        \* capacity of ackChan: VirtualStreamWindowSize = 32
    LowCap,        \* capacity of Client.lowCh: 65536
    MaxOther,      \* bound: frames other goroutines put on lowCh
    ResumePoints,  \* resume_from values the server may answer the init with
    Faults,        \* which of FaultKinds may happen
    Prompt         \* TRUE: whatever is on its way arrives within 30 seconds

FaultKinds == {"sendfail", "lose", "refuse", "batch", "initerr", "readerr", "close"}

ASSUME ParamAssumption ==
    /\ Chunks \in Nat
    /\ Window \in Nat \ {0}
    /\ AckCap \in Nat \ {0}
    /\ LowCap \in Nat \ {0}
    /\ MaxOther \in Nat
    /\ ResumePoints \subseteq Nat
    /\ Faults \subseteq FaultKinds
    /\ Prompt \in BOOLEAN

VARIABLES
    (* the goroutine of SendVirtualStream and its uploader *)
    upc,         \* where it is
    readErr,     \* what the last Read returned beside its bytes
    sentCount,   \* chunks read so far
    index,       \* index stamped on the chunk in hand
    loaded,      \* currentIdx as loaded by the unlocked-against-resume ++
    inFlight,    \* its own count of unacknowledged chunks
    accepted,    \* history: chunks that lowCh took
    (* the upload session, shared with the reader goroutine *)
    session,     \* is it in Client.uploadSessions?
    currentIdx,  \* session.currentIdx
    ackBuf,      \* tokens in session.ackChan
    (* queues and network *)
    low,         \* Client.lowCh
    net,         \* frames handed to the transport, not yet at the server
    others,      \* frames other goroutines have put on lowCh so far
    closed,      \* Client.Close was called
    (* the server, as the client depends on it *)
    srvGot,      \* chunks it received, in order of arrival
    srvTotal,    \* set of TotalChunks it received in VirtualStreamEnd
    unacked,     \* chunks it received and did not acknowledge yet
    acks,        \* its "ok" acknowledgments on their way to the client
    initAck,     \* its answer to VirtualStreamInit
    resumeFrom,  \* the resume_from of that answer
    (* history: chunks that will never bring a token *)
    lost,        \* dropped before they reached the server
    muted,       \* acknowledged without a token: refused, or batched
    dropped      \* token dropped because ackChan was full

uploader == <<upc, readErr, sentCount, index, loaded, inFlight, accepted>>
sessionVars == <<session, currentIdx, ackBuf>>
wire == <<low, net, others, closed>>
server == <<srvGot, srvTotal, unacked, acks, initAck, resumeFrom>>
history == <<lost, muted, dropped>>
vars == <<uploader, sessionVars, wire, server, history>>

Frame == [kind : {"init", "chunk", "end", "other"}, pos : 0..(Chunks + 1), idx : Nat]

InitFrame == [kind |-> "init", pos |-> 0, idx |-> 0]
ChunkFrame == [kind |-> "chunk", pos |-> sentCount, idx |-> index]
(* Mutant: TotalChunks taken from the session's index. *)
EndFrameFromIndex == [kind |-> "end", pos |-> sentCount + 1, idx |-> currentIdx]

(* VirtualStreamEnd carries TotalChunks, the number of chunks read. *)
EndFrame == [kind |-> "end", pos |-> sentCount + 1, idx |-> sentCount]
OtherFrame == [kind |-> "other", pos |-> 0, idx |-> 0]

(* Chunk frames on a queue, and among the frames with the transport. *)
QueuedChunks(q) == Cardinality({i \in 1..Len(q) : q[i].kind = "chunk"})
ChunksAmong(S) == Cardinality({f \in S : f.kind = "chunk"})

(* Every token that may still reach the uploader. *)
Credit == QueuedChunks(low) + ChunksAmong(net) + unacked + acks + ackBuf

LowHasRoom == Len(low) < LowCap
Returned == upc \in {"ok", "failed"}

Init ==
    /\ upc = "idle" /\ readErr = "nil" /\ sentCount = 0 /\ index = 0
    /\ loaded = 0 /\ inFlight = 0 /\ accepted = 0
    /\ session = FALSE /\ currentIdx = 0 /\ ackBuf = 0
    /\ low = <<>> /\ net = {} /\ others = 0 /\ closed = FALSE
    /\ srvGot = <<>> /\ srvTotal = {} /\ unacked = 0 /\ acks = 0
    /\ initAck = "none" /\ resumeFrom = 0
    /\ lost = 0 /\ muted = 0 /\ dropped = 0

-----------------------------------------------------------------------------
(* The caller and its uploader goroutine. *)

(* SendVirtualStream enqueues the init frame without blocking; a full queue *)
(* is an error.                                                             *)
SendInit ==
    /\ upc = "idle"
    /\ \/ LowHasRoom /\ low' = Append(low, InitFrame) /\ upc' = "init"
       \/ ~LowHasRoom /\ UNCHANGED low /\ upc' = "failed"
    /\ UNCHANGED <<readErr, sentCount, index, loaded, inFlight, accepted,
                   sessionVars, net, others, closed, server, history>>

(* The goroutine that should await the init ack looks for a session that is *)
(* only registered below, finds none and lets the upload go on at once.     *)
RegisterSession ==
    /\ upc = "init"
    /\ upc' = "read"
    /\ session' = TRUE /\ currentIdx' = 0 /\ ackBuf' = 0
    /\ UNCHANGED <<readErr, sentCount, index, loaded, inFlight, accepted,
                   wire, server, history>>

(* The timer of the wait, which both cases of its select may have ready, or *)
(* the encoder fails before there is a session: the init frame stays sent.  *)
RegisterFails ==
    /\ "initerr" \in Faults /\ upc = "init"
    /\ upc' = "failed"
    /\ UNCHANGED <<readErr, sentCount, index, loaded, inFlight, accepted,
                   sessionVars, wire, server, history>>

(* Read returned bytes, with or without an error beside them. *)
ReadChunk ==
    /\ upc = "read" /\ sentCount < Chunks
    /\ upc' = "window"
    /\ sentCount' = sentCount + 1
    /\ index' = currentIdx
    /\ readErr' \in {"nil"} \cup (IF sentCount + 1 = Chunks THEN {"eof"} ELSE {})
                            \cup (Faults \cap {"readerr"})
    /\ UNCHANGED <<loaded, inFlight, accepted, sessionVars, wire, server, history>>

(* Read returned no bytes: end of file, or an error. *)
ReadNothing ==
    /\ upc = "read"
    /\ \/ sentCount = Chunks /\ upc' = "end"
       \/ "readerr" \in Faults /\ upc' = "failed"
    /\ UNCHANGED <<readErr, sentCount, index, loaded, inFlight, accepted,
                   sessionVars, wire, server, history>>

(* Mutant: off by one in the window comparison. *)
CheckWindowLoose ==
    /\ upc = "window"
    /\ upc' = IF inFlight > Window THEN "await" ELSE "enqueue"
    /\ UNCHANGED <<readErr, sentCount, index, loaded, inFlight, accepted,
                   sessionVars, wire, server, history>>

(* The window loop: send at once within the window, else await an ack. *)
CheckWindow ==
    /\ upc = "window"
    /\ upc' = IF inFlight >= Window THEN "await" ELSE "enqueue"
    /\ UNCHANGED <<readErr, sentCount, index, loaded, inFlight, accepted,
                   sessionVars, wire, server, history>>

(* Mutant: a token is taken without its chunk leaving the window. *)
TakeAckKeepsCount ==
    /\ upc = "await" /\ ackBuf > 0
    /\ upc' = "window"
    /\ ackBuf' = ackBuf - 1
    /\ UNCHANGED <<readErr, sentCount, index, loaded, inFlight, accepted, session,
                   currentIdx, wire, server, history>>

(* Mutant: the wait does not block on an empty ackChan. *)
TakeAckUnguarded ==
    /\ upc = "await"
    /\ upc' = "window"
    /\ ackBuf' = ackBuf - 1 /\ inFlight' = inFlight - 1
    /\ UNCHANGED <<readErr, sentCount, index, loaded, accepted, session,
                   currentIdx, wire, server, history>>

TakeAck ==
    /\ upc = "await" /\ ackBuf > 0
    /\ upc' = "window"
    /\ ackBuf' = ackBuf - 1 /\ inFlight' = inFlight - 1
    /\ UNCHANGED <<readErr, sentCount, index, loaded, accepted, session,
                   currentIdx, wire, server, history>>

(* Mutant: the ack timer is never armed. *)
AckTimeoutUnarmed == FALSE /\ UNCHANGED vars

(* 30 seconds passed without a token.  The session stays registered. *)
AckTimeout ==
    /\ upc = "await"
    /\ Prompt => closed \/ Credit = 0
    /\ upc' = "failed"
    /\ UNCHANGED <<readErr, sentCount, index, loaded, inFlight, accepted,
                   sessionVars, wire, server, history>>

(* sendPrioritizedBlocking: blocks while lowCh is full (nothing cancels     *)
(* uploadCtx before the uploader itself has reported).  After it inFlight   *)
(* grows and currentIdx++ loads the index, racing with HandleInitAck.       *)
EnqueueChunk ==
    /\ upc = "enqueue" /\ LowHasRoom
    /\ upc' = "bump"
    /\ low' = Append(low, ChunkFrame)
    /\ inFlight' = inFlight + 1
    /\ accepted' = accepted + 1
    /\ loaded' = currentIdx
    /\ UNCHANGED <<readErr, sentCount, index, sessionVars, net, others, closed,
                   server, history>>

(* Mutant: the index is not incremented. *)
BumpIndexForgotten ==
    /\ upc = "bump"
    /\ currentIdx' = loaded
    /\ upc' = CASE readErr = "nil" -> "read"
                [] readErr = "eof" -> "end"
                [] OTHER -> "failed"
    /\ UNCHANGED <<readErr, sentCount, index, loaded, inFlight, accepted,
                   session, ackBuf, wire, server, history>>

(* Mutant: any error beside the bytes counts as the end of the file. *)
BumpIndexErrorIsEof ==
    /\ upc = "bump"
    /\ currentIdx' = loaded + 1
    /\ upc' = IF readErr = "nil" THEN "read" ELSE "end"
    /\ UNCHANGED <<readErr, sentCount, index, loaded, inFlight, accepted,
                   session, ackBuf, wire, server, history>>

(* The store of currentIdx++, then the error that came with the bytes. *)
BumpIndex ==
    /\ upc = "bump"
    /\ currentIdx' = loaded + 1
    /\ upc' = CASE readErr = "nil" -> "read"
                [] readErr = "eof" -> "end"
                [] OTHER -> "failed"
    /\ UNCHANGED <<readErr, sentCount, index, loaded, inFlight, accepted,
                   session, ackBuf, wire, server, history>>

(* The end frame is enqueued without blocking; when the queue is full it is *)
(* dropped with a warning and the upload still succeeds.                    *)
SendEnd ==
    /\ upc = "end"
    /\ upc' = "cleanup"
    /\ low' = IF LowHasRoom THEN Append(low, EndFrame) ELSE low
    /\ UNCHANGED <<readErr, sentCount, index, loaded, inFlight, accepted,
                   sessionVars, net, others, closed, server, history>>

(* Forget the session and return nil to the caller. *)
Finish ==
    /\ upc = "cleanup"
    /\ upc' = "ok" /\ session' = FALSE
    /\ UNCHANGED <<readErr, sentCount, index, loaded, inFlight, accepted,
                   currentIdx, ackBuf, wire, server, history>>

-----------------------------------------------------------------------------
(* Queue, transport and the reader goroutine. *)

(* Another goroutine puts a low-priority frame on the queue, if it fits. *)
OtherTraffic ==
    /\ others < MaxOther /\ LowHasRoom
    /\ low' = Append(low, OtherFrame) /\ others' = others + 1
    /\ UNCHANGED <<uploader, sessionVars, net, closed, server, history>>

(* sendLoop hands the head of lowCh to the transport. *)
SendLoop ==
    /\ low # <<>> /\ ~closed
    /\ low' = Tail(low)
    /\ net' = IF Head(low).kind = "other" THEN net ELSE net \cup {Head(low)}
    /\ UNCHANGED <<uploader, sessionVars, others, closed, server, history>>

(* SendFrame failed (queue full, disconnected, closed): the frame is gone. *)
SendFails ==
    /\ "sendfail" \in Faults /\ low # <<>>
    /\ low' = Tail(low)
    /\ lost' = IF Head(low).kind = "chunk" THEN lost + 1 ELSE lost
    /\ UNCHANGED <<uploader, sessionVars, net, others, closed, server, muted, dropped>>

(* The transport accepted the frame and lost it (reconnect, broken socket). *)
Lose ==
    /\ "lose" \in Faults
    /\ \E f \in net :
        /\ net' = net \ {f}
        /\ lost' = IF f.kind = "chunk" THEN lost + 1 ELSE lost
    /\ UNCHANGED <<uploader, sessionVars, low, others, closed, server, muted, dropped>>

(* Mutant: ackChan has no buffer, a token reaches only a waiting uploader. *)
HandleAckUnbuffered ==
    /\ acks > 0 /\ ~closed
    /\ acks' = acks - 1
    /\ IF session /\ upc = "await" /\ ackBuf = 0
       THEN ackBuf' = ackBuf + 1 /\ UNCHANGED dropped
       ELSE dropped' = dropped + 1 /\ UNCHANGED ackBuf
    /\ UNCHANGED <<uploader, session, currentIdx, wire, srvGot, srvTotal, unacked,
                   initAck, resumeFrom, lost, muted>>

(* FrameFileAck: one token per "ok" ack of a registered session, dropped    *)
(* when ackChan is full.                                                    *)
HandleAck ==
    /\ acks > 0 /\ ~closed
    /\ acks' = acks - 1
    /\ \/ session /\ ackBuf < AckCap
          /\ ackBuf' = ackBuf + 1 /\ UNCHANGED <<muted, dropped>>
       \/ session /\ ackBuf = AckCap
          /\ dropped' = dropped + 1 /\ UNCHANGED <<ackBuf, muted>>
       \/ ~session
          /\ muted' = muted + 1 /\ UNCHANGED <<ackBuf, dropped>>
    /\ UNCHANGED <<uploader, session, currentIdx, wire, srvGot, srvTotal, unacked,
                   initAck, resumeFrom, lost>>

(* handleVirtualStreamInit: a positive resume_from overwrites currentIdx,   *)
(* without session.mu; any other answer changes nothing.                    *)
HandleInitAck ==
    /\ initAck \in {"ready", "rejected"} /\ ~closed
    /\ initAck' = "handled"
    /\ currentIdx' = IF initAck = "ready" /\ session /\ resumeFrom > 0
                     THEN resumeFrom ELSE currentIdx
    /\ UNCHANGED <<uploader, session, ackBuf, wire, srvGot, srvTotal, unacked,
                   acks, resumeFrom, history>>

(* Client.Close ends sendLoop and the reader; uploadCtx is not cancelled. *)
Close ==
    /\ "close" \in Faults /\ ~closed
    /\ closed' = TRUE
    /\ UNCHANGED <<uploader, sessionVars, low, net, others, server, history>>

-----------------------------------------------------------------------------
(* The server: external, as the client's code depends on it. *)

(* Each transport sends a queue's frames from one goroutine, one after the  *)
(* other: what is not lost arrives in order.                                *)
Deliverable(f) == \A g \in net : f.pos <= g.pos

SrvReceive ==
    /\ ~closed
    /\ \E f \in net :
        /\ Deliverable(f)
        /\ net' = net \ {f}
        /\ \/ /\ f.kind = "init"
              /\ \/ initAck' = "ready" /\ resumeFrom' \in ResumePoints
                 \/ "refuse" \in Faults /\ initAck' = "rejected" /\ UNCHANGED resumeFrom
              /\ UNCHANGED <<srvGot, srvTotal, unacked>>
           \/ /\ f.kind = "chunk"
              /\ srvGot' = Append(srvGot, [pos |-> f.pos, idx |-> f.idx])
              /\ unacked' = unacked + 1
              /\ UNCHANGED <<srvTotal, initAck, resumeFrom>>
           \/ /\ f.kind = "end"
              /\ srvTotal' = srvTotal \cup {f.idx}
              /\ UNCHANGED <<srvGot, unacked, initAck, resumeFrom>>
    /\ UNCHANGED <<uploader, sessionVars, low, others, closed, acks, history>>

SrvAck ==
    /\ unacked > 0 /\ ~closed
    /\ unacked' = unacked - 1 /\ acks' = acks + 1
    /\ UNCHANGED <<uploader, sessionVars, wire, srvGot, srvTotal, initAck,
                   resumeFrom, history>>

(* One acknowledgment for n chunks (batch_size): the client makes one token *)
(* of it.                                                                   *)
SrvAckBatch ==
    /\ "batch" \in Faults /\ ~closed
    /\ \E n \in 2..unacked :
        unacked' = unacked - n /\ acks' = acks + 1 /\ muted' = muted + (n - 1)
    /\ UNCHANGED <<uploader, sessionVars, wire, srvGot, srvTotal, initAck,
                   resumeFrom, lost, dropped>>

(* A status other than "ok", is_file_end, a lost ack, or no ack at all. *)
SrvRefuse ==
    /\ "refuse" \in Faults /\ ~closed /\ unacked > 0
    /\ unacked' = unacked - 1 /\ muted' = muted + 1
    /\ UNCHANGED <<uploader, sessionVars, wire, srvGot, srvTotal, acks, initAck,
                   resumeFrom, lost, dropped>>

-----------------------------------------------------------------------------
Upload ==
    \/ SendInit \/ RegisterSession \/ RegisterFails
    \/ ReadChunk \/ ReadNothing \/ CheckWindow
    \/ TakeAck \/ AckTimeout \/ EnqueueChunk \/ BumpIndex \/ SendEnd \/ Finish

Client == SendLoop \/ HandleAck \/ HandleInitAck

Environment ==
    \/ OtherTraffic \/ SendFails \/ Lose \/ Close
    \/ SrvReceive \/ SrvAck \/ SrvAckBatch \/ SrvRefuse

Next == Upload \/ Client \/ Environment

(* The Go scheduler runs a ready goroutine eventually and the 30 s timer    *)
(* fires; sendLoop reaches lowCh because higher queues drain between the    *)
(* bursts of their producers; the network delivers what it does not lose    *)
(* and the server answers each chunk in some way.                           *)
Fairness ==
    /\ WF_vars(Upload) /\ WF_vars(SendLoop)
    /\ WF_vars(HandleAck) /\ WF_vars(HandleInitAck)
    /\ WF_vars(SrvReceive) /\ WF_vars(SrvAck)

Spec == Init /\ [][Next]_vars /\ Fairness

-----------------------------------------------------------------------------
(* Properties. *)

(* Every variable has its type. *)
TypeOK ==
    /\ upc \in {"idle", "init", "read", "window", "await", "enqueue", "bump",
               "end", "cleanup", "ok", "failed"}
    /\ readErr \in {"nil", "eof", "readerr"}
    /\ sentCount \in 0..Chunks /\ index \in Nat /\ loaded \in Nat
    /\ inFlight \in Nat /\ accepted \in Nat
    /\ session \in BOOLEAN /\ currentIdx \in Nat /\ ackBuf \in 0..AckCap
    /\ low \in Seq(Frame) /\ net \in SUBSET Frame /\ others \in 0..MaxOther
    /\ closed \in BOOLEAN
    /\ srvGot \in Seq([pos : Nat, idx : Nat]) /\ srvTotal \in SUBSET Nat
    /\ unacked \in Nat /\ acks \in Nat /\ resumeFrom \in Nat
    /\ initAck \in {"none", "ready", "rejected", "handled"}
    /\ lost \in Nat /\ muted \in Nat /\ dropped \in Nat

(* The uploader's local inFlight counts exactly the chunks whose token may  *)
(* still come and those whose token never will: no chunk is counted twice   *)
(* and none is forgotten, whatever is lost, refused, batched or dropped.    *)
WindowAccounting ==
    inFlight = Credit + lost + muted + dropped

(* The window is never exceeded. *)
WindowBound == inFlight <= Window

(* ackChan (32) is smaller than the window (up to 256), so tokens are       *)
(* dropped; but never so many that fewer than AckCap chunks of window       *)
(* remain usable.                                                           *)
DropsLeaveAckCap == dropped > 0 => dropped + AckCap <= Window

(* An uploader that waits for an ack has one coming, unless the network or  *)
(* the server took one away: tokens dropped by the client itself never make *)
(* it run into the 30 second timeout.                                       *)
WaitsForSomething == upc = "await" /\ lost + muted = 0 => Credit > 0

(* The window keeps an upload's share of lowCh small: when the rest of the  *)
(* queue is large enough for the other traffic, the non-blocking send of    *)
(* VirtualStreamEnd finds room, so a successful upload is always ended.     *)
RoomForEnd ==
    LowCap >= Window + MaxOther + 2 /\ upc = "end" => LowHasRoom

(* VirtualStreamEnd arrives behind the last chunk, and its TotalChunks      *)
(* tells the server exactly how many chunks were lost.                      *)
TotalTellsLoss ==
    \A total \in srvTotal : total = Chunks /\ Len(srvGot) + lost = total

(* Unless the server asked to resume, the index stamped on a chunk is its   *)
(* position in the file, counted from 0.                                    *)
IndexIsPosition ==
    ResumePoints = {0} => \A i \in DOMAIN srvGot : srvGot[i].idx + 1 = srvGot[i].pos

(* An upload the server asks to resume goes on "from chunk" resume_from, as  *)
(* handleVirtualStreamInit logs: the index stamped on a chunk is its         *)
(* position in the file even then.  The code does not keep this.             *)
ResumedIndexIsPosition == \A i \in DOMAIN srvGot : srvGot[i].idx + 1 = srvGot[i].pos

(* SendVirtualStream returns to its caller. *)
UploadReturns == upc = "init" ~> Returned

(* When nothing fails and the server acknowledges each chunk in time, the   *)
(* upload succeeds and the server ends up with the whole file in order.     *)
UploadSucceeds ==
    upc = "init" ~> /\ upc = "ok"
                    /\ [i \in DOMAIN srvGot |-> srvGot[i].pos] = [i \in 1..Chunks |-> i]

(* The upload implements the lossy in-order pipe.                           *)
Pipe == INSTANCE UploadPipe WITH
    received <- [i \in 1..Len(srvGot) |-> srvGot[i].pos],
    ended <- srvTotal # {},
    result <- IF Returned THEN upc ELSE "pending"

ImplementsPipe == Pipe!Spec

(* The init exchange of SendVirtualStream, as its waiting code and its      *)
(* "virtual stream init timeout" error describe it: no chunk goes out       *)
(* before the server's answer to VirtualStreamInit has been handled.        *)
ChunksAwaitInitAck == accepted > 0 => initAck = "handled"
=============================================================================
