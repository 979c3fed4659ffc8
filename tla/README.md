# Verification of the Verboo SDK for Go

TLA+ models of the concurrent parts of the SDK, the TLC runs that check them on
small instances, and TLAPS proofs of their main invariants for every value of
the parameters. Source paths are relative to `src/`.

## 1. The system

A `Client` (`sdk/client`) owns one `Transport` (`sdk/transport`) and exchanges
binary frames (`pkg/frame`) with a server that is not part of the repository.

| Component | State it keeps | Operations |
|---|---|---|
| Client core, `client.go` | `highCh` (1024), `normalCh` (2048), `lowCh` (65536), callbacks, session maps, `ctx` | `Connect` (dial, HELLO, AUTH, `Start`), `SendPrioritized` (never blocks), `sendLoop`, `heartbeatLoop`, `handleSystemFrames`, `AddOnMessage`, `Close` |
| Upload, `file_transfer_virtual.go`, `send_prioritized_blocking.go` | `uploadSessions`, per session `currentIdx` and `ackChan` (32 tokens); the uploader's local `inFlight`, `sentCount` | `SendVirtualStream`, `handleVirtualStreamInit`, `handleVirtualStreamEnd`, the `FrameFileAck` branch |
| Download, `file_transfer.go`, `batch_ack_handler.go` | `fileReceivers`, `downloads`, `fileDownloadComplete` | `handleFileAvailable`, `DownloadFile`, `handleFileChunkServer`, `handleFileDownloadEnd`, `HandleFileAck`, `IsDownloadComplete` |
| RTT manager, `rtt_manager.go` | smoothed RTT, time of the last ping | `recordPing`, `recordPong`, `windowSize` |
| WebSocket, `ws_transport.go` | `conn`, `connected`, `ready`, `ctx`, `disconnectCh` (1 token), `backoff`, three write queues | `Connect`, `dial`, `readPump`, `reconnectLoop`, `writePump`, `SendFrame`, `Close` |
| HTTP/2, HTTP/3, `http2_transport.go`, `http3_transport.go` | `closed`, three queues with a worker each, `recvCh`, event stream, backoff, pooled buffers | `Connect`, `sseLoop`, `receiveLoop`, `SendFrame`, `sendWorker`, `doHTTPPost`, `Close` |
| gRPC, `grpc_transport.go` | `conn`, `stream`, `mu`, backoff | `Connect` with its heartbeat goroutine, `recvLoop`, `reconnect`, `SendFrame`, `Close` |
| QUIC, `quic_transport.go` | `conn`, `stream`, `connected`, `writeMu` | `Connect`, `readLoop`, `SendFrame`, `Close` |
| Factory, `transport.go` | none | `CreateTransport` |
| Frames, `pkg/frame` | pools of frames and of encoded buffers | `GetFrame`/`PutFrame`, `EncodePooled`/`ReleaseEncoded`, codecs |
| Auth, config, logger, options, parsing, compression | none that several steps share | pure functions |

How they interact. Frames go from the API through a client queue, `sendLoop`,
`Transport.SendFrame` and a transport queue to the transport's writer. Received
frames are handled synchronously on the transport's reader goroutine:
`handleIncoming` calls `handleSystemFrames`, which looks sessions up in maps
under `Client.mu` and wakes the uploader through `ackChan`. The WebSocket
transport calls back into the client after a reconnect to redo the handshake.
`Client.Close` first closes the transport and then cancels the client's context.

What is hard here:

- the chain uploader -> `lowCh` -> `sendLoop` -> transport -> server -> reader
  -> `ackChan` -> uploader, in which every link may drop something;
- state read under one lock or none and used later: `w.conn`, `currentIdx`, the
  session looked up before it is registered, the channel that Close closes;
- `Close` against a reconnect at any point of either;
- critical sections that end too early: a check under a lock and the act after it
  (`SendFrame` of HTTP, `Connect` of QUIC), or that last too long (`Send` under `g.mu`);
- goroutines started once per connection that do not know for which one;
- pooled frames and buffers with several ways out, each of which must return them once;
- queues that outlive the connection their frames were meant for.

What makes each component correct:

- *Upload*: the window counts exactly the chunks whose acknowledgment may still
  come and those whose never will; it is never exceeded; an uploader never waits
  for tokens the client itself threw away; success means the whole file was
  accepted, the server sees a subsequence of it in order and can tell from
  `TotalChunks` how much is missing; the call returns.
- *WebSocket*: one reader; no leaked socket; no missed disconnect; after `Close`
  nothing runs; `Close` returns; a lost connection is replaced; handshake first.
- *Client core*: a frame is not overtaken for long by less urgent ones, whatever the
  order of arrivals; every pooled frame has one owner; the measured window stays
  within what was measured; the loops end after `Close`.
- *Download*: one receiver per file, one completion callback each, chunks in order,
  a size that tells what is missing, no chunk thrown away but late ones, completion reported for the right file.
- *HTTP, gRPC, QUIC*: one receiver; no connection and no buffer left behind; a broken
  stream is replaced (over QUIC: noticed, so that the application can connect again);
  frames whole, posted in order and at most once; after `Close` every goroutine ends.

`PROJECT.json` lists every component with its status and every hazard at its line.

## 2. Modules

| Module | What it is |
|---|---|
| `UploadPipe` | abstract specification of an upload: a lossy in-order pipe with a truthful result |
| `VirtualStream` | one upload: caller, uploader, queue, transport, server, reader |
| `WsTransport` | the WebSocket transport with the client goroutines that drive it |
| `Download` | downloads: notification, request, reader, completion |
| `ClientCore` | the client's queues, `sendLoop`, heartbeats, reader, frame pool, RTT and `Close` |
| `FrameLane` | abstract specification of what a transport promises for the frames it accepts |
| `TransportLink` | abstract specification of what a transport promises of its connections and of the frames it hands over |
| `FileDelivery` | abstract specification of what downloads promise the application |
| `HttpTransport`, `GrpcTransport`, `QuicTransport` | the other transports |
| `Transports` | `CreateTransport`: the composition of these three, and what all must satisfy |
| `VirtualStreamProofs`, `WsTransportProofs`, `DownloadProofs`, `ClientCoreProofs`, `HttpTransportProofs`, `GrpcTransportProofs`, `QuicTransportProofs`, `TransportsProofs` | inductive invariants and theorems |
| `MCVirtualStream`, `MCWsTransport`, `MCDownload`, `MCClientCore`, `MCHttpTransport`, `MCTransports` | constants for TLC |

`VirtualStream` refines `UploadPipe` (`ImplementsPipe`), `Download` refines
`FileDelivery` (`ImplementsDelivery`) and `HttpTransport` refines `FrameLane`
(`HttpImplementsLane`). `WsTransport`, `GrpcTransport` and `QuicTransport` refine
`TransportLink` (`ImplementsLink`, in `Transports` the conjunction of `GrpcImplementsLink`
and `QuicImplementsLink`): one
connection at a time, frames handed to the client one by one, a new connection only when
the last frame of the one before it has been handled, and none made once Close has
returned. A frame the reader has buffered may be handed over although its connection has
ended, but not after Close has returned. Its two parameters say where they differ: whether Close leaves no
connection (`Drops`; not over QUIC, where a dial that is under way outlives it) and whether it
waits for the frame being handled (`Waits`; only over WebSocket). `links` is what the
transport holds as its connection or has open, so that a connection the peer has dropped but
`w.conn` still names counts as one over WebSocket. The upload, the downloads and the WebSocket
transport each contain the part of the client they interact with; `ClientCore` has
what they share.

Operators whose comment starts with "Mutant" are plausible bugs of the action
that follows them; no specification uses them. Each property was checked to fail
when its mutant replaces the action.

### 2.1 VirtualStream

`upc` is the position of the goroutine that runs `SendVirtualStream` and then of
its uploader (the caller only waits for the uploader, so one program counter
serves both):

| `upc` | code (`file_transfer_virtual.go`) | actions |
|---|---|---|
| idle | 131-183, the init frame is queued without blocking | `SendInit` |
| init | 191-268, the wait for the init answer that looks for a session not yet registered, then the registration, or an error return (the wait times out, 230-232; the zstd encoder cannot be made, 250-253) | `RegisterSession`, `RegisterFails` |
| read | 303-316 and 397-404 | `ReadChunk`, `ReadNothing` |
| window, await | 337-369 | `CheckWindow`, `TakeAck`, `AckTimeout` |
| enqueue | 371-374, `sendPrioritizedBlocking` | `EnqueueChunk` |
| bump | 375-396; the load and the store of `currentIdx++` are two steps because `handleVirtualStreamInit` writes the field without the lock | `BumpIndex` |
| end, cleanup | 407-437 | `SendEnd`, `Finish` |

`sendLoop` (`SendLoop`, `SendFails`), the reader (`HandleAck`, `HandleInitAck`),
`Client.Close` (`Close`) and other users of the low queue (`OtherTraffic`) run
beside it. `low` is `lowCh`; `net` is what the transport has accepted. The client
never sets a frame's priority flag, so every transport sends an upload's frames
from one queue by one goroutine: `net` delivers in order, and `Lose` may take any
frame of it. (What a server does with bytes of an old connection that it reads
after a new one was opened is outside this code.) The server (`Srv...`) is
external: it answers the init, acknowledges chunks one by one or several at
once, refuses them, or keeps silent.

Data are abstract: a chunk is its position in the file and the index stamped on
it. `Chunks` is the number of reads that return data. A read may return an error
beside its bytes, as `io.Reader` allows and the code handles.

`accepted`, `lost`, `muted` and `dropped` are history variables; no guard reads them.

### 2.2 WsTransport

A connection is a number: `conn` is `w.conn`, `up` the set of sockets open at
both ends, `reading[p]` the connection pump `p` blocks on. A pump may get a frame of a
connection that is no longer up: the bytes may have been buffered before either end
closed it.

| Code (`ws_transport.go`) | Actions |
|---|---|
| `Connect` 120-140, `dial` 94-116 | `Connect`, `DialOk` (`Publish`) |
| `readPump` 160-222, its deferred function in two steps | `PumpLoad`, `PumpFrame`, `PumpReadFails`, `PumpExit`, `PumpSignal` |
| `reconnectLoop` 227-289 | `LoopWake`, `LoopStops`, `DialFails`, `DialOk`, `DialGuard`, `Spawn` |
| `writePump` 291-329, `doWrite` 333-352 | `WriterTakes`, `WriterLoads`, `WriterWrites`, `WriterStops` |
| `ensureConnected` 143-158, `SendFrame` 356-399 | `EnsureConnected`, `NotConnected`, `Enqueue` |
| `Close` 413-439 and `client.go` 220-224 | `CloseStart`, `CloseFinish`, `ClientCancels` |

`SendFrame` is called by `sendLoop`, by `Client.Connect` for its handshake and
by the goroutine of each reconnect for another handshake; each sends HELLO, then
AUTH. `panic` records the two ways the process can die: the unlocked use of
`w.conn` after `Close` has cleared it, and a send on a closed channel.

Abstractions: the three write queues are one (frames carry no priority flag, so
only `writeNormalCh` is used; `ClientCore` has the client's priorities); pings are left out; `Close` is called once, by
the application, after `Client.Connect` returned; reconnection is enabled, so the
handshake is redone; a read callback returns. Several reconnect handshakes are
counted by the frame they are at (`due`), which loses nothing: between the two
halves of `SendFrame` a caller holds no state but its frame.

### 2.3 Download

`receiving` is the key set of `fileReceivers`, `content` and `written` what the
receiver's file holds and what the receiver has counted, `sessions` the key set of
`downloads`. `inbox` holds the frames on their way to the one goroutine on which a
transport handles them; `requests`, `streams` and `served` are the server's side.

| Code (`file_transfer.go` unless named) | Actions |
|---|---|
| `handleFileAvailable` 74-168 | `OpenReceiver`, `IgnoreAvailable` |
| `DownloadFile` 339-371, in the goroutine of line 152 or called by the application (`AppDownloads`): queue the request, then register the session | `Request`, `RequestFails`, `Register` |
| `handleFileChunkServer` 172-272 | `WriteChunk`, `DiscardChunk` |
| `handleFileDownloadEnd` 275-335, in two halves with the two locked sections | `EndDownload`, `RemoveReceiver`, `EndUnknown` |
| `handleVirtualStreamEnd` 66-128 (`file_transfer_virtual.go`), one step of the reader: nothing else touches the receivers | `EndVirtual`, `EndUnknown` |
| `HandleFileAck` 31-128 (`batch_ack_handler.go`) with `is_file_end` | `HandleFileEndAck`, `IsDownloadComplete` |

`OpenReceiver` is one step although it locks twice: only the reader goroutine adds
or removes receivers. What a session counts (`pendingAcks`, `batchReceived`,
`written`) is left out because nothing reads it, and acknowledgments with a batch
size because they only change those counters. Two files never share a name, the
callback `onFileReceived` is set, and file IDs of uploads are not those of
downloads. `Client.Close` is left out: the reader simply stops.

The server serves every request it gets from the first chunk, in order, and sends
one of the two ends the client understands and perhaps, before it, the final
acknowledgment. The end comes behind the last chunk or, with "early" among the faults,
at any point of the stream, and the remaining chunks follow it: the case in which
`handleFileChunkServer` says late chunks "can happen legitimately" (line 199). It may
announce a file again at any time.

`opened`, `reports`, `reported`, `discarded`, `flagged`, `harmed` and `early` (files with
a stream that was ended early) are history variables; no guard reads them.

### 2.4 ClientCore

One frame object, `x`, is followed through the client; all others are `other`. `pool`
counts how often `x` is in `framePool`, `Owners` are the places that refer to it.

| Code (`client.go` unless named) | Actions |
|---|---|
| `SendPrioritized` 149-171, from the senders 226-323 | `AppSends` (`Enqueue`) |
| `sendLoop` 482-529: two selects of one queue, one of all, `SendFrame` | `SelectHigh`, `SelectNormal`, `SelectAny`, `Sent`, `SendLoopStops` |
| `heartbeatLoop` 446-468 | `Tick`, `Beat`, `BeatStops` |
| the transport's callback 103-110, `handleSystemFrames` 326-406, `handleIncoming` 408-412 | `Receive`, `Handle`, `HandlePut` |
| `recordPing`, `recordPong`, `windowSize` (`rtt_manager.go`) | `Tick`, `RecordPong`, `WindowFor` |
| `Close` 220-224 | `CloseTransport`, `CloseCancel` |

`overtakes` is a history variable. A failed `SendFrame` recycles the frame; only a
closed transport fails it here, which is the weakest assumption under which frames
are recycled at all. The `FileAck` branch recycles the frame that `handleIncoming`
recycles again, so `OneOwner` is stated until a `FileAck` has been handled
(`ackSeen`).

### 2.5 The other transports

`HttpTransport` stands for both HTTP files, which differ in their `http.Client`.

| Code (`http2_transport.go`) | Actions |
|---|---|
| `Connect` 131-140 | `HttpConnect` |
| `SendFrame` 257-303: the check of `closed`, then, unlocked, the select | `HttpCall`, `HttpEnqueue`, `HttpRefuse`, `HttpSendPanics` |
| `sendWorker` 305-319, `doHTTPPost` 323-399 (one request per frame) | `HttpTake`, `HttpPost`, `HttpPostEnds`, `HttpAnswer`, `HttpWorkerStops` |
| `sseLoop` 142-254 | `HttpStreamOpens`, `HttpStreamFails`, `HttpStreamWakes`, `HttpEvent`, `HttpEventPush` |
| `receiveLoop` 110-129 | `HttpReceive`, `HttpReceiveStops` |
| `Close` 414-446 in three steps | `HttpCloseStart`, `HttpCloseChannels`, `HttpCloseFinish` |

A frame is its number in its lane (the queue of its priority). There is a caller for each
call of `Client.Connect`: its handshake, whose HELLO and AUTH it records in `hshake`, and
then its `sendLoop`. A later call starts when the one before has returned; each has an
`sseLoop` of its own (`hsse`), because `Connect` has no guard, and all share the backoff.

The network is as the code leaves it. A request that has reached the server may still fail
for the client: `HttpPost` and the end of the request are separate steps. A request
that ends by an error or by the cancellation before it has reached the server may
reach it later (`hstray`, `HttpStrayArrives`), behind frames of later requests and after
Close, or never. The answer to HELLO is a frame of the server's choice, a FrameRoute
or another, and an event is a frame of any type; the answer to AUTH is made into a FrameRoute.

| Code (`grpc_transport.go`) | Actions |
|---|---|
| `Connect` 71-140, under `g.mu`, and its call in `reconnect` 262-272 | `GrpcAppConnect`, `GrpcRetryOpens`, `GrpcRetryFails`, `GrpcRetryFindsConn` (`GrpcOpen`, `GrpcOpenFails`, `GrpcConnected`) |
| the heartbeat goroutine 114-136, `SendFrame` 185-207 holding `g.mu` in `Send` | `GrpcSend`, `GrpcSendEnds`, `GrpcBeatStops` |
| `recvLoop` 142-176, reading `g.stream` without the lock | `GrpcLoad`, `GrpcFrame`, `GrpcRecvFails` |
| `reconnect` 241-260 | `GrpcDrop`, `GrpcBackoffEnds`, `GrpcBackoffStops` |
| `Close` 215-232 | `GrpcClose` |

`Wedged` is the state in which `g.conn` is set and `g.stream` is not: a stream could
not be opened and nobody will try again (section 4).

| Code (`quic_transport.go`) | Actions |
|---|---|
| `Connect`: the check 61-67, the dial 69-82, the publication 84-95 | `QuicCheck`, `QuicDial`, `QuicDialFails`, `QuicPublish` |
| `readLoop` 98-154 | `QuicLoad`, `QuicFrame`, `QuicReadFails`, `QuicReaderExit` |
| `SendFrame` 157-190: the stream is picked up, then `writeMu` is held over two writes | `QuicSend`, `QuicWriteLength`, `QuicWritePayload` |
| `Close` 204-220 | `QuicCloseStart`, `QuicCloseFinish` |

A write happens whole or fails whole. `Connect` may be called again after a break, one
call at a time. `qlate` remembers that `Connect` published a connection after `Close`,
which the code permits (`quic_late_connect`); `NoQuicOrphan` and `QuicEnded` state what holds
apart from it.

`hpanic` and `gpanic` are the ways those processes can die: a send on a queue that
`Close` has closed, and the use of a nil stream.

## 3. Runs

| Run | Bounds | What it shows |
|---|---|---|
| `vs_faults` | 3 chunks, window 2, ackChan 1, lowCh 5, all faults, no promptness | the safety invariants of the upload, `UploadReturns`, and that it implements `UploadPipe`, with failed sends, lost frames, refused, missing and batched acks, read errors, Close and resume |
| `vs_clean` | 4 chunks, window 3, ackChan 1, lowCh 2, no fault, prompt acks | an upload succeeds and the file arrives whole although tokens are dropped; indices count chunks |
| `vs_init_ack` | 2 chunks, no fault | **violation**: chunks leave before the init answer is handled |
| `vs_close_hang` | 2 chunks, lowCh 3, only Close | **violation**: after Close the call may never return |
| `ws` | 2 connections, 2 pump slots, queue 2, 1 data frame | the safety and liveness properties of the transport, that `w.conn` is not nil under a reader before Close, and that it implements `TransportLink` |
| `ws_close_panic` | the same | **violation**: `SendFrame` can hit a closed channel |
| `dl` | 1 file, 2 chunks, 2 notifications, or 1 notification and 1 manual call (`MaxBoth`), all faults and early ends | the safety properties of downloads, that only late chunks are discarded, that a file of which nothing is lost is reported, that a file downloaded automatically and by hand at once is reported once per receiver, and that downloads implement `FileDelivery` |
| `transports` | see below | one receiver, no connection left behind, whole QUIC frames, no nil gRPC stream before Close, the refinement of `TransportLink`, recovery of HTTP and gRPC, and a `Close` that ends all goroutines |
| `http` | 2 calls of `Client.Connect`, 2 lanes, at most 3 and 1 frames, `HQCap` and `HRecvCap` 1 | pooled buffers are given back once, and the refinement of `FrameLane` |
| `grpc_wedged` | as `transports`, 1 call of `Connect` | **violation**: a reconnect whose stream cannot be opened is never repeated |
| `quic_late_connect` | the same | **violation**: a `Connect` that outlives Close leaves a connection open |
| `client` | queues of 1, 1 and 2 frames, round trip times 2 and 3 | priorities, ownership of pooled frames, the window, and that the loops end under traffic |

Why the bounds suffice. The window exceeds `ackChan` as in the code (up to 256
against 32), so tokens are dropped; there are more chunks than window, so the
uploader waits; `lowCh` is one slot larger than `RoomForEnd` asks for in
`vs_faults` (the mutant with a window too large fills it) and too small in
`vs_clean`, so the blocking send blocks. Two pump slots are one more than the
transport ever uses, which is what `OneReader` says; two connections give a
reconnect that races with everything else, and the theorems of section 5 cover
any number. Two notifications let the repeated one arrive before, during and after a
download, and between its early end and its late chunks; files share nothing but the completion flag, so one file is enough, and the theorems cover any number of files.

`HMaxCalls` says how many frames each call of `Client.Connect`, with its `sendLoop`, may send.
`HttpTransport.cfg`: 3 and 1, so a data frame follows the handshake and meets a worker that is
still busy, and a second HELLO meets both; `HQCap` and `HRecvCap` 1, so both fill up.
`Transports.cfg` asks of HTTP how streams recover and goroutines end: 2 and 0, so a second
`sseLoop` starts beside the handshake of the first call. Backoff caps of 2 and
3 units, so a cap is reached by doubling and by cutting; `GMaxConns` 3 and `GMaxCalls` 2,
so the application's `Connect` races with the reconnect of an older stream; `GLoops` and
`QReaders` one more than are ever used at a time; `GMaxSends` 2 (the client's and a
heartbeat's); `QMaxConns` 2 and `QMaxFrames` 2 with two senders, so a frame is
picked up for a connection that is replaced before it is written. In `ClientCore.cfg` one
slot in a queue makes it full for the next sender, and the low queue holds two, so
that a frame has a successor; the pool counts up to two entries of the same frame
(a bound in `PutFrame`), because the second is already the fault; `BytesPerUnit`
90 puts the two round trip times inside 32..256 at different windows.

The properties, and why they are not obvious:

- `WindowAccounting`: five places hold tokens to come and three history counters
  tell where the others went; every action moves something between them.
- `WaitsForSomething`: a dropped token shrinks the window for
  good. It cannot shrink to nothing, because a token is dropped only while
  `ackChan` is full; so in the absence of network faults the 30 s timeout is
  never the client's own doing.
- `RoomForEnd`: the non-blocking send of `VirtualStreamEnd` can be dropped while
  the caller is told of success. It cannot happen while the rest of the queue
  is large enough for everybody else.
- `TotalTellsLoss`: the server can tell from `TotalChunks` what it missed.
- `OneReader`, `Attended`: the exiting reader closes whatever
  `w.conn` is at that time, and the disconnect channel keeps one signal. Both
  are safe only because reader, signal and reconnect loop pass one token round.
- `CloseIsFinal`, `CloseReturns`: Close against a dial in progress.
- `NilConnOnlyAfterClose`, `NilStreamOnlyAfterClose`: readers use `w.conn` and `g.stream`
  without the lock under which the exiting reader, the reconnect and Close change them.
  The process can die of it, but only once Close has begun (`panic`, `gpanic`): a second
  reader, or a reconnect that goes on without a stream, would bring it about before.
- `ImplementsLink`, in both runs: the client handles frames and keeps its session maps
  as if one connection fed it. What guards that is the order in which reader, signal
  and dial follow one another, in three different ways in three files.
- `ImplementsDelivery`: what is written to a file stays, and what the callback reports is
  the file as it then is, although notifications, requests, sessions and two ways to end
  race; the size in the report counts the whole pieces even when two streams feed the
  receiver.
- `SizeTellsLoss`: the code looks at no chunk's index. Order rests
  on a chain: a receiver is opened only if there is none, it brings one request, the
  request one stream, and the receiver goes only with the end of that stream. Two things
  break it: `DownloadFile` called by the application (the second stream's chunks are
  appended to the first's; hence `OnlyAutomatic`), and an early end followed by another
  notification (section 4; hence the exception for files opened again).
  `written` does not count a failed write that left bytes behind, so the size tells.
- `LateChunksOnly`: the message of the branch that discards is true although ends overtake
  chunks, because a receiver is opened before its request is sent, and no request is sent
  if the file cannot be created.
- `AtMostOneOvertakes`: the last select of `sendLoop` picks at random, and queues
  fill between its selects; the loop back to the first select bounds the damage.
- `OneOwner`: frames are recycled by the sender that finds a queue full, by
  `sendLoop` on an error, and by the reader; heartbeats come from the pool itself.
- `WindowFollowsSamples`: integer division, answers credited to the wrong ping and the
  first sample; `ClientEnds`: selects with traffic beside the cancelled context.
- `BuffersAccounted`, `HttpImplementsLane`: a check of `closed` that is stale when the
  queue is used, workers that go on after the cancellation, requests that reach the server
  and fail all the same. `FrameLane` promises what the code can: each frame is posted in its
  turn and none twice; one whose request ended without an answer is adrift, and only such a
  frame arrives behind later ones or after Close.
- `SingleReader`, `NoLostConn`, `Attended`: `Connect`, the reconnect of a failed receiver
  and `Close` change the same fields in turn, and heartbeats outlive their stream.
- `FramesWhole`: two writes to a stream picked up before the lock was taken.
- `Recovers`, `CloseEndsAll`: recovery against failures at every step of it, for each of
  several event streams with one backoff, and the ends of the goroutines nobody waits for.
  `Recovers` says nothing of QUIC, which has no reconnection (section 4).

Four invariants are in no run, because a property of the run fails with them, and two
because they only type; the theorems of section 5 state all six. `WindowBound` and
`DropsLeaveAckCap` are what `WaitsForSomething` and `RoomForEnd` rest on; `WrittenInOrder` is what
`ImplementsDelivery` says of an application that does not share; a socket lost in spite of
`NoOrphanConn` would still be open at the next dial or at the end of Close, which
`ImplementsLink` forbids; `TypeOK` of `ClientCore` and of `Download` type their variables.

### Fairness

Weak fairness of each goroutine: the Go scheduler runs a ready goroutine, and
timers fire. In `VirtualStream` also of delivery and of the server's
acknowledgments (a frame that is not lost arrives; under "refuse" and "lose" it
may instead be taken away); nothing forces a fault or Close. In `Download` weak
fairness of the reader, of each DownloadFile goroutine and of the server's work on a
request it has received.

Strong fairness only where a choice comes back again and again: a select in which the
context's case is ready each time takes it in the end, as Go chooses at random
(`LoopStops`, `WriterStops`, `SendLoopStops`, `BeatStops`, `GrpcBackoffStops`), a
server that is dialled for ever answers (`DialOk`, `HttpStreamOpens`, `GrpcRetryOpens`), and
reads of a WebSocket that is gone fail when what was buffered has been read (`PumpReadFails`).
The selects of the HTTP transport need only weak fairness, because nothing feeds their
queues for ever after the cancellation. A request or a read whose connection is gone or
whose context is cancelled returns. There is no fairness of `Connect`, of `Close`'s start,
of calls by the application, or of anything the network does against the client. In
`Transports` the transports that were not chosen take no step, so their fairness asks
nothing.

`CHECK_DEADLOCK FALSE` because an upload ends, a closed transport or client stops, and
the bounds run out.

## 4. Disagreements with the repository's own texts

1. The wait for the init answer never waits (`vs_init_ack`): the session it looks
   up is registered after it. "virtual stream init timeout"
   (`file_transfer_virtual.go:231`) is practically unreachable and a rejected init
   is ignored.
2. `SendVirtualStream` may never return after `Close` (`vs_close_hang`): the
   context of "Wait for upload to complete (with timeout)" (line 439) has no
   timeout and is cancelled by nobody else.
3. `WsTransport.Close` does not "safely drain and close the write channels"
   (`ws_transport.go:432`): a concurrent `SendFrame` panics (`ws_close_panic`).
4. Automatic reconnection ("Built-in exponential backoff", `README.md:8`) of gRPC stops for
   good when the server can be dialled but the stream cannot be opened (`grpc_wedged`):
   `Connect` leaves `g.conn` set (`grpc_transport.go:105`) and the next attempt takes it
   for a connection. `Recovers` makes that one exception.
5. `Connect` of QUIC publishes its connection even if `Close` has run since it dialled
   (`quic_transport.go:84`), and nobody closes that connection (`quic_late_connect`), although
   Close "closes the connection and releases resources" (`client.go:220`).

The following are stated in the modules, too, as the texts have them; TLC refutes each
with the constants given, but no run keeps them: most need no interleaving, and the others an
unusual server.

- `QuicReconnects` (`Transports`; constants of `Transports.cfg`): the promise of item 4 stands
  over a list of transports with QUIC in it (`README.md:3`), but QUIC has no reconnection at
  all. A broken connection is closed and marked as such (`quic_transport.go:148-153`), and it is
  for the application to call `Connect` again. `Recovers` therefore leaves QUIC out.
- `RouteFollowsAuth` (`HttpTransport`; `HttpTransport.cfg`): "OnConnect callback on successful
  connection and handshake" (`client.go:210`), but over HTTP the frame that answers HELLO is
  passed on "to get route information" (`http2_transport.go:343`, 361) whatever its type, and the
  client calls `onConnect` for every FrameRoute (`client.go:401`): before AUTH if the server
  answers with one. A FrameRoute on the event stream does the same.
- `InFlightFinishes` (`HttpTransport`; `HttpTransport.cfg`): "Wait for all sendWorkers to
  complete (in-flight requests will finish)" (`http2_transport.go:441`), but Close has cancelled
  the context of these requests before (line 425), so they are cut short.
- `CompletionIsPerFile` (`Download`; two files, no faults): `IsDownloadComplete(fileID)` does
  not check "that the file has been completely received" (`batch_ack_handler.go:130`): one flag
  serves all files, and one file's final acknowledgment completes the other.
- `DiscardOnlyLate` (`Download`; `AutoDownload` FALSE, one call by the application, no faults):
  "auto-download disabled - use DownloadFile() manually to download" (`file_transfer.go:162`),
  but only the automatic branch creates a receiver, and every chunk of a manual download is
  discarded as a "late chunk".
- `LateChunksDiscarded` (`Download`; two notifications, early ends): "received late chunk after
  download completed, discarding" (`file_transfer.go:201`), but a late chunk whose file has been
  announced again by then is appended to the new receiver. The comment before it expects late
  chunks: "This can happen legitimately when FrameFileDownloadEnd arrives before all chunks"
  (line 199).
- `ResumedIndexIsPosition` (`VirtualStream`; `VirtualStreamClean.cfg` with a resume point):
  "resuming virtual stream from chunk" (`file_transfer_virtual.go:57`), but only the index
  changes: the file is read on from where it is, so chunks carry indices that are not theirs.
- `NoDoublePut` (`ClientCore`; `ClientCore.cfg`): "Double `PutFrame`" is a pitfall to avoid
  (`pkg/frame/OWNERSHIP.md:170`), but the `FileAck` branch recycles its frame and its caller
  recycles it again (`client.go:384`, 410), so the pool may give one frame to two owners.

What the models contain as an outcome without a property of its own:

- "performHandshake performs HELLO -> AUTH sequence" (`client.go:414`), but the write
  queue survives a reconnect, so a new WebSocket connection may start with an AUTH or with
  data left there (`ws_transport.go:256`); only the first connection greets for certain.
- `SendFrame` of HTTP may run into a closed queue, and `recvLoop` of gRPC into a nil
  stream, while `Close` runs (`hpanic`, `gpanic`).

Seen while reading, outside the models: the bits of the frame flags that mean "persistent"
and a failed delivery overlap (`frame.go:93-94`, `frame.go:248-260`).

## 5. Proofs

`VirtualStreamProofs` assumes only `ParamAssumption` (positive capacities, any
file length, any set of faults). The invariant `IInv` joins the checked
invariants with what makes them inductive: `WindowPhase` (the decision of the
window loop still holds when acted upon), `LowShare` (what an upload can have on
`lowCh` besides its chunks) and `InOrder` (positions grow along queue and
network, so a frame handed to the transport is new there and the count of chunks
in the set `net` grows by one). It proves `TypeOK`, `WindowAccounting` with
`WindowBound`, `DropsLeaveAckCap`, `WaitsForSomething` and `RoomForEnd`. The
counting lemmas about sequences and sets of frames come first. The key step is
`HandleAck`: a token is dropped only if `ackChan` is full, so `Credit` is then at
least `AckCap + 1`. Two more invariants on top of `IInv` give the rest: `Stamps`
(`currentIdx` follows `sentCount`, one behind it while a chunk is in hand) gives
`IndexIsPosition`; `ChunksKept` (every chunk that `lowCh` took is queued, with the
transport, at the server or lost), `ReadAndTaken` and `NoChunkBehind` (the End frame is
the last wherever it is) give `TotalTellsLoss`. `Arrivals` (what the server has comes
before what is with the transport, and that before what is queued) makes each arrival a
step of `UploadPipe`: every step of the upload is one of the pipe's or a stutter
(`PipeNext`), which gives `ImplementsPipe`.

`WsTransportProofs` proves `TypeOK`, `OneReader`, `NoOrphanConn`, `Attended` and
`CloseIsFinal` for any number of connections, pump slots and frames. Its
invariant says that one token goes round (`OneToken`: a reader, its signal, or a
busy reconnect loop exclude one another), that an open connection has a reader
which will drop it or is on its way to one (`ConnHeld`), and how the life cycle of
Close orders the ends of the goroutines (`Shutdown`). `Unstarted` and `Pending`
say what cannot have happened yet. `FirstConnectionGreets` needs three more facts
(`Greeting`): until a second connection exists nobody but `Client.Connect` is in the
handshake (`FirstOnly`), the queue is empty before it starts and Close waits for it
(`StartUp`), and as long as the first connection has carried nothing, HELLO is in the
writer's hand, at the head of the queue, or still to be queued first (`HelloNext`).

`DownloadProofs` proves every safety property of `dl`, for any files, chunks,
notifications and faults. `Counts` (the receiver of an End in progress is there;
`written` never exceeds the pieces, and equals them only if all are whole) is kept by
every action. `Order` holds while only notifications start downloads: `OneRequest` and
`OneStream` say where a file's one download is (request, stream, frames or End handler,
each excluding the others), `DataInOrder` that the chunks on their way continue what
is written, and `Spaced` that positions grow by at least one from piece to piece. A
file with as many whole pieces as it has chunks then has position `i` at place `i`
(`AllIsWhole`), which gives `SizeTellsLoss`. One lemma per action shows that it keeps
`Order`. All this needs that no stream was ended early (`OneStreamPerReceiver`):
`FullSizeIsWholeFile` is `SizeTellsLoss` under that premise, and that it also holds of a file
that was ended early but opened once is only model-checked. `DiscardedIsLate` has no such
premise: while only notifications start downloads, a file of which anything is on its way has
been opened (`OpenedBefore`), and by `Counts` it then has its receiver or its report,
wherever the server puts the end.

`ClientCoreProofs` proves every safety property of `client`, for any queue capacities,
round trip times, bandwidth constant and chunk size. `NotYetOvertaken` says at which of
its selects `sendLoop` can be when the head of a queue has been overtaken once.
`SoleOwner` says where `x` is (pool, a goroutine, one place of one queue), each place
excluding the others. `Between` says that the average lies between two samples;
`SmoothBetween` and `WindowMonotone` are the arithmetic.

`TransportsProofs` proves every safety property of `transports` and `http`, with both
refinements, for any number of connections, calls, frames, goroutines and queue slots. A step of
one transport leaves the others alone (`StepOfEach`), so the invariant is the conjunction
of three. `HttpTransportProofs`: a lane's queue holds its last frames, the worker the one
before them (`LaneOK`), so the frame that is posted, or whose request ends, is the next
of its lane, which is a step of `FrameLane`; nothing is assumed of what the network does with
the frames adrift. `GrpcTransportProofs`: at most one
goroutine receives or has seen its stream fail without dropping it, and it has a stream
until Close (`OneAttends`). `QuicTransportProofs`: a reader and `q.connected` go together
until Close (`ReaderAndConn`), and a working stream that ends with a length is the one
the holder of `writeMu` writes to (`HalfFrames`).

Beyond these, `NilConnOnlyAfterClose` follows from `ConnAtHand` (until Close begins, a pump
that is about to read has a connection to read), and `NilStreamOnlyAfterClose` from
`OneAttends`.

Refinements. Each is proved as an initial step and one step lemma per action: a
step of the model is one step of the abstract specification, or none.

- `ImplementsPipe` and `HttpImplementsLane` as above.
- `ImplementsLink` of `WsTransport`: by `HeldIsConn` the connections held are none or `w.conn`, so a loss is
  the step in which the reader clears it; a dial needs `OneToken` for there being neither a
  connection nor a callback, and the end of Close needs `Shutdown` for both.
- `GrpcImplementsLink`: a stream is opened by the first `Connect`, or by the one goroutine
  that is between two streams (`OneAttends`), which is then in no callback.
- `QuicImplementsLink`: `Connect` publishes later than it checks, but whoever passes the
  check finds no reader, and none starts before the publication (`ReaderAndConn`).
- `ImplementsDelivery`: `IInv` of `DownloadProofs`, with `Sizes` on top: `written` is the
  number of whole pieces in the file (`WholesAppend` is the step of counting one more).
  `Order` gives that a chunk is written further on than all before it as long as the
  application starts no download of its own and the server ends none early (`mixed`).

Every proof assumes only the named assumptions on the constants, which TLC evaluates in
the runs. Every invariant of a passing run and all refinements are proved, `SizeTellsLoss` with the
premise above. Only
model-checked: liveness (`UploadReturns`, `UploadSucceeds`, `Reconnects`, `CloseReturns`,
`DownloadCompletes`, `Recovers`, `CloseEndsAll`, `ClientEnds`), which is out of the prover's
reach under fairness; the violations are counterexamples of TLC.

## 6. Plan

Done: the modules of section 2 with their runs and proofs. What is left:

1. Downloads: several files of one name, and Close during a download.
2. The WebSocket transport with two writers on the socket (Close's frame and pings).
3. `ClientCore` over `Transports`: the client's reaction to a transport's disconnect and
   `Connect` called again.
4. An abstract specification of the client's queues for `ClientCore` to implement, and its
   refinement proof.

Not modelled: wire formats, compression, hashing, JSON, logging, file names and
other file-system errors than a failed read, authentication, configuration,
generated code and the example.
