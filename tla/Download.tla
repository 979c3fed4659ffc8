------------------------------ MODULE Download ------------------------------
(***************************************************************************)
(* File downloads: the notification that opens a receiver, the goroutine   *)
(* of DownloadFile that requests the file and registers a session, and the *)
(* transport's reader goroutine that writes chunks and ends the download   *)
(* (sdk/client/file_transfer.go, batch_ack_handler.go and the end handler  *)
(* of file_transfer_virtual.go).                                           *)
(*                                                                         *)
(* Every transport handles received frames on one goroutine, in order;     *)
(* inbox is what is on its way to it.  A chunk is its position in the      *)
(* file.  Files have names of their own, so a file stands for its path.    *)
(***************************************************************************)
EXTENDS Naturals, Sequences

CONSTANTS
    Files,        \* file IDs
    Chunks,       \* chunks of a file
    AutoDownload, \* options.AutoDownloadFiles
    MaxNotify,    \* bound: notifications the server sends
    MaxManual,    \* bound: calls of DownloadFile by the application
    MaxBoth,      \* bound: notifications when the application calls it too
    Faults        \* which of FaultKinds may happen

(* "early" is no fault of the network: the server may say that a download   *)
(* has ended before it has sent all its chunks.                             *)
FaultKinds == {"lose", "sendfail", "openerr", "writeerr", "early"}

ASSUME ParamAssumption ==
    /\ Chunks \in Nat
    /\ AutoDownload \in BOOLEAN
    /\ MaxNotify \in Nat /\ MaxManual \in Nat /\ MaxBoth \in Nat
    /\ Faults \subseteq FaultKinds

VARIABLES
    (* the client's maps, with what a receiver's file holds *)
    receiving,   \* keys of fileReceivers
    content,     \* pieces written to a file since it was last truncated
    written,     \* receiver.written, in chunks
    sessions,    \* keys of downloads
    completeFlag,\* batchAckHandler.fileDownloadComplete
    (* goroutines *)
    requesting,  \* per file: DownloadFile calls before SendPrioritized
    registering, \* per file: DownloadFile calls before the registration
    ending,      \* FileEnd handlers between their two locked sections
    (* network and server *)
    requests,    \* per file: download requests on their way
    inbox,       \* frames on their way to the reader goroutine, in order
    streams,     \* downloads the server is sending
    served,      \* requests served so far, which numbers the streams
    notified,    \* notifications sent so far
    manual,      \* calls of DownloadFile by the application so far
    (* history *)
    opened,      \* per file: receivers created
    reports,     \* per file: calls of onFileReceived
    reported,    \* what those calls told
    discarded,   \* files a chunk of which was discarded
    flagged,     \* files the server sent IsFileEnd for
    harmed,      \* files of which a fault took a notification, request or frame
    early        \* files a download of which the server ended early

clientVars == <<receiving, content, written, sessions, completeFlag>>
goroutines == <<requesting, registering, ending>>
network == <<requests, inbox, streams, served, notified, manual>>
history == <<opened, reports, reported, discarded, flagged, harmed, early>>
vars == <<clientVars, goroutines, network, history>>

FrameKinds == {"available", "chunk", "downloadEnd", "virtualEnd", "fileEndAck"}
Frame == [kind : FrameKinds, file : Files, pos : 0..Chunks]
Piece == [pos : 0..Chunks, whole : BOOLEAN]
Stream == [file : Files, id : Nat, next : 1..(Chunks + 1), ended : BOOLEAN]
Report == [file : Files, size : Nat, content : Seq(Piece)]

Control(kind, f) == [kind |-> kind, file |-> f, pos |-> 0]
None == [f \in Files |-> 0]
Incr(count, f) == [count EXCEPT ![f] = @ + 1]
Decr(count, f) == [count EXCEPT ![f] = @ - 1]

Init ==
    /\ receiving = {} /\ sessions = {} /\ completeFlag = FALSE
    /\ content = [f \in Files |-> <<>>] /\ written = None
    /\ requesting = None /\ registering = None /\ ending = {}
    /\ requests = None /\ inbox = <<>> /\ streams = {} /\ served = 0
    /\ notified = 0 /\ manual = 0
    /\ opened = None /\ reports = None /\ reported = {}
    /\ discarded = {} /\ flagged = {} /\ harmed = {} /\ early = {}

-----------------------------------------------------------------------------
(* DownloadFile: started by the handler of a notification or called by the *)
(* application.                                                             *)

(* The bounds: n notifications and m calls of DownloadFile. *)
Within(n, m) == n <= MaxNotify /\ m <= MaxManual /\ (m > 0 => n <= MaxBoth)

AppDownloads(f) ==
    /\ Within(notified, manual + 1)
    /\ manual' = manual + 1
    /\ requesting' = Incr(requesting, f)
    /\ UNCHANGED <<clientVars, registering, ending, requests, inbox, streams,
                   served, notified, history>>

(* The request is queued without blocking; only then is the session made. *)
Request(f) ==
    /\ requesting[f] > 0
    /\ requesting' = Decr(requesting, f)
    /\ requests' = Incr(requests, f)
    /\ registering' = Incr(registering, f)
    /\ UNCHANGED <<clientVars, ending, inbox, streams, served, notified, manual,
                   history>>

(* normalCh is full: DownloadFile returns an error, the receiver stays. *)
RequestFails(f) ==
    /\ "sendfail" \in Faults /\ requesting[f] > 0
    /\ requesting' = Decr(requesting, f)
    /\ harmed' = harmed \cup {f}
    /\ UNCHANGED <<clientVars, registering, ending, network, opened, reports,
                   reported, discarded, flagged, early>>

Register(f) ==
    /\ registering[f] > 0
    /\ registering' = Decr(registering, f)
    /\ sessions' = sessions \cup {f}
    /\ UNCHANGED <<receiving, content, written, completeFlag, requesting, ending,
                   network, history>>

-----------------------------------------------------------------------------
(* The reader goroutine. *)

Arrives(kind) == ending = {} /\ inbox # <<>> /\ Head(inbox).kind = kind
Arrived == Head(inbox).file

(* Mutant: no check for a receiver that is already there. *)
HandleAvailableAgain ==
    /\ Arrives("available")
    /\ inbox' = Tail(inbox)
    /\ IF AutoDownload
       THEN /\ receiving' = receiving \cup {Arrived}
            /\ content' = [content EXCEPT ![Arrived] = <<>>]
            /\ written' = [written EXCEPT ![Arrived] = 0]
            /\ requesting' = Incr(requesting, Arrived)
            /\ opened' = Incr(opened, Arrived)
       ELSE UNCHANGED <<receiving, content, written, requesting, opened>>
    /\ UNCHANGED <<sessions, completeFlag, registering, ending, requests, streams,
                   served, notified, manual, reports, reported, discarded, flagged,
                   harmed, early>>

(* FrameFileAvailable, FrameFileMetadata: unless there is a receiver, create *)
(* one with a truncated file and start DownloadFile.                        *)
OpenReceiver ==
    /\ Arrives("available")
    /\ AutoDownload /\ Arrived \notin receiving
    /\ inbox' = Tail(inbox)
    /\ receiving' = receiving \cup {Arrived}
    /\ content' = [content EXCEPT ![Arrived] = <<>>]
    /\ written' = [written EXCEPT ![Arrived] = 0]
    /\ requesting' = Incr(requesting, Arrived)
    /\ opened' = Incr(opened, Arrived)
    /\ UNCHANGED <<sessions, completeFlag, registering, ending, requests, streams,
                   served, notified, manual, reports, reported, discarded, flagged,
                   harmed, early>>

(* Mutant: the download goes on although the file could not be created. *)
IgnoreAvailableGoesOn ==
    /\ Arrives("available")
    /\ inbox' = Tail(inbox)
    /\ \/ (~AutoDownload \/ Arrived \in receiving) /\ UNCHANGED <<requesting, harmed>>
       \/ /\ "openerr" \in Faults /\ AutoDownload /\ Arrived \notin receiving
          /\ harmed' = harmed \cup {Arrived}
          /\ requesting' = Incr(requesting, Arrived)
    /\ UNCHANGED <<clientVars, registering, ending, requests, streams, served,
                   notified, manual, opened, reports, reported, discarded, flagged, early>>

(* A duplicate, auto-download is off, or the file cannot be created. *)
IgnoreAvailable ==
    /\ Arrives("available")
    /\ inbox' = Tail(inbox)
    /\ \/ (~AutoDownload \/ Arrived \in receiving) /\ UNCHANGED harmed
       \/ /\ "openerr" \in Faults /\ AutoDownload /\ Arrived \notin receiving
          /\ harmed' = harmed \cup {Arrived}
    /\ UNCHANGED <<clientVars, goroutines, requests, streams, served, notified,
                   manual, opened, reports, reported, discarded, flagged, early>>

(* Mutant: the bytes are counted before the result of Write is looked at. *)
WriteChunkCountsFirst ==
    /\ Arrives("chunk") /\ Arrived \in receiving
    /\ inbox' = Tail(inbox)
    /\ \E whole \in {TRUE} \cup (IF "writeerr" \in Faults THEN {FALSE} ELSE {}) :
        content' = [content EXCEPT ![Arrived] =
                        Append(@, [pos |-> Head(inbox).pos, whole |-> whole])]
    /\ written' = Incr(written, Arrived)
    /\ UNCHANGED <<receiving, sessions, completeFlag, goroutines, requests, streams,
                   served, notified, manual, history>>

(* FrameFileChunkServer: append the bytes, whatever the index; a failed     *)
(* write may leave a part of them.  supportsBatchAcks is never set, so no   *)
(* acknowledgment is sent, and what the session counts is not read.         *)
WriteChunk ==
    /\ Arrives("chunk") /\ Arrived \in receiving
    /\ inbox' = Tail(inbox)
    /\ \/ /\ content' = [content EXCEPT ![Arrived] =
                            Append(@, [pos |-> Head(inbox).pos, whole |-> TRUE])]
          /\ written' = Incr(written, Arrived)
       \/ /\ "writeerr" \in Faults
          /\ content' \in {content, [content EXCEPT ![Arrived] =
                            Append(@, [pos |-> Head(inbox).pos, whole |-> FALSE])]}
          /\ UNCHANGED written
    /\ UNCHANGED <<receiving, sessions, completeFlag, goroutines, requests, streams,
                   served, notified, manual, history>>

DiscardChunk ==
    /\ Arrives("chunk") /\ Arrived \notin receiving
    /\ inbox' = Tail(inbox)
    /\ discarded' = discarded \cup {Arrived}
    /\ UNCHANGED <<clientVars, goroutines, requests, streams, served, notified,
                   manual, opened, reports, reported, flagged, harmed, early>>

(* Mutant: an end that finds no session is taken for an unknown one. *)
EndDownloadNeedsSession ==
    /\ Arrives("downloadEnd") /\ Arrived \in receiving
    /\ inbox' = Tail(inbox)
    /\ ending' = IF Arrived \in sessions
                 THEN {[file |-> Arrived, hasDownload |-> TRUE]} ELSE {}
    /\ UNCHANGED <<clientVars, requesting, registering, requests, streams, served,
                   notified, manual, history>>

(* FrameFileDownloadEnd, first half: look receiver and session up, close    *)
(* the file.                                                                *)
EndDownload ==
    /\ Arrives("downloadEnd") /\ Arrived \in receiving
    /\ inbox' = Tail(inbox)
    /\ ending' = {[file |-> Arrived, hasDownload |-> Arrived \in sessions]}
    /\ UNCHANGED <<clientVars, requesting, registering, requests, streams, served,
                   notified, manual, history>>

ReportOf(f) == [file |-> f, size |-> written[f], content |-> content[f]]

(* Mutant: the receiver is forgotten only together with a session. *)
RemoveReceiverWithSession ==
    \E e \in ending :
        /\ ending' = {}
        /\ receiving' = IF e.hasDownload THEN receiving \ {e.file} ELSE receiving
        /\ sessions' = IF e.hasDownload THEN sessions \ {e.file} ELSE sessions
        /\ reports' = Incr(reports, e.file)
        /\ reported' = reported \cup {ReportOf(e.file)}
        /\ UNCHANGED <<content, written, completeFlag, requesting, registering,
                       network, opened, discarded, flagged, harmed, early>>

(* Second half: forget both and start onFileReceived.  A session registered *)
(* in between stays.                                                        *)
RemoveReceiver ==
    \E e \in ending :
        /\ ending' = {}
        /\ receiving' = receiving \ {e.file}
        /\ sessions' = IF e.hasDownload THEN sessions \ {e.file} ELSE sessions
        /\ reports' = Incr(reports, e.file)
        /\ reported' = reported \cup {ReportOf(e.file)}
        /\ UNCHANGED <<content, written, completeFlag, requesting, registering,
                       network, opened, discarded, flagged, harmed, early>>

(* FrameVirtualStreamEnd for a receiver: as above, but the session stays. *)
EndVirtual ==
    /\ Arrives("virtualEnd") /\ Arrived \in receiving
    /\ inbox' = Tail(inbox)
    /\ receiving' = receiving \ {Arrived}
    /\ reports' = Incr(reports, Arrived)
    /\ reported' = reported \cup {ReportOf(Arrived)}
    /\ UNCHANGED <<content, written, sessions, completeFlag, goroutines, requests,
                   streams, served, notified, manual, opened, discarded, flagged,
                   harmed, early>>

(* An end for a file without a receiver is an error and changes nothing. *)
EndUnknown ==
    /\ Arrives("downloadEnd") \/ Arrives("virtualEnd")
    /\ Arrived \notin receiving
    /\ inbox' = Tail(inbox)
    /\ UNCHANGED <<clientVars, goroutines, requests, streams, served, notified,
                   manual, history>>

(* FrameFileAck with IsFileEnd: one flag for all files. *)
HandleFileEndAck ==
    /\ Arrives("fileEndAck")
    /\ inbox' = Tail(inbox)
    /\ completeFlag' = TRUE
    /\ sessions' = sessions \ {Arrived}
    /\ UNCHANGED <<receiving, content, written, goroutines, requests, streams,
                   served, notified, manual, history>>

(* Client.IsDownloadComplete.  supportsBatchAcks of the handler is always   *)
(* set, so the session is looked up for nothing.                            *)
IsDownloadComplete(f) == completeFlag

-----------------------------------------------------------------------------
(* Server and network: external. *)

SrvNotify(f) ==
    /\ Within(notified + 1, manual)
    /\ notified' = notified + 1
    /\ inbox' = Append(inbox, Control("available", f))
    /\ UNCHANGED <<clientVars, goroutines, requests, streams, served, manual, history>>

SrvServe(f) ==
    /\ requests[f] > 0
    /\ requests' = Decr(requests, f)
    /\ streams' = streams \cup {[file |-> f, id |-> served, next |-> 1, ended |-> FALSE]}
    /\ served' = served + 1
    /\ UNCHANGED <<clientVars, goroutines, inbox, notified, manual, history>>

(* A chunk; a stream whose end has been sent is over behind the last one. *)
SrvSend(s) ==
    /\ s.next <= Chunks
    /\ inbox' = Append(inbox, [kind |-> "chunk", file |-> s.file, pos |-> s.next])
    /\ streams' = (streams \ {s}) \cup
          (IF s.ended /\ s.next = Chunks THEN {}
           ELSE {[file |-> s.file, id |-> s.id, next |-> s.next + 1, ended |-> s.ended]})
    /\ UNCHANGED <<clientVars, goroutines, requests, served, notified, manual, history>>

(* The end, in one of the two forms the client takes, and before it perhaps *)
(* the acknowledgment with IsFileEnd: behind the last chunk, or before it,  *)
(* and then the chunks that are left follow it.                             *)
SrvEnd(s) ==
    /\ ~s.ended
    /\ s.next = Chunks + 1 \/ "early" \in Faults
    /\ streams' = (streams \ {s}) \cup
          (IF s.next = Chunks + 1 THEN {}
           ELSE {[file |-> s.file, id |-> s.id, next |-> s.next, ended |-> TRUE]})
    /\ early' = IF s.next = Chunks + 1 THEN early ELSE early \cup {s.file}
    /\ \E kind \in {"downloadEnd", "virtualEnd"} :
        \/ /\ inbox' = Append(inbox, Control(kind, s.file))
           /\ UNCHANGED flagged
        \/ /\ inbox' = Append(Append(inbox, Control("fileEndAck", s.file)),
                              Control(kind, s.file))
           /\ flagged' = flagged \cup {s.file}
    /\ UNCHANGED <<clientVars, goroutines, requests, served, notified, manual,
                   opened, reports, reported, discarded, harmed>>

LoseRequest(f) ==
    /\ "lose" \in Faults /\ requests[f] > 0
    /\ requests' = Decr(requests, f)
    /\ harmed' = harmed \cup {f}
    /\ UNCHANGED <<clientVars, goroutines, inbox, streams, served, notified, manual,
                   opened, reports, reported, discarded, flagged, early>>

(* A frame that a full recvCh of the HTTP transports or a broken connection *)
(* takes away; that this happens when it is the next one loses nothing.     *)
LoseFrame ==
    /\ "lose" \in Faults /\ ending = {} /\ inbox # <<>>
    /\ inbox' = Tail(inbox)
    /\ harmed' = harmed \cup {Arrived}
    /\ UNCHANGED <<clientVars, goroutines, requests, streams, served, notified,
                   manual, opened, reports, reported, discarded, flagged, early>>

-----------------------------------------------------------------------------
Reader ==
    \/ OpenReceiver \/ IgnoreAvailable \/ WriteChunk \/ DiscardChunk
    \/ EndDownload \/ RemoveReceiver \/ EndVirtual \/ EndUnknown \/ HandleFileEndAck

Server(f) ==
    \/ SrvServe(f)
    \/ \E s \in streams : s.file = f /\ (SrvSend(s) \/ SrvEnd(s))

Next ==
    \/ Reader
    \/ LoseFrame
    \/ \E f \in Files :
        \/ AppDownloads(f) \/ Request(f) \/ RequestFails(f) \/ Register(f)
        \/ SrvNotify(f) \/ Server(f) \/ LoseRequest(f)

(* Goroutines run; a request that is not lost is served to its end.  *)
Fairness ==
    /\ WF_vars(Reader)
    /\ \A f \in Files :
        WF_vars(Request(f)) /\ WF_vars(Register(f)) /\ WF_vars(Server(f))

Spec == Init /\ [][Next]_vars /\ Fairness

-----------------------------------------------------------------------------
(* Properties. *)

(* Every variable has its type. *)
TypeOK ==
    /\ receiving \subseteq Files /\ sessions \subseteq Files
    /\ content \in [Files -> Seq(Piece)] /\ written \in [Files -> Nat]
    /\ completeFlag \in BOOLEAN
    /\ requesting \in [Files -> Nat] /\ registering \in [Files -> Nat]
    /\ ending \subseteq [file : Files, hasDownload : BOOLEAN]
    /\ requests \in [Files -> Nat] /\ inbox \in Seq(Frame)
    /\ streams \subseteq Stream /\ served \in Nat
    /\ notified \in 0..MaxNotify /\ manual \in 0..MaxManual
    /\ opened \in [Files -> Nat] /\ reports \in [Files -> Nat]
    /\ reported \subseteq Report
    /\ discarded \subseteq Files /\ flagged \subseteq Files
    /\ harmed \subseteq Files /\ early \subseteq Files

(* Every receiver that a notification opened is reported exactly once, or   *)
(* is still there: no notification overwrites one that is receiving, and no *)
(* end, of either form, is taken twice.                                     *)
OneReportPerReceiver ==
    \A f \in Files :
        opened[f] = reports[f] + (IF f \in receiving THEN 1 ELSE 0)

(* The application leaves downloads to the notifications.  DownloadFile has  *)
(* no check of its own: called for a file that is also downloaded           *)
(* automatically, it makes the server send the file twice into one receiver.*)
OnlyAutomatic == manual = 0

(* Nor does the server end a download early.  It may, and then late chunks   *)
(* of it can be written into the receiver that the next notification of the  *)
(* file opens.                                                               *)
OneStreamPerReceiver == OnlyAutomatic /\ early = {}

(* Although chunks are appended without a look at their index, what is      *)
(* written is in file order and nothing is in it twice, with lost frames,   *)
(* failed writes and repeated notifications.                                *)
WrittenInOrder ==
    OneStreamPerReceiver =>
        \A f \in Files : \A i, j \in DOMAIN content[f] :
            i < j => content[f][i].pos < content[f][j].pos

(* A received file reported with its full size holds the whole file: a size *)
(* that agrees with the notification cannot hide a gap, a repetition or a   *)
(* partial write, also where the server has ended the download early, as    *)
(* long as it is not announced, and opened, again.                          *)
SizeTellsLoss ==
    OnlyAutomatic =>
        \A r \in reported :
            r.size = Chunks /\ (r.file \in early => opened[r.file] = 1) =>
                r.content = [i \in 1..Chunks |-> [pos |-> i, whole |-> TRUE]]

(* Receivers, sessions, requests and the reader together keep the promise of *)
(* FileDelivery: what is written stays, in order, and is delivered as it is, *)
(* with the size that the whole pieces of it have.                           *)
Delivery == INSTANCE FileDelivery WITH
    open <- receiving, pieces <- content, delivered <- reported, mixed <- ~OneStreamPerReceiver

ImplementsDelivery == Delivery!Spec

(* A chunk is discarded only after a download of its file has completed, as *)
(* the message of the branch that discards it says.                         *)
DiscardOnlyLate == \A f \in discarded : reports[f] > 0

(* With automatic downloads that is true: a chunk that finds no receiver is *)
(* a late one of a download whose end came before it and was reported, and  *)
(* never one that came before its receiver or of a file that has none       *)
(* because it could not be created.                                         *)
LateChunksOnly == OnlyAutomatic => DiscardOnlyLate

(* "Late chunk after download completed, discarding", says that branch: no   *)
(* late chunk gets into a file.  As long as nothing is lost and no write     *)
(* fails, every file that is not empty then begins with its first chunk.     *)
(* The code does not keep this.                                              *)
LateChunksDiscarded ==
    OnlyAutomatic /\ Faults \subseteq {"early"} =>
        \A f \in Files : content[f] # <<>> => content[f][1].pos = 1

(* A file that is announced, and of which nothing is lost, is received and  *)
(* reported, whatever happens to the others.                                *)
DownloadCompletes ==
    \A f \in Files :
        (\E i \in DOMAIN inbox : inbox[i] = Control("available", f)) /\ AutoDownload
            ~> reports[f] > 0 \/ f \in harmed

(* IsDownloadComplete(fileID) is true only if the server sent IsFileEnd for *)
(* that file, as its comment says.  The code does not keep this.            *)
CompletionIsPerFile == \A f \in Files : IsDownloadComplete(f) => f \in flagged
=============================================================================
