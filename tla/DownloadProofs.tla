--------------------------- MODULE DownloadProofs ---------------------------
(***************************************************************************)
(* Proofs about Download, for any files, number of chunks, notifications   *)
(* and set of faults.                                                      *)
(***************************************************************************)
EXTENDS Download, FiniteSetTheorems, TLAPS

-----------------------------------------------------------------------------
(* The inductive invariant. *)

(* The End handler is one goroutine's, and its receiver is still there. *)
EndingReceives ==
    /\ \A d, e \in ending : d = e
    /\ \A e \in ending : e.file \in receiving

(* written counts pieces, and all of them only if all are whole. *)
WrittenCounts ==
    \A f \in Files :
        /\ written[f] <= Len(content[f])
        /\ written[f] = Len(content[f]) =>
              \A i \in DOMAIN content[f] : content[f][i].whole

(* What holds whoever asks for a file. *)
Counts == EndingReceives /\ WrittenCounts /\ OneReportPerReceiver

(* Positions grow by at least one from piece to piece. *)
Spaced ==
    \A f \in Files : \A i \in DOMAIN content[f] :
        /\ content[f][i].pos >= i
        /\ \A j \in DOMAIN content[f] :
              i <= j => content[f][j].pos - content[f][i].pos >= j - i

(* Frames that belong to a download, and where a file's download is. *)
IsEnd(m) == m.kind \in {"downloadEnd", "virtualEnd"}
IsData(m) == m.kind = "chunk" \/ IsEnd(m)
Clear(f) == \A i \in DOMAIN inbox : inbox[i].file = f => ~IsData(inbox[i])
Sending(f) == \E s \in streams : s.file = f
Ending(f) == \E e \in ending : e.file = f

(* A file is requested once per receiver: the request, the stream, the data *)
(* on their way and the handler of the end follow one another.              *)
OneRequest ==
    \A f \in Files :
        /\ requesting[f] + requests[f] <= 1
        /\ requesting[f] + requests[f] > 0 =>
              f \in receiving /\ content[f] = <<>> /\ ~Sending(f) /\ ~Ending(f) /\ Clear(f)
        /\ Ending(f) => ~Sending(f) /\ Clear(f)

(* One stream per file, ahead of all its chunks, and not ended yet. *)
OneStream ==
    /\ \A s, t \in streams : s.file = t.file => s = t
    /\ \A s \in streams :
        /\ s.file \in receiving /\ ~s.ended
        /\ \A i \in DOMAIN inbox : inbox[i].file = s.file =>
              ~IsEnd(inbox[i]) /\ (inbox[i].kind = "chunk" => inbox[i].pos < s.next)
        /\ \A k \in DOMAIN content[s.file] : content[s.file][k].pos < s.next

(* Chunks on their way continue what was written, and the end is last. *)
DataInOrder ==
    \A i \in DOMAIN inbox : IsData(inbox[i]) =>
        /\ inbox[i].file \in receiving
        /\ inbox[i].kind = "chunk" =>
              inbox[i].pos > 0 /\
              \A k \in DOMAIN content[inbox[i].file] :
                  content[inbox[i].file][k].pos < inbox[i].pos
        /\ \A j \in DOMAIN inbox :
              i < j /\ inbox[j].file = inbox[i].file /\ IsData(inbox[j]) =>
                  /\ inbox[i].kind = "chunk"
                  /\ inbox[j].kind = "chunk" => inbox[i].pos < inbox[j].pos

(* What holds while only notifications start downloads and no download is   *)
(* ended early.                                                             *)
Order == Spaced /\ OneRequest /\ OneStream /\ DataInOrder

Single == OneStreamPerReceiver => Order

(* A file that only notifications download is nowhere before a receiver of  *)
(* it has been opened, whenever its downloads end.                          *)
Asked(f) ==
    \/ requesting[f] > 0 \/ requests[f] > 0
    \/ \E s \in streams : s.file = f
    \/ \E i \in DOMAIN inbox : inbox[i].kind = "chunk" /\ inbox[i].file = f

OpenedBefore ==
    OnlyAutomatic =>
        \A f \in Files : Asked(f) => opened[f] > 0

(* The inductive invariant. *)
IInv ==
    /\ TypeOK /\ Counts /\ Single /\ OpenedBefore
    /\ (early = {} => SizeTellsLoss) /\ LateChunksOnly

-----------------------------------------------------------------------------
(* Sequences. *)

(* A sequence without its head: same elements, one place earlier. *)
LEMMA TailFacts ==
    ASSUME NEW S, NEW q \in Seq(S), q # <<>>
    PROVE  /\ Tail(q) \in Seq(S) /\ Head(q) \in S
           /\ 1 \in DOMAIN q /\ q[1] = Head(q)
           /\ \A i \in DOMAIN Tail(q) :
                 i \in Nat /\ i + 1 \in DOMAIN q /\ Tail(q)[i] = q[i + 1]
OBVIOUS

(* A sequence with one more element. *)
LEMMA AppendFacts ==
    ASSUME NEW S, NEW q \in Seq(S), NEW e \in S
    PROVE  /\ Append(q, e) \in Seq(S)
           /\ Len(Append(q, e)) = Len(q) + 1 /\ Len(q) \in Nat
           /\ DOMAIN Append(q, e) = DOMAIN q \cup {Len(q) + 1}
           /\ Append(q, e)[Len(q) + 1] = e
           /\ \A i \in DOMAIN q : i \in Nat /\ i <= Len(q) /\ Append(q, e)[i] = q[i]
OBVIOUS

(* Counters per file. *)
LEMMA CountType ==
    ASSUME NEW c \in [Files -> Nat], NEW f \in Files
    PROVE  /\ Incr(c, f) \in [Files -> Nat]
           /\ c[f] > 0 => Decr(c, f) \in [Files -> Nat]
           /\ \A g \in Files : Incr(c, f)[g] = IF g = f THEN c[f] + 1 ELSE c[g]
           /\ \A g \in Files : Decr(c, f)[g] = IF g = f THEN c[f] - 1 ELSE c[g]
BY DEF Incr, Decr

(* The frame the reader is about to handle. *)
LEMMA ArrivedType ==
    ASSUME TypeOK, NEW kind, Arrives(kind)
    PROVE  /\ Arrived \in Files /\ Head(inbox) \in Frame /\ Head(inbox).kind = kind
           /\ Tail(inbox) \in Seq(Frame) /\ ending = {} /\ inbox # <<>>
<1>1. inbox \in Seq(Frame) /\ inbox # <<>> /\ ending = {} /\ Head(inbox).kind = kind
  BY DEF TypeOK, Arrives
<1>2. Tail(inbox) \in Seq(Frame) /\ Head(inbox) \in Frame
  BY <1>1, TailFacts
<1>3. Head(inbox).file \in Files
  BY <1>2 DEF Frame
<1> QED
  BY <1>1, <1>2, <1>3 DEF Arrived

(* The control frames of a file are frames. *)
LEMMA ControlType ==
    ASSUME NEW kind \in FrameKinds, NEW f \in Files
    PROVE  Control(kind, f) \in Frame
BY ParamAssumption DEF Control, Frame

-----------------------------------------------------------------------------
(* Types. *)

(* Every action keeps the types. *)
LEMMA TypeStep == TypeOK /\ [Next]_vars => TypeOK'
<1> SUFFICES ASSUME TypeOK, [Next]_vars PROVE TypeOK'
  OBVIOUS
<1> USE ParamAssumption
<1>1. CASE OpenReceiver
  <2>1. Arrived \in Files /\ inbox' \in Seq(Frame)
    BY <1>1, ArrivedType DEF OpenReceiver
  <2>2. requesting' \in [Files -> Nat] /\ opened' \in [Files -> Nat]
    BY <1>1, <2>1, CountType DEF OpenReceiver, TypeOK
  <2>3. content' \in [Files -> Seq(Piece)] /\ written' \in [Files -> Nat]
    BY <1>1, <2>1 DEF OpenReceiver, TypeOK
  <2> QED
    BY <1>1, <2>1, <2>2, <2>3 DEF OpenReceiver, TypeOK
<1>2. CASE IgnoreAvailable
  <2>1. Arrived \in Files /\ inbox' \in Seq(Frame)
    BY <1>2, ArrivedType DEF IgnoreAvailable
  <2> QED
    BY <1>2, <2>1 DEF IgnoreAvailable, TypeOK, clientVars, goroutines
<1>3. CASE WriteChunk
  <2>1. Arrived \in Files /\ inbox' \in Seq(Frame) /\ Head(inbox).pos \in 0..Chunks
    BY <1>3, ArrivedType DEF WriteChunk, Frame
  <2>2. ASSUME NEW b \in BOOLEAN
        PROVE  [content EXCEPT ![Arrived] = Append(@, [pos |-> Head(inbox).pos, whole |-> b])]
                 \in [Files -> Seq(Piece)]
    <3>1. [pos |-> Head(inbox).pos, whole |-> b] \in Piece
      BY <2>1 DEF Piece
    <3>2. \A q \in Seq(Piece) :
             Append(q, [pos |-> Head(inbox).pos, whole |-> b]) \in Seq(Piece)
      BY <3>1, AppendFacts
    <3> QED
      BY <2>1, <3>2 DEF TypeOK
  <2>3. content' \in [Files -> Seq(Piece)]
    BY <1>3, <2>2 DEF WriteChunk, TypeOK
  <2>4. written' \in [Files -> Nat]
    <3>1. written \in [Files -> Nat] /\ (written' = Incr(written, Arrived) \/ written' = written)
      BY <1>3 DEF WriteChunk, TypeOK
    <3> QED
      BY <2>1, <3>1, CountType
  <2> QED
    BY <1>3, <2>1, <2>3, <2>4 DEF WriteChunk, TypeOK, goroutines, history
<1>4. CASE DiscardChunk
  <2>1. Arrived \in Files /\ inbox' \in Seq(Frame)
    BY <1>4, ArrivedType DEF DiscardChunk
  <2> QED
    BY <1>4, <2>1 DEF DiscardChunk, TypeOK, clientVars, goroutines
<1>5. CASE EndDownload
  <2>1. Arrived \in Files /\ inbox' \in Seq(Frame)
    BY <1>5, ArrivedType DEF EndDownload
  <2> QED
    BY SMTT(30), <1>5, <2>1 DEF EndDownload, TypeOK, clientVars, history
<1>6. CASE RemoveReceiver
  <2>1. PICK e \in ending : RemoveReceiver!(e)
    BY <1>6 DEF RemoveReceiver
  <2>2. e.file \in Files
    BY DEF TypeOK
  <2>3. reports' \in [Files -> Nat]
    BY <2>1, <2>2, CountType DEF TypeOK
  <2>4. ReportOf(e.file) \in Report
    BY <2>2 DEF TypeOK, ReportOf, Report
  <2> QED
    BY <2>1, <2>2, <2>3, <2>4 DEF TypeOK, network
<1>7. CASE EndVirtual
  <2>1. Arrived \in Files /\ inbox' \in Seq(Frame)
    BY <1>7, ArrivedType DEF EndVirtual
  <2>2. reports' \in [Files -> Nat]
    BY <1>7, <2>1, CountType DEF EndVirtual, TypeOK
  <2>3. ReportOf(Arrived) \in Report
    BY <2>1 DEF TypeOK, ReportOf, Report
  <2> QED
    BY <1>7, <2>1, <2>2, <2>3 DEF EndVirtual, TypeOK, goroutines
<1>8. CASE EndUnknown
  <2>1. Arrived \in Files /\ inbox' \in Seq(Frame)
    BY <1>8, ArrivedType DEF EndUnknown
  <2> QED
    BY <1>8, <2>1 DEF EndUnknown, TypeOK, clientVars, goroutines, history
<1>9. CASE HandleFileEndAck
  <2>1. Arrived \in Files /\ inbox' \in Seq(Frame)
    BY <1>9, ArrivedType DEF HandleFileEndAck
  <2> QED
    BY <1>9, <2>1 DEF HandleFileEndAck, TypeOK, goroutines, history
<1>10. CASE LoseFrame
  <2>1. Arrives(Head(inbox).kind)
    BY <1>10 DEF LoseFrame, Arrives
  <2>2. inbox' \in Seq(Frame) /\ Arrived \in Files
    BY <1>10, <2>1, ArrivedType DEF LoseFrame
  <2> QED
    BY <1>10, <2>2 DEF LoseFrame, TypeOK, clientVars, goroutines
<1>11. ASSUME NEW f \in Files, AppDownloads(f) PROVE TypeOK'
  <2>1. requesting' \in [Files -> Nat]
    BY <1>11, CountType DEF AppDownloads, TypeOK
  <2>2. manual' \in 0..MaxManual
    BY <1>11 DEF AppDownloads, Within, TypeOK
  <2> QED
    BY <1>11, <2>1, <2>2 DEF AppDownloads, TypeOK, clientVars, history
<1>12. ASSUME NEW f \in Files, Request(f) PROVE TypeOK'
  <2>1. /\ requesting' \in [Files -> Nat] /\ requests' \in [Files -> Nat]
        /\ registering' \in [Files -> Nat]
    BY <1>12, CountType DEF Request, TypeOK
  <2> QED
    BY <1>12, <2>1 DEF Request, TypeOK, clientVars, history
<1>13. ASSUME NEW f \in Files, RequestFails(f) PROVE TypeOK'
  <2>1. requesting' \in [Files -> Nat]
    BY <1>13, CountType DEF RequestFails, TypeOK
  <2> QED
    BY <1>13, <2>1 DEF RequestFails, TypeOK, clientVars, network
<1>14. ASSUME NEW f \in Files, Register(f) PROVE TypeOK'
  <2>1. registering' \in [Files -> Nat]
    BY <1>14, CountType DEF Register, TypeOK
  <2> QED
    BY <1>14, <2>1 DEF Register, TypeOK, network, history
<1>15. ASSUME NEW f \in Files, SrvNotify(f) PROVE TypeOK'
  <2>1. inbox' \in Seq(Frame)
    BY <1>15, ControlType, AppendFacts DEF SrvNotify, TypeOK, FrameKinds
  <2>2. notified' \in 0..MaxNotify
    BY <1>15, ParamAssumption DEF SrvNotify, Within, TypeOK
  <2> QED
    BY <1>15, <2>1, <2>2 DEF SrvNotify, TypeOK, clientVars, goroutines, history
<1>16. ASSUME NEW f \in Files, SrvServe(f) PROVE TypeOK'
  <2>1. requests' \in [Files -> Nat]
    BY <1>16, CountType DEF SrvServe, TypeOK
  <2>2. [file |-> f, id |-> served, next |-> 1, ended |-> FALSE] \in Stream
    BY DEF TypeOK, Stream
  <2>3. streams' \subseteq Stream
    BY <1>16, <2>2 DEF SrvServe, TypeOK
  <2> QED
    BY <1>16, <2>1, <2>3 DEF SrvServe, TypeOK, clientVars, goroutines, history
<1>17. ASSUME NEW s \in streams, SrvSend(s) PROVE TypeOK'
  <2>1. s \in Stream /\ s.next \in 1..Chunks
    BY <1>17 DEF SrvSend, TypeOK, Stream
  <2>2. [kind |-> "chunk", file |-> s.file, pos |-> s.next] \in Frame
    BY <2>1 DEF Frame, FrameKinds, Stream
  <2>3. inbox' \in Seq(Frame)
    BY <1>17, <2>2, AppendFacts DEF SrvSend, TypeOK
  <2>4. [file |-> s.file, id |-> s.id, next |-> s.next + 1, ended |-> s.ended] \in Stream
    BY <2>1 DEF Stream
  <2>5. streams' \subseteq Stream
    BY <1>17, <2>4 DEF SrvSend, TypeOK
  <2> QED
    BY <1>17, <2>3, <2>5 DEF SrvSend, TypeOK, clientVars, goroutines, history
<1>18. ASSUME NEW s \in streams, SrvEnd(s) PROVE TypeOK'
  <2>1. s.file \in Files
    BY DEF TypeOK, Stream
  <2>2. \A kind \in FrameKinds, q \in Seq(Frame) : Append(q, Control(kind, s.file)) \in Seq(Frame)
    BY <2>1, ControlType, AppendFacts
  <2>3. inbox' \in Seq(Frame)
    BY <1>18, <2>2 DEF SrvEnd, TypeOK, FrameKinds
  <2>4. [file |-> s.file, id |-> s.id, next |-> s.next, ended |-> TRUE] \in Stream
    BY DEF TypeOK, Stream
  <2>5. streams' \subseteq Stream
    BY <1>18, <2>4 DEF SrvEnd, TypeOK
  <2> QED
    BY <1>18, <2>1, <2>3, <2>5 DEF SrvEnd, TypeOK, clientVars, goroutines
<1>19. ASSUME NEW f \in Files, LoseRequest(f) PROVE TypeOK'
  <2>1. requests' \in [Files -> Nat]
    BY <1>19, CountType DEF LoseRequest, TypeOK
  <2> QED
    BY <1>19, <2>1 DEF LoseRequest, TypeOK, clientVars, goroutines
<1>20. CASE UNCHANGED vars
  BY <1>20 DEF TypeOK, vars, clientVars, goroutines, network, history
<1> QED
  BY <1>1, <1>2, <1>3, <1>4, <1>5, <1>6, <1>7, <1>8, <1>9, <1>10, <1>11, <1>12, <1>13,
     <1>14, <1>15, <1>16, <1>17, <1>18, <1>19, <1>20 DEF Next, Reader, Server

(* Every reachable state has the types. *)
THEOREM TypeCorrect == Spec => []TypeOK
<1>1. Init => TypeOK
  <2> SUFFICES ASSUME Init PROVE TypeOK
    OBVIOUS
  <2>1. content \in [Files -> Seq(Piece)] /\ inbox \in Seq(Frame)
    BY DEF Init
  <2>2. None \in [Files -> Nat]
    BY DEF None
  <2>3. notified \in 0..MaxNotify /\ manual \in 0..MaxManual
    BY ParamAssumption DEF Init
  <2> QED
    BY <2>1, <2>2, <2>3 DEF Init, TypeOK
<1> QED
  BY <1>1, TypeStep, PTL DEF Spec

-----------------------------------------------------------------------------
(* Counting. *)

counted == <<receiving, ending, content, written, opened, reports>>

(* Every action keeps the counts. *)
LEMMA CountsStep == TypeOK /\ Counts /\ [Next]_vars => Counts'
<1> SUFFICES ASSUME TypeOK, Counts, [Next]_vars PROVE Counts'
  OBVIOUS
<1>0. UNCHANGED counted => Counts'
  BY DEF counted, Counts, EndingReceives, WrittenCounts, OneReportPerReceiver
<1>1. CASE OpenReceiver
  <2>1. Arrived \in Files /\ ending = {} /\ ending' = {} /\ Arrived \notin receiving
    BY <1>1, ArrivedType DEF OpenReceiver
  <2>2. EndingReceives'
    BY <2>1 DEF EndingReceives
  <2>3. WrittenCounts'
    BY SMTT(30), <1>1, <2>1 DEF Counts, WrittenCounts, OpenReceiver, TypeOK
  <2>4. OneReportPerReceiver'
    <3>1. \A g \in Files : opened'[g] = IF g = Arrived THEN opened[g] + 1 ELSE opened[g]
      <4>1. opened \in [Files -> Nat] /\ opened' = Incr(opened, Arrived)
        BY <1>1 DEF OpenReceiver, TypeOK
      <4> QED
        BY <2>1, <4>1, CountType
    <3>2. reports' = reports /\ receiving' = receiving \cup {Arrived}
      BY <1>1 DEF OpenReceiver
    <3>3. \A g \in Files : opened[g] \in Nat /\ reports[g] \in Nat
      BY DEF TypeOK
    <3> QED
      BY <2>1, <3>1, <3>2, <3>3 DEF Counts, OneReportPerReceiver
  <2> QED
    BY <2>2, <2>3, <2>4 DEF Counts
<1>2. CASE WriteChunk
  <2>1. Arrived \in Files
    BY <1>2, ArrivedType DEF WriteChunk
  <2>2. EndingReceives' /\ OneReportPerReceiver'
    BY <1>2 DEF WriteChunk, Counts, EndingReceives, OneReportPerReceiver, goroutines, history
  <2>3. ASSUME NEW g \in Files
        PROVE  /\ written'[g] <= Len(content'[g])
               /\ written'[g] = Len(content'[g]) =>
                     \A i \in DOMAIN content'[g] : content'[g][i].whole
    <3> DEFINE piece(b) == [pos |-> Head(inbox).pos, whole |-> b]
               q == content[g]
    <3>1. written[g] \in Nat /\ q \in Seq(Piece) /\ Len(q) \in Nat
      BY DEF TypeOK
    <3>2. /\ written[g] <= Len(q)
          /\ written[g] = Len(q) => \A i \in DOMAIN q : q[i].whole
      BY DEF Counts, WrittenCounts
    <3>3. \/ content'[g] = q /\ written'[g] = written[g]
          \/ content'[g] = Append(q, piece(TRUE)) /\ written'[g] = written[g] + 1
          \/ content'[g] = Append(q, piece(FALSE)) /\ written'[g] = written[g]
      <4>1. written \in [Files -> Nat] /\ content \in [Files -> Seq(Piece)]
        BY DEF TypeOK
      <4>2. \/ /\ content' = [content EXCEPT ![Arrived] = Append(@, piece(TRUE))]
               /\ written' = Incr(written, Arrived)
            \/ content' = content /\ written' = written
            \/ /\ content' = [content EXCEPT ![Arrived] = Append(@, piece(FALSE))]
               /\ written' = written
        BY <1>2 DEF WriteChunk
      <4> HIDE DEF piece
      <4>3. Incr(written, Arrived)[g] = IF g = Arrived THEN written[g] + 1 ELSE written[g]
        BY SMTT(30), <2>1, <4>1, CountType
      <4>4. \A p : [content EXCEPT ![Arrived] = Append(@, p)][g] =
                     IF g = Arrived THEN Append(q, p) ELSE q
        BY <2>1, <4>1
      <4> QED
        BY <4>2, <4>3, <4>4
    <3>4. \A b \in BOOLEAN : piece(b) \in Piece
      <4>1. Head(inbox).pos \in 0..Chunks
        BY <1>2, ArrivedType DEF WriteChunk, Frame
      <4> QED
        BY <4>1 DEF Piece
    <3>5. ASSUME NEW p \in Piece
          PROVE  /\ Len(Append(q, p)) = Len(q) + 1
                 /\ \A i \in DOMAIN Append(q, p) :
                       (i \in DOMAIN q /\ Append(q, p)[i] = q[i]) \/ Append(q, p)[i] = p
      BY <3>1, AppendFacts
    <3>6. piece(TRUE).whole
      OBVIOUS
    <3> HIDE DEF q, piece
    <3>10. piece(TRUE) \in Piece /\ piece(FALSE) \in Piece
      BY <3>4
    <3>7. CASE content'[g] = q /\ written'[g] = written[g]
      BY <3>2, <3>7
    <3>8. CASE content'[g] = Append(q, piece(TRUE)) /\ written'[g] = written[g] + 1
      <4>1. Len(Append(q, piece(TRUE))) = Len(q) + 1
        BY <3>5, <3>10
      <4>2. written[g] = Len(q) =>
              \A i \in DOMAIN Append(q, piece(TRUE)) : Append(q, piece(TRUE))[i].whole
        BY <3>2, <3>5, <3>6, <3>10
      <4> QED
        <5>1. content'[g] = Append(q, piece(TRUE)) /\ Len(content'[g]) = Len(q) + 1
          BY <3>8, <4>1
        <5>2. written'[g] = written[g] + 1
          BY <3>8
        <5>3. written'[g] <= Len(content'[g])
          BY <3>1, <3>2, <5>1, <5>2
        <5>4. written'[g] = Len(content'[g]) => written[g] = Len(q)
          BY <3>1, <5>1, <5>2
        <5> QED
          BY <4>2, <5>1, <5>3, <5>4
    <3>9. CASE content'[g] = Append(q, piece(FALSE)) /\ written'[g] = written[g]
      <4>1. Len(Append(q, piece(FALSE))) = Len(q) + 1
        BY <3>5, <3>10
      <4> QED
        <5>1. Len(content'[g]) = Len(q) + 1 /\ written'[g] = written[g]
          BY <3>9, <4>1
        <5>2. written'[g] <= Len(content'[g]) /\ written'[g] # Len(content'[g])
          BY <3>1, <3>2, <5>1
        <5> QED
          BY <5>2
    <3> QED
      BY <3>3, <3>7, <3>8, <3>9
  <2> QED
    BY <2>2, <2>3 DEF Counts, WrittenCounts
<1>3. CASE EndDownload
  <2>1. ending' = {[file |-> Arrived, hasDownload |-> Arrived \in sessions]}
        /\ Arrived \in receiving /\ UNCHANGED <<receiving, content, written, opened, reports>>
    BY <1>3 DEF EndDownload, clientVars, history
  <2> QED
    BY <2>1 DEF Counts, EndingReceives, WrittenCounts, OneReportPerReceiver
<1>4. ASSUME NEW f \in receiving, receiving' = receiving \ {f}, reports' = Incr(reports, f),
             ending' = {}, UNCHANGED <<content, written, opened>>
      PROVE  Counts'
  <2>1. f \in Files
    BY DEF TypeOK
  <2>2. \A g \in Files : reports'[g] = IF g = f THEN reports[g] + 1 ELSE reports[g]
    <3>1. reports \in [Files -> Nat] /\ reports' = Incr(reports, f)
      BY <1>4 DEF TypeOK
    <3> QED
      BY <2>1, <3>1, CountType
  <2>3. \A g \in Files : opened[g] \in Nat /\ reports[g] \in Nat
    BY DEF TypeOK
  <2>4. OneReportPerReceiver'
    BY <1>4, <2>2, <2>3 DEF Counts, OneReportPerReceiver
  <2> QED
    BY <1>4, <2>4 DEF Counts, EndingReceives, WrittenCounts
<1>5. CASE RemoveReceiver
  <2>1. PICK e \in ending : RemoveReceiver!(e)
    BY <1>5 DEF RemoveReceiver
  <2>2. e.file \in receiving
    BY DEF Counts, EndingReceives
  <2> QED
    BY <1>4, <2>1, <2>2
<1>6. CASE EndVirtual
  <2>1. ending' = {}
    BY <1>6, ArrivedType DEF EndVirtual, goroutines
  <2> QED
    BY <1>4, <1>6, <2>1 DEF EndVirtual
<1>7. CASE IgnoreAvailable \/ DiscardChunk \/ EndUnknown \/ HandleFileEndAck \/ LoseFrame
  BY <1>0, <1>7 DEF IgnoreAvailable, DiscardChunk, EndUnknown, HandleFileEndAck, LoseFrame,
     counted, clientVars, goroutines, history
<1>8. ASSUME NEW f \in Files,
             AppDownloads(f) \/ Request(f) \/ RequestFails(f) \/ Register(f)
               \/ SrvNotify(f) \/ SrvServe(f) \/ LoseRequest(f)
      PROVE  Counts'
  BY <1>0, <1>8 DEF AppDownloads, Request, RequestFails, Register, SrvNotify, SrvServe,
     LoseRequest, counted, clientVars, goroutines, history
<1>9. ASSUME NEW s \in streams, SrvSend(s) \/ SrvEnd(s) PROVE Counts'
  BY <1>0, <1>9 DEF SrvSend, SrvEnd, counted, clientVars, goroutines, history
<1>10. CASE UNCHANGED vars
  BY <1>0, <1>10 DEF vars, counted, clientVars, goroutines, history
<1> QED
  BY <1>1, <1>2, <1>3, <1>5, <1>6, <1>7, <1>8, <1>9, <1>10 DEF Next, Reader, Server

(* Every receiver is reported once or is still there, whoever asks for      *)
(* files and whatever fails.                                                *)
THEOREM EachReceiverReportedOnce == Spec => []OneReportPerReceiver
<1>1. Init => Counts
  BY DEF Init, Counts, EndingReceives, WrittenCounts, OneReportPerReceiver, None
<1>2. Counts => OneReportPerReceiver
  BY DEF Counts
<1> QED
  BY <1>1, <1>2, CountsStep, TypeCorrect, PTL DEF Spec

-----------------------------------------------------------------------------
(* Order: what holds while downloads are started by notifications only. *)

(* Components of frames, streams and pieces. *)
LEMMA Components ==
    ASSUME TypeOK
    PROVE  /\ \A i \in DOMAIN inbox :
                 i \in Nat /\ inbox[i].file \in Files /\ inbox[i].pos \in 0..Chunks
           /\ \A s \in streams : s.file \in Files /\ s.next \in 1..(Chunks + 1)
           /\ \A f \in Files : \A i \in DOMAIN content[f] :
                 i \in Nat /\ content[f][i].pos \in 0..Chunks
<1>1. inbox \in Seq(Frame)
  BY DEF TypeOK
<1>2. \A i \in DOMAIN inbox : i \in Nat /\ inbox[i] \in Frame
  BY <1>1
<1>3. \A s \in streams : s \in Stream
  BY DEF TypeOK
<1>4. \A f \in Files : content[f] \in Seq(Piece)
  BY DEF TypeOK
<1>5. \A f \in Files : \A i \in DOMAIN content[f] : i \in Nat /\ content[f][i] \in Piece
  BY <1>4
<1> QED
  BY <1>2, <1>3, <1>5 DEF Frame, Stream, Piece

ordered == <<receiving, content, requesting, requests, streams, ending, inbox>>

(* Order survives the reader taking a frame without any other effect. *)
LEMMA Consumed ==
    ASSUME TypeOK, Order, inbox # <<>>, inbox' = Tail(inbox),
           UNCHANGED <<receiving, content, requesting, requests, streams, ending>>
    PROVE  Order'
<1>1. \A i \in DOMAIN inbox' : i \in Nat /\ i + 1 \in DOMAIN inbox /\ inbox'[i] = inbox[i + 1]
  BY TailFacts DEF TypeOK
<1>2. \A f : Clear(f) => Clear(f)'
  BY <1>1 DEF Clear
<1>3. Spaced'
  BY DEF Order, Spaced
<1>4. OneRequest'
  BY <1>2 DEF Order, OneRequest, Sending, Ending
<1>5. OneStream'
  BY SMTT(30), <1>1 DEF Order, OneStream
<1>6. DataInOrder'
  <2> SUFFICES ASSUME NEW i \in DOMAIN inbox', IsData(inbox'[i])
               PROVE  DataInOrder!(i)'
    BY DEF DataInOrder
  <2>1. IsData(inbox[i + 1]) /\ inbox'[i] = inbox[i + 1] /\ i + 1 \in DOMAIN inbox
    BY <1>1
  <2>2. \A j \in DOMAIN inbox' : i < j =>
          j + 1 \in DOMAIN inbox /\ i + 1 < j + 1 /\ inbox'[j] = inbox[j + 1]
    BY <1>1
  <2> QED
    BY <2>1, <2>2 DEF Order, DataInOrder
<1> QED
  BY <1>3, <1>4, <1>5, <1>6 DEF Order

(* Order survives a frame on the inbox that belongs to no download. *)
LEMMA Announced ==
    ASSUME TypeOK, Order, NEW m \in Frame, ~IsData(m), inbox' = Append(inbox, m),
           UNCHANGED <<receiving, content, requesting, requests, streams, ending>>
    PROVE  Order'
<1>1. \A i \in DOMAIN inbox' :
        (i \in DOMAIN inbox /\ inbox'[i] = inbox[i]) \/ ~IsData(inbox'[i])
  BY AppendFacts DEF TypeOK
<1>2. \A f : Clear(f) => Clear(f)'
  BY <1>1 DEF Clear
<1>3. Spaced'
  BY DEF Order, Spaced
<1>4. OneRequest'
  BY <1>2 DEF Order, OneRequest, Sending, Ending
<1>5. OneStream'
  BY <1>1 DEF Order, OneStream, IsData
<1>6. DataInOrder'
  <2> SUFFICES ASSUME NEW i \in DOMAIN inbox', IsData(inbox'[i])
               PROVE  DataInOrder!(i)'
    BY DEF DataInOrder
  <2>1. i \in DOMAIN inbox /\ inbox'[i] = inbox[i] /\ IsData(inbox[i])
    BY <1>1
  <2>2. \A j \in DOMAIN inbox' : IsData(inbox'[j]) => j \in DOMAIN inbox /\ inbox'[j] = inbox[j]
    BY <1>1
  <2> QED
    BY <2>1, <2>2 DEF Order, DataInOrder
<1> QED
  BY <1>3, <1>4, <1>5, <1>6 DEF Order

(* The frame at the head, when it is data: its receiver is there and the    *)
(* file is neither asked for nor, when it is the end, sent any more.        *)
LEMMA HeadIsData ==
    ASSUME TypeOK, Order, inbox # <<>>, IsData(Head(inbox))
    PROVE  /\ Arrived \in Files /\ Arrived \in receiving
           /\ requesting[Arrived] + requests[Arrived] = 0
           /\ requesting[Arrived] = 0 /\ requests[Arrived] = 0
           /\ IsEnd(Head(inbox)) =>
                 /\ \A s \in streams : s.file # Arrived
                 /\ \A i \in DOMAIN Tail(inbox) :
                       Tail(inbox)[i].file = Arrived => ~IsData(Tail(inbox)[i])
<1>1. /\ 1 \in DOMAIN inbox /\ inbox[1] = Head(inbox) /\ Arrived = inbox[1].file
      /\ \A i \in DOMAIN Tail(inbox) :
            i \in Nat /\ i + 1 \in DOMAIN inbox /\ Tail(inbox)[i] = inbox[i + 1]
  BY TailFacts DEF TypeOK, Arrived
<1>2. Arrived \in Files
  BY <1>1, Components
<1>3. Arrived \in receiving
  BY <1>1 DEF Order, DataInOrder
<1>4. requesting[Arrived] \in Nat /\ requests[Arrived] \in Nat
  BY <1>2 DEF TypeOK
<1>5. ~Clear(Arrived)
  BY <1>1 DEF Clear
<1>6. requesting[Arrived] + requests[Arrived] = 0
  BY <1>2, <1>4, <1>5 DEF Order, OneRequest
<1>7. IsEnd(Head(inbox)) => \A s \in streams : s.file # Arrived
  BY <1>1 DEF Order, OneStream
<1>8. IsEnd(Head(inbox)) =>
        \A i \in DOMAIN Tail(inbox) :
            Tail(inbox)[i].file = Arrived => ~IsData(Tail(inbox)[i])
  <2> SUFFICES ASSUME IsEnd(Head(inbox)), NEW i \in DOMAIN Tail(inbox),
                      Tail(inbox)[i].file = Arrived, IsData(Tail(inbox)[i])
               PROVE  FALSE
    OBVIOUS
  <2>1. 1 < i + 1 /\ i + 1 \in DOMAIN inbox /\ inbox[i + 1].file = inbox[1].file
        /\ IsData(inbox[i + 1])
    <3>1. i \in Nat /\ i \in 1..Len(Tail(inbox))
      BY <1>1 DEF TypeOK
    <3> QED
      BY <1>1, <3>1
  <2>2. inbox[1].kind = "chunk"
    BY <1>1, <2>1 DEF Order, DataInOrder
  <2> QED
    BY <1>1, <2>2 DEF IsEnd
<1> QED
  BY <1>1, <1>2, <1>3, <1>4, <1>6, <1>7, <1>8

(* A new receiver starts with nothing of its file anywhere. *)
LEMMA OpenKeepsOrder ==
    ASSUME TypeOK, Order, Arrives("available"), OpenReceiver
    PROVE  Order'
<1>0. PICK f \in Files : f = Arrived
  <2>1. Arrived \in Files
    BY ArrivedType
  <2> QED
    BY <2>1
<1>1. f \in Files /\ f \notin receiving /\ ending = {} /\ ending' = {}
      /\ inbox # <<>> /\ inbox \in Seq(Frame)
  BY <1>0, ArrivedType DEF OpenReceiver, TypeOK
<1>2. /\ receiving' = receiving \cup {f} /\ inbox' = Tail(inbox)
      /\ requests' = requests /\ streams' = streams
      /\ content'[f] = <<>>
      /\ \A g \in Files : g # f => content'[g] = content[g]
  BY <1>0, <1>1 DEF OpenReceiver, TypeOK
<1>3. \A g \in Files : requesting'[g] = IF g = f THEN requesting[g] + 1 ELSE requesting[g]
  <2>1. requesting' = Incr(requesting, f) /\ requesting \in [Files -> Nat]
    BY <1>0 DEF OpenReceiver, TypeOK
  <2> QED
    BY <1>1, <2>1, CountType
<1>4. \A i \in DOMAIN inbox' : i \in Nat /\ i + 1 \in DOMAIN inbox /\ inbox'[i] = inbox[i + 1]
  BY <1>1, <1>2, TailFacts
<1>5. \A s \in streams : s.file # f
  BY <1>1 DEF Order, OneStream
<1>6. \A i \in DOMAIN inbox : IsData(inbox[i]) => inbox[i].file # f
  BY <1>1 DEF Order, DataInOrder
<1>7. \A g \in Files : Clear(g) => Clear(g)'
  BY <1>4 DEF Clear
<1>8. Clear(f)'
  BY <1>4, <1>6 DEF Clear
<1>9. \A g \in Files : requesting[g] \in Nat /\ requests[g] \in Nat
  BY DEF TypeOK
<1>10. requesting[f] + requests[f] = 0
  BY <1>1, <1>9 DEF Order, OneRequest
<1>11. Spaced'
  BY <1>2 DEF Order, Spaced
<1>12. OneRequest'
  <2> SUFFICES ASSUME NEW g \in Files PROVE OneRequest!(g)'
    BY DEF OneRequest
  <2>1. CASE g = f
    <3>1. requesting'[g] + requests'[g] = 1
      BY <1>2, <1>3, <1>9, <1>10, <2>1
    <3>2. g \in receiving' /\ content'[g] = <<>> /\ Clear(g)'
      BY <1>2, <1>8, <2>1
    <3>3. ~Sending(g)' /\ ~Ending(g)'
      BY <1>1, <1>2, <1>5, <2>1 DEF Sending, Ending
    <3> QED
      BY <3>1, <3>2, <3>3
  <2>2. CASE g # f
    <3>1. requesting'[g] = requesting[g] /\ requests'[g] = requests[g] /\ content'[g] = content[g]
      BY <1>2, <1>3, <2>2
    <3>2. ~Ending(g)'
      BY <1>1 DEF Ending
    <3>3. Sending(g)' = Sending(g)
      BY <1>2 DEF Sending
    <3> QED
      BY <1>2, <1>7, <3>1, <3>2, <3>3 DEF Order, OneRequest
  <2> QED
    BY <2>1, <2>2
<1>13. OneStream'
  <2>1. \A s \in streams : s.file \in Files /\ content'[s.file] = content[s.file]
    BY <1>2, <1>5, Components
  <2> QED
    BY <1>2, <1>4, <2>1 DEF Order, OneStream
<1>14. DataInOrder'
  <2> SUFFICES ASSUME NEW i \in DOMAIN inbox', IsData(inbox'[i])
               PROVE  DataInOrder!(i)'
    BY DEF DataInOrder
  <2>1. /\ IsData(inbox[i + 1]) /\ inbox'[i] = inbox[i + 1] /\ i + 1 \in DOMAIN inbox
        /\ inbox[i + 1].file # f /\ inbox[i + 1].file \in Files
    BY <1>4, <1>6, Components
  <2>2. content'[inbox'[i].file] = content[inbox[i + 1].file]
    BY <1>2, <2>1
  <2>3. \A j \in DOMAIN inbox' : i < j =>
          j + 1 \in DOMAIN inbox /\ i + 1 < j + 1 /\ inbox'[j] = inbox[j + 1]
    BY <1>4
  <2>4. inbox'[i].file \in receiving'
    BY <1>2, <2>1 DEF Order, DataInOrder
  <2> QED
    BY <2>1, <2>2, <2>3, <2>4 DEF Order, DataInOrder
<1> QED
  BY <1>11, <1>12, <1>13, <1>14 DEF Order

(* A piece lands behind everything written and before everything to come. *)
LEMMA WriteKeepsOrder ==
    ASSUME TypeOK, Order, Arrives("chunk"), WriteChunk
    PROVE  Order'
<1>0. PICK f \in Files : f = Arrived
  <2>1. Arrived \in Files
    BY ArrivedType
  <2> QED
    BY <2>1
<1>1. PICK p \in 0..Chunks : p = Head(inbox).pos
  <2>1. Head(inbox).pos \in 0..Chunks
    BY ArrivedType DEF Frame
  <2> QED
    BY <2>1
<1>2. /\ inbox # <<>> /\ inbox \in Seq(Frame) /\ inbox' = Tail(inbox)
      /\ UNCHANGED <<receiving, requesting, requests, streams, ending>>
  BY ArrivedType DEF WriteChunk, TypeOK, goroutines
<1>3. /\ 1 \in DOMAIN inbox /\ inbox[1].kind = "chunk" /\ inbox[1].file = f
      /\ inbox[1].pos = p /\ IsData(inbox[1])
      /\ \A i \in DOMAIN inbox' : i \in Nat /\ i > 0 /\ i + 1 \in DOMAIN inbox
                                  /\ inbox'[i] = inbox[i + 1]
  <2>1. inbox[1] = Head(inbox) /\ 1 \in DOMAIN inbox
    BY <1>2, TailFacts
  <2>2. \A i \in DOMAIN Tail(inbox) : i \in 1..Len(Tail(inbox)) /\ i + 1 \in DOMAIN inbox
                                     /\ Tail(inbox)[i] = inbox[i + 1]
    BY <1>2, TailFacts
  <2> QED
    BY <1>0, <1>1, <1>2, <2>1, <2>2, ArrivedType DEF Arrived, IsData
<1>4. p > 0 /\ \A k \in DOMAIN content[f] : content[f][k].pos < p
  BY <1>3 DEF Order, DataInOrder
<1>5. content[f] \in Seq(Piece)
  BY DEF TypeOK
<1>6. /\ \A g \in Files : g # f => content'[g] = content[g]
      /\ \/ content'[f] = content[f]
         \/ \E b \in BOOLEAN : content'[f] = Append(content[f], [pos |-> p, whole |-> b])
  <2>1. content \in [Files -> Seq(Piece)]
    BY DEF TypeOK
  <2>2. \/ content' = content
        \/ \E b \in BOOLEAN :
              content' = [content EXCEPT ![f] = Append(@, [pos |-> p, whole |-> b])]
    BY <1>0, <1>1 DEF WriteChunk
  <2> QED
    BY <2>1, <2>2
<1>7. \/ content'[f] = content[f]
      \/ /\ DOMAIN content'[f] = DOMAIN content[f] \cup {Len(content[f]) + 1}
         /\ Len(content[f]) \in Nat /\ content'[f][Len(content[f]) + 1].pos = p
         /\ \A k \in DOMAIN content[f] :
               k \in Nat /\ k <= Len(content[f]) /\ content'[f][k] = content[f][k]
  <2>1. CASE content'[f] = content[f]
    BY <2>1
  <2>2. ASSUME NEW b \in BOOLEAN, content'[f] = Append(content[f], [pos |-> p, whole |-> b])
        PROVE  <1>7!2
    <3>1. [pos |-> p, whole |-> b] \in Piece
      BY DEF Piece
    <3> QED
      BY <1>5, <2>2, <3>1, AppendFacts
  <2> QED
    BY <1>6, <2>1, <2>2
<1>8. \A k \in DOMAIN content'[f] :
        \/ k \in DOMAIN content[f] /\ content'[f][k] = content[f][k]
        \/ content'[f][k].pos = p
  BY <1>7
<1>9. requesting[f] + requests[f] = 0
  <2>1. IsData(Head(inbox))
    BY ArrivedType DEF IsData
  <2> QED
    BY <1>0, <1>2, <2>1, HeadIsData
<1>10. \A g : Clear(g) => Clear(g)'
  BY <1>3 DEF Clear
<1>11. Spaced'
  <2> SUFFICES ASSUME NEW g \in Files PROVE Spaced!(g)'
    BY DEF Spaced
  <2>1. CASE content'[g] = content[g]
    BY <2>1 DEF Order, Spaced
  <2>2. CASE g = f /\ <1>7!2
    <3> DEFINE n == Len(content[f])
    <3>1. ASSUME NEW i \in DOMAIN content[f]
          PROVE  i \in Nat /\ content[f][i].pos \in Nat /\ content[f][i].pos >= i
                 /\ content[f][i].pos < p /\ n >= i
      BY <1>4, <2>2, Components DEF Order, Spaced
    <3>2. p >= n + 1
      <4>1. CASE n = 0
        BY <1>4, <4>1
      <4>2. CASE n # 0
        <5>1. n \in DOMAIN content[f]
          BY <1>5, <2>2, <4>2
        <5> QED
          BY <2>2, <3>1, <5>1
      <4> QED
        BY <4>1, <4>2
    <3>3. ASSUME NEW i \in DOMAIN content[f] PROVE p - content[f][i].pos >= n + 1 - i
      <4>1. n \in DOMAIN content[f]
        BY <1>5, <2>2, <3>1
      <4>2. content[f][n].pos - content[f][i].pos >= n - i
        BY <3>1, <4>1 DEF Order, Spaced
      <4>3. content[f][n].pos \in Nat /\ content[f][n].pos < p /\ p \in Nat /\ n \in Nat
        BY <2>2, <3>1, <4>1
      <4>4. i \in Nat /\ content[f][i].pos \in Nat
        BY <3>1
      <4> HIDE DEF n
      <4> QED
        BY <4>2, <4>3, <4>4
    <3>4. ASSUME NEW i \in DOMAIN content'[f]
          PROVE  /\ content'[f][i].pos >= i
                 /\ \A j \in DOMAIN content'[f] :
                       i <= j => content'[f][j].pos - content'[f][i].pos >= j - i
      <4>1. CASE i \in DOMAIN content[f]
        <5>1. content'[f][i] = content[f][i] /\ content[f][i].pos >= i
          BY <2>2, <3>1, <4>1
        <5>2. ASSUME NEW j \in DOMAIN content'[f], i <= j
              PROVE  content'[f][j].pos - content'[f][i].pos >= j - i
          <6>1. CASE j \in DOMAIN content[f]
            <7>1. content'[f][j] = content[f][j]
              BY <2>2, <6>1
            <7>2. content[f][j].pos - content[f][i].pos >= j - i
              BY <4>1, <5>2, <6>1 DEF Order, Spaced
            <7> QED
              BY <5>1, <7>1, <7>2
          <6>2. CASE j = n + 1
            BY <2>2, <3>3, <4>1, <5>1, <6>2
          <6> QED
            BY <2>2, <6>1, <6>2
        <5> QED
          BY <5>1, <5>2
      <4>2. CASE i = n + 1
        <5>1. \A j \in DOMAIN content'[f] : i <= j => j = i
          BY <2>2, <3>1, <4>2
        <5>2. content'[f][i].pos = p
          BY <2>2, <4>2
        <5> QED
          BY <3>2, <4>2, <5>1, <5>2, <2>2
      <4> QED
        BY <2>2, <4>1, <4>2
    <3> QED
      BY <2>2, <3>4
  <2> QED
    BY <1>6, <1>7, <2>1, <2>2
<1>12. OneRequest'
  <2> SUFFICES ASSUME NEW g \in Files PROVE OneRequest!(g)'
    BY DEF OneRequest
  <2>1. g # f => content'[g] = content[g]
    BY <1>6
  <2> QED
    BY <1>2, <1>9, <1>10, <2>1 DEF Order, OneRequest, Sending, Ending
<1>13. OneStream'
  <2> SUFFICES ASSUME NEW s \in streams PROVE OneStream!2!(s)'
    BY <1>2 DEF Order, OneStream
  <2>1. s.file = f => p < s.next
    BY <1>3 DEF Order, OneStream
  <2>2. \A k \in DOMAIN content'[s.file] : content'[s.file][k].pos < s.next
    <3>1. CASE s.file = f
      BY <1>8, <2>1, <3>1 DEF Order, OneStream
    <3>2. CASE s.file # f
      <4>1. content'[s.file] = content[s.file]
        BY <1>6, <3>2, Components
      <4> QED
        BY <4>1 DEF Order, OneStream
    <3> QED
      BY <3>1, <3>2
  <2> QED
    BY <1>2, <1>3, <2>2 DEF Order, OneStream
<1>14. DataInOrder'
  <2> SUFFICES ASSUME NEW i \in DOMAIN inbox', IsData(inbox'[i])
               PROVE  DataInOrder!(i)'
    BY DEF DataInOrder
  <2>1. /\ IsData(inbox[i + 1]) /\ inbox'[i] = inbox[i + 1] /\ i + 1 \in DOMAIN inbox
        /\ inbox[i + 1].file \in Files /\ 1 < i + 1
    BY <1>3, Components
  <2>2. inbox'[i].file \in receiving'
    BY <1>2, <2>1 DEF Order, DataInOrder
  <2>3. \A j \in DOMAIN inbox' : i < j =>
          j + 1 \in DOMAIN inbox /\ i + 1 < j + 1 /\ inbox'[j] = inbox[j + 1]
    BY <1>3
  <2>4. ASSUME inbox'[i].kind = "chunk"
        PROVE  inbox'[i].pos > 0 /\ \A k \in DOMAIN content'[inbox'[i].file] :
                  content'[inbox'[i].file][k].pos < inbox'[i].pos
    <3>1. CASE inbox'[i].file = f
      <4>1. p < inbox[i + 1].pos
        BY <1>3, <2>1, <2>4, <3>1 DEF Order, DataInOrder
      <4> QED
        BY <1>8, <2>1, <2>4, <3>1, <4>1 DEF Order, DataInOrder
    <3>2. CASE inbox'[i].file # f
      <4>1. content'[inbox'[i].file] = content[inbox[i + 1].file]
        BY <1>6, <2>1, <3>2
      <4> QED
        BY <2>1, <2>4, <4>1 DEF Order, DataInOrder
    <3> QED
      BY <3>1, <3>2
  <2> QED
    BY <2>1, <2>2, <2>3, <2>4 DEF Order, DataInOrder
<1> QED
  BY <1>11, <1>12, <1>13, <1>14 DEF Order

(* A download that ends leaves nothing behind: the first half of the        *)
(* handler of FileEnd takes the end off the inbox ...                       *)
LEMMA EndKeepsOrder ==
    ASSUME TypeOK, Order, Arrives("downloadEnd"), EndDownload
    PROVE  Order'
<1>0. PICK f \in Files : f = Arrived
  <2>1. Arrived \in Files
    BY ArrivedType
  <2> QED
    BY <2>1
<1>1. /\ inbox # <<>> /\ inbox' = Tail(inbox) /\ IsEnd(Head(inbox)) /\ IsData(Head(inbox))
      /\ UNCHANGED <<receiving, content, requesting, requests, streams>>
      /\ \A e \in ending' : e.file = f
  BY <1>0, ArrivedType DEF EndDownload, clientVars, IsEnd, IsData
<1>2. /\ requesting[f] + requests[f] = 0 /\ \A s \in streams : s.file # f
      /\ \A i \in DOMAIN Tail(inbox) : Tail(inbox)[i].file = f => ~IsData(Tail(inbox)[i])
  BY <1>0, <1>1, HeadIsData
<1>3. \A i \in DOMAIN inbox' : i \in Nat /\ i + 1 \in DOMAIN inbox /\ inbox'[i] = inbox[i + 1]
  BY <1>1, TailFacts DEF TypeOK
<1>4. \A g : Clear(g) => Clear(g)'
  BY <1>3 DEF Clear
<1>5. Clear(f)' /\ ~Sending(f)'
  BY <1>1, <1>2 DEF Clear, Sending
<1>6. Spaced'
  BY <1>1 DEF Order, Spaced
<1>7. OneRequest'
  <2> SUFFICES ASSUME NEW g \in Files PROVE OneRequest!(g)'
    BY DEF OneRequest
  <2>1. CASE g = f
    BY <1>1, <1>2, <1>5, <2>1
  <2>2. CASE g # f
    BY <1>1, <1>4, <2>2 DEF Order, OneRequest, Sending, Ending
  <2> QED
    BY <2>1, <2>2
<1>8. OneStream'
  <2> SUFFICES ASSUME NEW s \in streams PROVE OneStream!2!(s)'
    BY <1>1 DEF Order, OneStream
  <2>1. s.file \in receiving' /\ ~s.ended /\ content' = content
    BY <1>1 DEF Order, OneStream
  <2>2. \A k \in DOMAIN content'[s.file] : content'[s.file][k].pos < s.next
    BY <2>1 DEF Order, OneStream
  <2>3. \A i \in DOMAIN inbox' : inbox'[i].file = s.file =>
          ~IsEnd(inbox'[i]) /\ (inbox'[i].kind = "chunk" => inbox'[i].pos < s.next)
    BY <1>3 DEF Order, OneStream
  <2> QED
    BY <2>1, <2>2, <2>3
<1>9. DataInOrder'
  <2> SUFFICES ASSUME NEW i \in DOMAIN inbox', IsData(inbox'[i])
               PROVE  DataInOrder!(i)'
    BY DEF DataInOrder
  <2>1. IsData(inbox[i + 1]) /\ inbox'[i] = inbox[i + 1] /\ i + 1 \in DOMAIN inbox
    BY <1>3
  <2>2. \A j \in DOMAIN inbox' : i < j =>
          j + 1 \in DOMAIN inbox /\ i + 1 < j + 1 /\ inbox'[j] = inbox[j + 1]
    BY <1>3
  <2> QED
    BY <1>1, <2>1, <2>2 DEF Order, DataInOrder
<1> QED
  BY <1>6, <1>7, <1>8, <1>9 DEF Order

(* ... and the removal of a receiver finds its file nowhere else. *)
LEMMA RemoveKeepsOrder ==
    ASSUME TypeOK, Order, NEW f \in Files, requesting[f] + requests[f] = 0,
           ~Sending(f), Clear(f), receiving' = receiving \ {f}, ending' = {},
           UNCHANGED <<inbox, content, requesting, requests, streams>>
    PROVE  Order'
<1>1. Spaced'
  BY DEF Order, Spaced
<1>2. OneRequest'
  BY DEF Order, OneRequest, Sending, Ending, Clear
<1>3. OneStream'
  BY DEF Order, OneStream, Sending
<1>4. DataInOrder'
  BY DEF Order, DataInOrder, Clear
<1> QED
  BY <1>1, <1>2, <1>3, <1>4 DEF Order

(* The same in one step, for the end of a virtual stream. *)
LEMMA VirtualEndKeepsOrder ==
    ASSUME TypeOK, Order, Arrives("virtualEnd"), EndVirtual
    PROVE  Order'
<1>0. PICK f \in Files : f = Arrived
  <2>1. Arrived \in Files
    BY ArrivedType
  <2> QED
    BY <2>1
<1>1. /\ inbox # <<>> /\ inbox' = Tail(inbox) /\ IsEnd(Head(inbox)) /\ IsData(Head(inbox))
      /\ UNCHANGED <<content, requesting, requests, streams>>
      /\ ending = {} /\ ending' = {} /\ receiving' = receiving \ {f}
  BY <1>0, ArrivedType DEF EndVirtual, goroutines, IsEnd, IsData
<1>2. /\ requesting[f] + requests[f] = 0 /\ \A s \in streams : s.file # f
      /\ \A i \in DOMAIN Tail(inbox) : Tail(inbox)[i].file = f => ~IsData(Tail(inbox)[i])
  BY <1>0, <1>1, HeadIsData
<1>3. \A i \in DOMAIN inbox' : i \in Nat /\ i + 1 \in DOMAIN inbox /\ inbox'[i] = inbox[i + 1]
  BY <1>1, TailFacts DEF TypeOK
<1>4. \A g : Clear(g) => Clear(g)'
  BY <1>3 DEF Clear
<1>6. Spaced'
  BY <1>1 DEF Order, Spaced
<1>7. OneRequest'
  <2> SUFFICES ASSUME NEW g \in Files PROVE OneRequest!(g)'
    BY DEF OneRequest
  <2>1. ~Ending(g)'
    BY <1>1 DEF Ending
  <2>2. CASE g = f
    BY <1>1, <1>2, <2>1, <2>2
  <2>3. CASE g # f
    BY <1>1, <1>4, <2>1, <2>3 DEF Order, OneRequest, Sending
  <2> QED
    BY <2>2, <2>3
<1>8. OneStream'
  <2> SUFFICES ASSUME NEW s \in streams PROVE OneStream!2!(s)'
    BY <1>1 DEF Order, OneStream
  <2> QED
    BY <1>1, <1>2, <1>3 DEF Order, OneStream
<1>9. DataInOrder'
  <2> SUFFICES ASSUME NEW i \in DOMAIN inbox', IsData(inbox'[i])
               PROVE  DataInOrder!(i)'
    BY DEF DataInOrder
  <2>1. IsData(inbox[i + 1]) /\ inbox'[i] = inbox[i + 1] /\ i + 1 \in DOMAIN inbox
    BY <1>3
  <2>2. \A j \in DOMAIN inbox' : i < j =>
          j + 1 \in DOMAIN inbox /\ i + 1 < j + 1 /\ inbox'[j] = inbox[j + 1]
    BY <1>3
  <2>3. inbox'[i].file # f
    BY <1>1, <1>2
  <2>4. inbox'[i].file \in receiving'
    BY <1>1, <2>1, <2>3 DEF Order, DataInOrder
  <2> QED
    BY <1>1, <2>1, <2>2, <2>4 DEF Order, DataInOrder
<1> QED
  BY <1>6, <1>7, <1>8, <1>9 DEF Order

(* A request moves on or is given up: never more of them than before. *)
LEMMA AskingKeepsOrder ==
    ASSUME TypeOK, TypeOK', Order,
           UNCHANGED <<receiving, content, streams, ending, inbox>>,
           \A g \in Files :
               requesting'[g] + requests'[g] <= requesting[g] + requests[g]
    PROVE  Order'
<1>1. \A g \in Files : /\ requesting[g] \in Nat /\ requests[g] \in Nat
                       /\ requesting'[g] \in Nat /\ requests'[g] \in Nat
  BY DEF TypeOK
<1>2. Spaced' /\ OneStream' /\ DataInOrder'
  BY DEF Order, Spaced, OneStream, DataInOrder
<1>3. \A g : Clear(g)' = Clear(g) /\ Sending(g)' = Sending(g) /\ Ending(g)' = Ending(g)
  BY DEF Clear, Sending, Ending
<1>4. OneRequest'
  <2> SUFFICES ASSUME NEW g \in Files PROVE OneRequest!(g)'
    BY DEF OneRequest
  <2>1. /\ requesting'[g] + requests'[g] <= 1
        /\ requesting'[g] + requests'[g] > 0 => requesting[g] + requests[g] > 0
    BY <1>1 DEF Order, OneRequest
  <2> QED
    BY <1>3, <2>1 DEF Order, OneRequest
<1> QED
  BY <1>2, <1>4 DEF Order

(* The server turns the one request for a file into its one stream. *)
LEMMA ServeKeepsOrder ==
    ASSUME TypeOK, Order, NEW f \in Files, SrvServe(f)
    PROVE  Order'
<1>1. /\ requests[f] > 0 /\ UNCHANGED <<receiving, content, requesting, ending, inbox>>
  BY DEF SrvServe, clientVars, goroutines
<1> DEFINE u == [file |-> f, id |-> served, next |-> 1, ended |-> FALSE]
<1>2. streams' = streams \cup {u} /\ u.file = f /\ ~u.ended
  BY DEF SrvServe
<1> HIDE DEF u
<1>3. \A g \in Files : /\ requesting[g] \in Nat /\ requests[g] \in Nat
                       /\ requests'[g] = IF g = f THEN requests[f] - 1 ELSE requests[g]
  <2>1. requesting \in [Files -> Nat] /\ requests \in [Files -> Nat] /\ requests' = Decr(requests, f)
    BY DEF TypeOK, SrvServe
  <2> QED
    BY <2>1, CountType
<1>4. /\ f \in receiving /\ content[f] = <<>> /\ ~Sending(f) /\ ~Ending(f) /\ Clear(f)
      /\ requesting[f] + requests[f] = 1
  BY <1>1, <1>3 DEF Order, OneRequest
<1>5. requesting'[f] + requests'[f] = 0
  BY <1>1, <1>3, <1>4
<1>6. \A s \in streams : s.file # f
  BY <1>4 DEF Sending
<1>7. Spaced' /\ DataInOrder'
  BY <1>1 DEF Order, Spaced, DataInOrder
<1>8. \A g : Clear(g)' = Clear(g) /\ Ending(g)' = Ending(g) /\ (g # f => Sending(g)' = Sending(g))
  BY <1>1, <1>2 DEF Clear, Ending, Sending
<1>9. OneRequest'
  <2> SUFFICES ASSUME NEW g \in Files PROVE OneRequest!(g)'
    BY DEF OneRequest
  <2>1. CASE g = f
    BY <1>4, <1>5, <1>8, <2>1
  <2>2. CASE g # f
    BY <1>1, <1>3, <1>8, <2>2 DEF Order, OneRequest
  <2> QED
    BY <2>1, <2>2
<1>10. OneStream'
  <2>1. \A s, t \in streams' : s.file = t.file => s = t
    BY <1>1, <1>2, <1>6 DEF Order, OneStream
  <2>2. ASSUME NEW s \in streams' PROVE OneStream!2!(s)'
    <3>1. CASE s \in streams
      BY <1>1, <3>1 DEF Order, OneStream
    <3>2. CASE s = u
      <4>1. s.file = f /\ ~s.ended /\ content'[f] = <<>> /\ f \in receiving' /\ inbox' = inbox
        BY <1>1, <1>2, <1>4, <3>2
      <4>2. \A i \in DOMAIN inbox : inbox[i].file = f => ~IsEnd(inbox[i]) /\ inbox[i].kind # "chunk"
        BY <1>4 DEF Clear, IsData
      <4> QED
        BY <4>1, <4>2
    <3> QED
      BY <1>2, <3>1, <3>2
  <2> QED
    BY <2>1, <2>2 DEF OneStream
<1> QED
  BY <1>7, <1>9, <1>10 DEF Order

(* A stream sends the chunk that follows all before it. *)
LEMMA SendKeepsOrder ==
    ASSUME TypeOK, Order, NEW s \in streams, SrvSend(s)
    PROVE  Order'
<1> DEFINE m == [kind |-> "chunk", file |-> s.file, pos |-> s.next]
           u == [file |-> s.file, id |-> s.id, next |-> s.next + 1, ended |-> s.ended]
           n == Len(inbox) + 1
<1>1. /\ inbox' = Append(inbox, m) /\ streams' = (streams \ {s}) \cup {u}
      /\ UNCHANGED <<receiving, content, requesting, requests, ending>>
  BY DEF SrvSend, clientVars, goroutines, Order, OneStream
<1>2. s.file \in Files /\ s.next \in 1..Chunks
  BY Components DEF SrvSend
<1>3. m \in Frame
  BY <1>2 DEF Frame, FrameKinds
<1>4. /\ DOMAIN inbox' = DOMAIN inbox \cup {n} /\ inbox'[n] = m /\ n \in Nat
      /\ \A i \in DOMAIN inbox : i \in Nat /\ i < n /\ inbox'[i] = inbox[i]
  BY <1>1, <1>3, AppendFacts DEF TypeOK
<1>5. m.kind = "chunk" /\ m.file = s.file /\ m.pos = s.next /\ IsData(m) /\ ~IsEnd(m)
  BY DEF IsData, IsEnd
<1>6. u.file = s.file /\ u.next = s.next + 1 /\ ~u.ended
  BY DEF Order, OneStream
<1>7. /\ s.file \in receiving
      /\ \A i \in DOMAIN inbox : inbox[i].file = s.file =>
            ~IsEnd(inbox[i]) /\ (inbox[i].kind = "chunk" => inbox[i].pos < s.next)
      /\ \A k \in DOMAIN content[s.file] : content[s.file][k].pos < s.next
      /\ \A t \in streams : t.file = s.file => t = s
  BY DEF Order, OneStream
<1> HIDE DEF m, u, n
<1>8. \A g : g # s.file /\ Clear(g) => Clear(g)'
  BY <1>4, <1>5 DEF Clear
<1>9. \A g : Sending(g)' <=> Sending(g)
  BY <1>1, <1>6 DEF Sending
<1>10. Sending(s.file)
  BY DEF Sending
<1>11. Spaced'
  BY <1>1 DEF Order, Spaced
<1>12. OneRequest'
  <2> SUFFICES ASSUME NEW g \in Files PROVE OneRequest!(g)'
    BY DEF OneRequest
  <2>1. Ending(g)' = Ending(g)
    BY <1>1 DEF Ending
  <2>2. CASE g = s.file
    BY <1>1, <1>10, <2>1, <2>2 DEF Order, OneRequest
  <2>3. CASE g # s.file
    BY <1>1, <1>8, <1>9, <2>1, <2>3 DEF Order, OneRequest
  <2> QED
    BY <2>2, <2>3
<1>13. OneStream'
  <2>1. \A t, v \in streams' : t.file = v.file => t = v
    BY <1>1, <1>6, <1>7 DEF Order, OneStream
  <2>2. ASSUME NEW t \in streams' PROVE OneStream!2!(t)'
    <3>1. CASE t \in streams /\ t # s
      <4>1. t.file # s.file
        BY <1>7, <3>1
      <4> QED
        BY <1>1, <1>4, <1>5, <3>1, <4>1 DEF Order, OneStream
    <3>2. CASE t = u
      <4>1. \A x \in 0..Chunks : x < s.next => x < u.next
        BY <1>2, <1>6
      <4>2. \A k \in DOMAIN content'[s.file] : content'[s.file][k].pos < u.next
        BY <1>1, <1>2, <1>7, <4>1, Components
      <4>3. ASSUME NEW i \in DOMAIN inbox', inbox'[i].file = s.file
            PROVE  ~IsEnd(inbox'[i]) /\ (inbox'[i].kind = "chunk" => inbox'[i].pos < u.next)
        <5>1. CASE i \in DOMAIN inbox
          BY <1>4, <1>7, <4>1, <4>3, <5>1, Components
        <5>2. CASE i = n
          BY <1>2, <1>4, <1>5, <1>6, <5>2
        <5> QED
          BY <1>4, <5>1, <5>2
      <4> QED
        BY <1>1, <1>6, <1>7, <3>2, <4>2, <4>3
    <3> QED
      BY <1>1, <3>1, <3>2
  <2> QED
    BY <2>1, <2>2 DEF OneStream
<1>14. DataInOrder'
  <2> SUFFICES ASSUME NEW i \in DOMAIN inbox', IsData(inbox'[i])
               PROVE  DataInOrder!(i)'
    BY DEF DataInOrder
  <2>1. CASE i = n
    <3>1. \A j \in DOMAIN inbox' : ~(n < j)
      BY <1>4
    <3>2. s.next > 0
      BY <1>2
    <3> QED
      BY <1>1, <1>4, <1>5, <1>7, <2>1, <3>1, <3>2
  <2>2. CASE i \in DOMAIN inbox
    <3>1. inbox'[i] = inbox[i] /\ IsData(inbox[i])
      BY <1>4, <2>2
    <3>2. inbox[i].file = s.file => inbox[i].kind = "chunk" /\ inbox[i].pos < s.next
      BY <1>7, <2>2, <3>1 DEF IsData
    <3>3. ASSUME NEW j \in DOMAIN inbox', i < j, inbox'[j].file = inbox'[i].file,
                 IsData(inbox'[j])
          PROVE  /\ inbox'[i].kind = "chunk"
                 /\ inbox'[j].kind = "chunk" => inbox'[i].pos < inbox'[j].pos
      <4>1. CASE j \in DOMAIN inbox
        BY <1>4, <2>2, <3>1, <3>3, <4>1 DEF Order, DataInOrder
      <4>2. CASE j = n
        BY <1>4, <1>5, <3>1, <3>2, <3>3, <4>2
      <4> QED
        BY <1>4, <4>1, <4>2
    <3> QED
      BY <1>1, <2>2, <3>1, <3>3 DEF Order, DataInOrder
  <2> QED
    BY <1>4, <2>1, <2>2
<1> QED
  BY <1>11, <1>12, <1>13, <1>14 DEF Order

(* A stream ends: its end follows all its chunks, and it is gone. *)
LEMMA FinishKeepsOrder ==
    ASSUME TypeOK, Order, NEW s \in streams, SrvEnd(s), s.next = Chunks + 1
    PROVE  Order'
<1>1. /\ streams' = streams \ {s}
      /\ UNCHANGED <<receiving, content, requesting, requests, ending>>
  BY DEF SrvEnd, clientVars, goroutines
<1>2. s.file \in Files
  BY Components
<1>3. \A kind \in FrameKinds : Control(kind, s.file) \in Frame
  BY <1>2, ControlType
<1>4. PICK kind \in {"downloadEnd", "virtualEnd"} :
        \/ inbox' = Append(inbox, Control(kind, s.file))
        \/ inbox' = Append(Append(inbox, Control("fileEndAck", s.file)), Control(kind, s.file))
  BY DEF SrvEnd
<1> DEFINE m == Control(kind, s.file)
<1>5. m.file = s.file /\ IsEnd(m) /\ IsData(m) /\ m.kind # "chunk" /\ m \in Frame
  BY <1>3, <1>4 DEF Control, IsEnd, IsData, FrameKinds
<1>6. /\ Control("fileEndAck", s.file) \in Frame
      /\ ~IsData(Control("fileEndAck", s.file))
  BY <1>3 DEF Control, IsEnd, IsData, FrameKinds
<1> HIDE DEF m
<1>7. \A i \in DOMAIN inbox' :
        /\ i \in Nat
        /\ \/ i \in DOMAIN inbox /\ inbox'[i] = inbox[i]
           \/ ~IsData(inbox'[i])
           \/ inbox'[i] = m /\ \A j \in DOMAIN inbox' : ~(i < j)
  <2>1. inbox \in Seq(Frame)
    BY DEF TypeOK
  <2>2. ASSUME NEW q \in Seq(Frame), inbox' = Append(q, m)
        PROVE  /\ DOMAIN inbox' = DOMAIN q \cup {Len(q) + 1} /\ Len(q) \in Nat
               /\ inbox'[Len(q) + 1] = m
               /\ \A i \in DOMAIN q : i \in Nat /\ i <= Len(q) /\ inbox'[i] = q[i]
    BY <1>5, <2>2, AppendFacts
  <2>3. CASE inbox' = Append(inbox, m)
    BY <2>1, <2>2, <2>3
  <2>4. CASE inbox' = Append(Append(inbox, Control("fileEndAck", s.file)), m)
    <3> DEFINE q == Append(inbox, Control("fileEndAck", s.file))
    <3>1. /\ q \in Seq(Frame)
          /\ \A i \in DOMAIN q : (i \in DOMAIN inbox /\ q[i] = inbox[i]) \/ ~IsData(q[i])
      BY <1>6, <2>1, AppendFacts
    <3> HIDE DEF q
    <3>2. inbox' = Append(q, m)
      BY <2>4 DEF q
    <3> QED
      BY <2>2, <3>1, <3>2
  <2> QED
    BY <1>4, <2>3, <2>4 DEF m
<1>8. /\ s.file \in receiving
      /\ \A i \in DOMAIN inbox : inbox[i].file = s.file => ~IsEnd(inbox[i])
      /\ \A t \in streams : t.file = s.file => t = s
  BY DEF Order, OneStream
<1>9. \A g : g # s.file /\ Clear(g) => Clear(g)'
  BY <1>5, <1>7 DEF Clear
<1>10. Sending(s.file)
  BY DEF Sending
<1>11. Spaced'
  BY <1>1 DEF Order, Spaced
<1>12. OneRequest'
  <2> SUFFICES ASSUME NEW g \in Files PROVE OneRequest!(g)'
    BY DEF OneRequest
  <2>1. Ending(g)' = Ending(g) /\ (Sending(g)' => Sending(g))
    BY <1>1 DEF Ending, Sending
  <2>2. CASE g = s.file
    BY <1>1, <1>10, <2>1, <2>2 DEF Order, OneRequest
  <2>3. CASE g # s.file
    BY <1>1, <1>9, <2>1, <2>3 DEF Order, OneRequest
  <2> QED
    BY <2>2, <2>3
<1>13. OneStream'
  <2> SUFFICES ASSUME NEW t \in streams' PROVE OneStream!2!(t)'
    BY <1>1 DEF Order, OneStream
  <2>1. t \in streams /\ t.file # s.file
    BY <1>1, <1>8
  <2>2. \A i \in DOMAIN inbox' : inbox'[i].file = t.file =>
          (i \in DOMAIN inbox /\ inbox'[i] = inbox[i]) \/ ~IsData(inbox'[i])
    BY <1>5, <1>7, <2>1
  <2> QED
    BY <1>1, <2>1, <2>2 DEF Order, OneStream, IsData
<1>14. DataInOrder'
  <2> SUFFICES ASSUME NEW i \in DOMAIN inbox', IsData(inbox'[i])
               PROVE  DataInOrder!(i)'
    BY DEF DataInOrder
  <2>1. CASE inbox'[i] = m /\ \A j \in DOMAIN inbox' : ~(i < j)
    BY <1>1, <1>5, <1>8, <2>1
  <2>2. CASE i \in DOMAIN inbox /\ inbox'[i] = inbox[i]
    <3>1. inbox[i].file = s.file => inbox[i].kind = "chunk"
      BY <1>8, <2>2 DEF IsData
    <3>2. ASSUME NEW j \in DOMAIN inbox', i < j, inbox'[j].file = inbox'[i].file,
                 IsData(inbox'[j])
          PROVE  /\ inbox'[i].kind = "chunk"
                 /\ inbox'[j].kind = "chunk" => inbox'[i].pos < inbox'[j].pos
      <4>1. CASE j \in DOMAIN inbox /\ inbox'[j] = inbox[j]
        BY <2>2, <3>2, <4>1 DEF Order, DataInOrder
      <4>2. CASE inbox'[j] = m
        BY <1>5, <2>2, <3>1, <3>2, <4>2
      <4> QED
        BY <1>7, <3>2, <4>1, <4>2
    <3> QED
      BY <1>1, <2>2, <3>2 DEF Order, DataInOrder
  <2> QED
    BY <1>7, <2>1, <2>2
<1> QED
  BY <1>11, <1>12, <1>13, <1>14 DEF Order

(* Nobody takes back a call of DownloadFile or an early end. *)
LEMMA StaysSingle ==
    ASSUME TypeOK, [Next]_vars
    PROVE  /\ OnlyAutomatic' => OnlyAutomatic
           /\ early' = {} => early = {}
<1>1. CASE Reader \/ LoseFrame
  <2>1. manual' = manual /\ early' = early
    BY <1>1 DEF Reader, OpenReceiver, IgnoreAvailable, WriteChunk, DiscardChunk,
       EndDownload, RemoveReceiver, EndVirtual, EndUnknown, HandleFileEndAck, LoseFrame,
       network, history
  <2> QED
    BY <2>1 DEF OnlyAutomatic
<1>2. ASSUME NEW f \in Files,
             Request(f) \/ RequestFails(f) \/ Register(f) \/ SrvNotify(f) \/ SrvServe(f)
               \/ LoseRequest(f)
      PROVE  UNCHANGED <<manual, early>>
  BY <1>2 DEF Request, RequestFails, Register, SrvNotify, SrvServe, LoseRequest, network,
     history
<1>3. ASSUME NEW s \in streams, SrvSend(s) \/ SrvEnd(s)
      PROVE  manual' = manual /\ (early' = {} => early = {})
  BY <1>3 DEF SrvSend, SrvEnd, history
<1>4. ASSUME NEW f \in Files, AppDownloads(f) PROVE manual' # 0 /\ early' = early
  BY <1>4 DEF AppDownloads, Within, TypeOK, history
<1>5. CASE UNCHANGED vars
  BY <1>5 DEF vars, network, history, OnlyAutomatic
<1> QED
  BY <1>1, <1>2, <1>3, <1>4, <1>5 DEF Next, Server, OnlyAutomatic

(* Every action keeps the order, as long as nobody interferes. *)
LEMMA OrderStep == TypeOK /\ TypeOK' /\ Counts /\ Single /\ [Next]_vars => Single'
<1> SUFFICES ASSUME TypeOK, TypeOK', Counts, Order, [Next]_vars, OneStreamPerReceiver'
             PROVE  Order'
  BY StaysSingle DEF Single, OneStreamPerReceiver
<1>0. UNCHANGED ordered => Order'
  BY DEF ordered, Order, Spaced, OneRequest, OneStream, DataInOrder, Clear, Sending, Ending
<1>1. CASE OpenReceiver
  <2>1. Arrives("available")
    BY <1>1 DEF OpenReceiver
  <2> QED
    BY <1>1, <2>1, OpenKeepsOrder
<1>2. CASE WriteChunk
  <2>1. Arrives("chunk")
    BY <1>2 DEF WriteChunk
  <2> QED
    BY <1>2, <2>1, WriteKeepsOrder
<1>3. CASE IgnoreAvailable \/ DiscardChunk \/ EndUnknown \/ HandleFileEndAck \/ LoseFrame
  <2>1. /\ inbox # <<>> /\ inbox' = Tail(inbox)
        /\ UNCHANGED <<receiving, content, requesting, requests, streams, ending>>
    BY <1>3 DEF IgnoreAvailable, DiscardChunk, EndUnknown, HandleFileEndAck, LoseFrame,
       Arrives, clientVars, goroutines
  <2> QED
    BY <2>1, Consumed
<1>4. CASE EndDownload
  <2>1. Arrives("downloadEnd")
    BY <1>4 DEF EndDownload
  <2> QED
    BY <1>4, <2>1, EndKeepsOrder
<1>5. CASE RemoveReceiver
  <2>1. PICK e \in ending : RemoveReceiver!(e)
    BY <1>5 DEF RemoveReceiver
  <2>2. e.file \in Files /\ Ending(e.file)
    BY DEF TypeOK, Ending
  <2>3. ~Sending(e.file) /\ Clear(e.file)
    BY <2>2 DEF Order, OneRequest
  <2>4. requesting[e.file] + requests[e.file] = 0
    <3>1. requesting[e.file] \in Nat /\ requests[e.file] \in Nat
      BY <2>2 DEF TypeOK
    <3>2. ~(requesting[e.file] + requests[e.file] > 0)
      BY <2>2 DEF Order, OneRequest
    <3> QED
      BY <3>1, <3>2
  <2>5. /\ receiving' = receiving \ {e.file} /\ ending' = {}
        /\ UNCHANGED <<inbox, content, requesting, requests, streams>>
    BY <2>1 DEF network
  <2> QED
    BY <2>2, <2>3, <2>4, <2>5, RemoveKeepsOrder
<1>6. CASE EndVirtual
  <2>1. Arrives("virtualEnd")
    BY <1>6 DEF EndVirtual
  <2> QED
    BY <1>6, <2>1, VirtualEndKeepsOrder
<1>7. ASSUME NEW f \in Files, AppDownloads(f) PROVE FALSE
  BY <1>7 DEF AppDownloads, Within, TypeOK, OneStreamPerReceiver, OnlyAutomatic
<1>8. ASSUME NEW f \in Files, Request(f) \/ RequestFails(f) \/ LoseRequest(f) PROVE Order'
  <2>1. /\ UNCHANGED <<receiving, content, streams, ending, inbox, manual>>
        /\ \/ requesting' = Decr(requesting, f) /\ requests' = Incr(requests, f)
           \/ requesting' = Decr(requesting, f) /\ requests' = requests
           \/ requesting' = requesting /\ requests' = Decr(requests, f)
    BY <1>8 DEF Request, RequestFails, LoseRequest, clientVars, goroutines, network
  <2>2. requesting \in [Files -> Nat] /\ requests \in [Files -> Nat]
    BY DEF TypeOK
  <2>3. ASSUME NEW g \in Files
        PROVE  requesting'[g] + requests'[g] <= requesting[g] + requests[g]
    <3>1. requesting[g] \in Nat /\ requests[g] \in Nat
      BY <2>2
    <3>2. /\ requesting' = Decr(requesting, f) =>
                requesting'[g] = IF g = f THEN requesting[g] - 1 ELSE requesting[g]
          /\ requests' = Decr(requests, f) =>
                requests'[g] = IF g = f THEN requests[g] - 1 ELSE requests[g]
          /\ requests' = Incr(requests, f) =>
                requests'[g] = IF g = f THEN requests[g] + 1 ELSE requests[g]
      BY <2>2, CountType
    <3> QED
      BY <2>1, <3>1, <3>2
  <2> QED
    BY <2>1, <2>3, AskingKeepsOrder
<1>9. ASSUME NEW f \in Files, Register(f) PROVE Order'
  BY <1>0, <1>9 DEF Register, ordered, network
<1>10. ASSUME NEW f \in Files, SrvNotify(f) PROVE Order'
  <2>1. Control("available", f) \in Frame /\ ~IsData(Control("available", f))
    BY ControlType DEF Control, IsData, IsEnd, FrameKinds
  <2>2. /\ inbox' = Append(inbox, Control("available", f))
        /\ UNCHANGED <<receiving, content, requesting, requests, streams, ending>>
    BY <1>10 DEF SrvNotify, clientVars, goroutines
  <2> QED
    BY <2>1, <2>2, Announced
<1>11. ASSUME NEW f \in Files, SrvServe(f) PROVE Order'
  BY <1>11, ServeKeepsOrder
<1>12. ASSUME NEW s \in streams, SrvSend(s) PROVE Order'
  BY <1>12, SendKeepsOrder
<1>13. ASSUME NEW s \in streams, SrvEnd(s) PROVE Order'
  <2>1. s.next = Chunks + 1
    BY <1>13 DEF SrvEnd, OneStreamPerReceiver
  <2> QED
    BY <1>13, <2>1, FinishKeepsOrder
<1>14. CASE UNCHANGED vars
  BY <1>0, <1>14 DEF vars, ordered, clientVars, goroutines, network
<1> QED
  BY <1>1, <1>2, <1>3, <1>4, <1>5, <1>6, <1>7, <1>8, <1>9, <1>10, <1>11, <1>12, <1>13,
     <1>14 DEF Next, Reader, Server

-----------------------------------------------------------------------------
(* What the order gives. *)

(* Spaced positions that end at Chunks leave room for nothing else: as many *)
(* chunks as the file has are the file.                                     *)
LEMMA AllIsWhole ==
    ASSUME TypeOK, Counts, Spaced, NEW f \in Files, written[f] = Chunks
    PROVE  content[f] = [i \in 1..Chunks |-> [pos |-> i, whole |-> TRUE]]
<1> DEFINE q == content[f]
           L == Len(q)
<1>1. q \in Seq(Piece) /\ L \in Nat /\ DOMAIN q = 1..L /\ Chunks \in Nat
  BY ParamAssumption DEF TypeOK
<1>2. \A i \in 1..L : q[i] \in Piece /\ q[i].pos \in 0..Chunks /\ q[i].whole \in BOOLEAN
  <2>1. \A i \in 1..L : q[i] \in Piece
    BY <1>1
  <2> QED
    BY <2>1 DEF Piece
<1>3. /\ Chunks <= L
      /\ Chunks = L => \A i \in 1..L : q[i].whole
  BY <1>1 DEF Counts, WrittenCounts
<1>4. \A i \in 1..L : q[i].pos >= i
  BY <1>1 DEF Spaced
<1>5. \A i, j \in 1..L : i <= j => q[j].pos - q[i].pos >= j - i
  BY <1>1 DEF Spaced
<1> HIDE DEF q, L
<1>6. L = Chunks
  <2>1. CASE L = 0
    BY <1>1, <1>3, <2>1
  <2>2. CASE L # 0
    <3>1. L \in 1..L
      BY <1>1, <2>2
    <3> QED
      BY <1>1, <1>2, <1>3, <1>4, <3>1
  <2> QED
    BY <2>1, <2>2
<1>7. ASSUME NEW i \in 1..L PROVE q[i] = [pos |-> i, whole |-> TRUE]
  <2>1. L \in 1..L /\ i <= L /\ i \in Nat
    BY <1>1
  <2>2. q[L].pos - q[i].pos >= L - i
    BY <1>5, <2>1
  <2>3. q[L].pos \in 0..Chunks /\ q[i].pos \in 0..Chunks /\ q[i].pos >= i
    BY <1>2, <1>4, <2>1
  <2>4. q[i].pos = i
    BY <1>1, <1>6, <2>1, <2>2, <2>3
  <2>5. q[i].whole = TRUE
    BY <1>2, <1>3, <1>6
  <2> QED
    BY <1>2, <2>4, <2>5 DEF Piece
<1>8. q = [i \in 1..L |-> q[i]]
  BY <1>1
<1> QED
  BY <1>6, <1>7, <1>8 DEF q

(* The actions that report a file or discard a chunk. *)
LEMMA WhoReports ==
    ASSUME [Next]_vars
    PROVE  /\ RemoveReceiver \/ EndVirtual \/ reported' = reported
           /\ RemoveReceiver \/ EndVirtual \/ reports' = reports
           /\ DiscardChunk \/ discarded' = discarded
<1>1. CASE Reader \/ LoseFrame
  BY <1>1 DEF Reader, OpenReceiver, IgnoreAvailable, WriteChunk, DiscardChunk,
     EndDownload, RemoveReceiver, EndVirtual, EndUnknown, HandleFileEndAck, LoseFrame,
     history
<1>2. ASSUME NEW f \in Files,
             AppDownloads(f) \/ Request(f) \/ RequestFails(f) \/ Register(f)
               \/ SrvNotify(f) \/ SrvServe(f) \/ LoseRequest(f)
      PROVE  UNCHANGED <<reported, reports, discarded>>
  BY <1>2 DEF AppDownloads, Request, RequestFails, Register, SrvNotify, SrvServe,
     LoseRequest, history
<1>3. ASSUME NEW s \in streams, SrvSend(s) \/ SrvEnd(s)
      PROVE  UNCHANGED <<reported, reports, discarded>>
  BY <1>3 DEF SrvSend, SrvEnd, history
<1>4. CASE UNCHANGED vars
  BY <1>4 DEF vars, history
<1> QED
  BY <1>1, <1>2, <1>3, <1>4 DEF Next, Server

(* A report of the full size is of the whole file. *)
LEMMA SizeStep ==
    TypeOK /\ Counts /\ Single /\ (early = {} => SizeTellsLoss) /\ [Next]_vars =>
        (early = {} => SizeTellsLoss)'
<1> SUFFICES ASSUME TypeOK, Counts, Single, early = {} => SizeTellsLoss, [Next]_vars,
                    OnlyAutomatic', early' = {}, NEW r \in reported', r.size = Chunks
             PROVE  r.content = [i \in 1..Chunks |-> [pos |-> i, whole |-> TRUE]]
  BY DEF SizeTellsLoss
<1>1. OnlyAutomatic /\ early = {}
  BY StaysSingle
<1>2. r \in reported \/ \E f \in Files : r = ReportOf(f)
  <2>1. CASE RemoveReceiver
    BY <2>1 DEF RemoveReceiver, TypeOK
  <2>2. CASE EndVirtual
    <3>1. Arrived \in Files
      BY <2>2, ArrivedType DEF EndVirtual
    <3> QED
      BY <2>2, <3>1 DEF EndVirtual
  <2>3. CASE reported' = reported
    BY <2>3
  <2> QED
    BY <2>1, <2>2, <2>3, WhoReports
<1>3. CASE r \in reported
  BY <1>1, <1>3 DEF SizeTellsLoss
<1>4. ASSUME NEW f \in Files, r = ReportOf(f)
      PROVE  r.content = [i \in 1..Chunks |-> [pos |-> i, whole |-> TRUE]]
  <2>1. written[f] = Chunks /\ r.content = content[f]
    BY <1>4 DEF ReportOf
  <2> QED
    BY <1>1, <2>1, AllIsWhole DEF Single, OneStreamPerReceiver, Order
<1> QED
  BY <1>2, <1>3, <1>4

(* Asking for a file, serving it and sending it begin with its receiver. *)
LEMMA OpenedStep == TypeOK /\ OpenedBefore /\ [Next]_vars => OpenedBefore'
<1> SUFFICES ASSUME TypeOK, OpenedBefore, [Next]_vars, OnlyAutomatic'
             PROVE  \A f \in Files : Asked(f)' => opened'[f] > 0
  BY DEF OpenedBefore
<1>1. \A f \in Files : Asked(f) => opened[f] > 0
  BY StaysSingle DEF OpenedBefore
<1>2. /\ requesting \in [Files -> Nat] /\ requests \in [Files -> Nat]
      /\ opened \in [Files -> Nat] /\ inbox \in Seq(Frame)
  BY DEF TypeOK
<1>3. ASSUME inbox # <<>>, inbox' = Tail(inbox), UNCHANGED <<requesting, requests, streams>>,
             NEW f \in Files, Asked(f)'
      PROVE  Asked(f)
  <2>1. \A i \in DOMAIN inbox' : i + 1 \in DOMAIN inbox /\ inbox'[i] = inbox[i + 1]
    BY <1>2, <1>3, TailFacts
  <2> QED
    BY <1>3, <2>1 DEF Asked
<1>4. CASE OpenReceiver
  <2>1. /\ Arrived \in Files /\ inbox # <<>> /\ inbox' = Tail(inbox)
        /\ requesting' = Incr(requesting, Arrived) /\ opened' = Incr(opened, Arrived)
        /\ UNCHANGED <<requests, streams>>
    BY <1>4, ArrivedType DEF OpenReceiver
  <2>2. opened'[Arrived] > 0
    <3>1. opened[Arrived] \in Nat
      BY <1>2, <2>1
    <3>2. Incr(opened, Arrived)[Arrived] = opened[Arrived] + 1
      BY <1>2, <2>1, CountType
    <3> QED
      BY <2>1, <3>1, <3>2
  <2>3. ASSUME NEW f \in Files, f # Arrived, Asked(f)' PROVE opened'[f] > 0
    <3>1. requesting'[f] = requesting[f] /\ opened'[f] = opened[f]
      BY <1>2, <2>1, <2>3, CountType
    <3>2. \A i \in DOMAIN inbox' : i + 1 \in DOMAIN inbox /\ inbox'[i] = inbox[i + 1]
      BY <1>2, <2>1, TailFacts
    <3>3. Asked(f)
      BY <2>1, <2>3, <3>1, <3>2 DEF Asked
    <3> QED
      BY <1>1, <3>1, <3>3
  <2> QED
    BY <2>2, <2>3
<1>5. CASE IgnoreAvailable \/ WriteChunk \/ DiscardChunk \/ EndDownload \/ EndVirtual
           \/ EndUnknown \/ HandleFileEndAck \/ LoseFrame
  <2>1. /\ inbox # <<>> /\ inbox' = Tail(inbox) /\ opened' = opened
        /\ UNCHANGED <<requesting, requests, streams>>
    BY <1>5 DEF IgnoreAvailable, WriteChunk, DiscardChunk, EndDownload, EndVirtual,
       EndUnknown, HandleFileEndAck, LoseFrame, Arrives, goroutines, history
  <2> QED
    BY <1>1, <1>3, <2>1
<1>6. CASE RemoveReceiver
  BY <1>1, <1>6 DEF RemoveReceiver, network, Asked
<1>7. ASSUME NEW g \in Files, AppDownloads(g) PROVE FALSE
  BY <1>7 DEF AppDownloads, Within, TypeOK, OnlyAutomatic
<1>8. ASSUME NEW g \in Files, Request(g) \/ RequestFails(g) \/ LoseRequest(g),
             NEW f \in Files, Asked(f)'
      PROVE  opened'[f] > 0
  <2>1. /\ UNCHANGED <<streams, inbox, opened>>
        /\ \/ /\ requesting[g] > 0
              /\ requesting' = Decr(requesting, g) /\ requests' = Incr(requests, g)
           \/ requesting' = Decr(requesting, g) /\ requests' = requests
           \/ requesting' = requesting /\ requests' = Decr(requests, g)
    BY <1>8 DEF Request, RequestFails, LoseRequest, clientVars, goroutines, network, history
  <2>2. requesting \in [Files -> Nat] /\ requests \in [Files -> Nat]
    BY <1>2
  <2>3. /\ requesting[f] \in Nat /\ requests[f] \in Nat
        /\ requesting' = Decr(requesting, g) =>
              requesting'[f] = IF f = g THEN requesting[g] - 1 ELSE requesting[f]
        /\ requests' = Decr(requests, g) =>
              requests'[f] = IF f = g THEN requests[g] - 1 ELSE requests[f]
        /\ requests' = Incr(requests, g) =>
              requests'[f] = IF f = g THEN requests[g] + 1 ELSE requests[f]
    BY <2>2, CountType
  <2>4. requesting'[f] > 0 \/ requests'[f] > 0 => requesting[f] > 0 \/ requests[f] > 0
    BY <2>1, <2>3
  <2>5. Asked(f)
    BY <1>8, <2>1, <2>4 DEF Asked
  <2> QED
    BY <1>1, <2>1, <2>5
<1>9. ASSUME NEW g \in Files, Register(g) PROVE \A f \in Files : Asked(f)' => opened'[f] > 0
  BY <1>1, <1>9 DEF Register, network, history, Asked
<1>10. ASSUME NEW q \in Seq(Frame), NEW m \in Frame, inbox' = Append(q, m),
              \A i \in DOMAIN q : (i \in DOMAIN inbox /\ q[i] = inbox[i]) \/ q[i].kind # "chunk",
              UNCHANGED <<requesting, requests>>,
              \A t \in streams' : \E s \in streams : s.file = t.file,
              m.kind = "chunk" => Asked(m.file), NEW f \in Files, Asked(f)'
       PROVE  Asked(f)
  <2>1. \A i \in DOMAIN inbox' :
          (i \in DOMAIN q /\ inbox'[i] = q[i]) \/ inbox'[i] = m
    BY <1>10, AppendFacts
  <2> QED
    BY <1>10, <2>1 DEF Asked
<1>11. ASSUME NEW g \in Files, SrvNotify(g) PROVE \A f \in Files : Asked(f)' => opened'[f] > 0
  <2>1. /\ Control("available", g) \in Frame /\ Control("available", g).kind # "chunk"
        /\ inbox' = Append(inbox, Control("available", g))
        /\ UNCHANGED <<requesting, requests, streams, opened>>
    BY <1>11, ControlType DEF SrvNotify, Control, FrameKinds, goroutines, history
  <2> QED
    BY <1>1, <1>2, <1>10, <2>1
<1>12. ASSUME NEW g \in Files, SrvServe(g), NEW f \in Files, Asked(f)' PROVE opened'[f] > 0
  <2>1. /\ requests[g] > 0 /\ requests' = Decr(requests, g)
        /\ \A s \in streams' : s \in streams \/ s.file = g
        /\ UNCHANGED <<requesting, inbox, opened>>
    BY <1>12 DEF SrvServe, goroutines, history
  <2>2. requests'[f] > 0 => requests[f] > 0
    <3>1. requests[f] \in Nat /\ requests[g] \in Nat
      BY <1>2, <1>12
    <3>2. Decr(requests, g)[f] = IF f = g THEN requests[g] - 1 ELSE requests[f]
      BY <1>2, <1>12, CountType
    <3> QED
      BY <2>1, <3>1, <3>2
  <2>3. Asked(f)
    BY <1>12, <2>1, <2>2 DEF Asked
  <2> QED
    BY <1>1, <2>1, <2>3
<1>13. ASSUME NEW s \in streams, SrvSend(s) PROVE \A f \in Files : Asked(f)' => opened'[f] > 0
  <2> DEFINE m == [kind |-> "chunk", file |-> s.file, pos |-> s.next]
  <2>1. m \in Frame /\ m.file = s.file
    BY <1>13, Components DEF SrvSend, Frame, FrameKinds
  <2>2. /\ inbox' = Append(inbox, m) /\ UNCHANGED <<requesting, requests, opened>>
        /\ \A t \in streams' : \E v \in streams : v.file = t.file
    BY <1>13 DEF SrvSend, goroutines, history
  <2>3. Asked(m.file)
    BY <2>1 DEF Asked
  <2> HIDE DEF m
  <2> QED
    BY <1>1, <1>2, <1>10, <2>1, <2>2, <2>3
<1>14. ASSUME NEW s \in streams, SrvEnd(s) PROVE \A f \in Files : Asked(f)' => opened'[f] > 0
  <2>1. \A kind \in FrameKinds :
          Control(kind, s.file) \in Frame /\ Control(kind, s.file).kind = kind
    BY Components, ControlType DEF Control
  <2>2. PICK kind \in {"downloadEnd", "virtualEnd"} :
          \/ inbox' = Append(inbox, Control(kind, s.file))
          \/ inbox' = Append(Append(inbox, Control("fileEndAck", s.file)), Control(kind, s.file))
    BY <1>14 DEF SrvEnd
  <2>3. /\ UNCHANGED <<requesting, requests, opened>>
        /\ \A t \in streams' : \E v \in streams : v.file = t.file
    BY <1>14 DEF SrvEnd, goroutines
  <2> DEFINE m == Control(kind, s.file)
             a == Control("fileEndAck", s.file)
  <2>4. m \in Frame /\ m.kind # "chunk" /\ a \in Frame /\ a.kind # "chunk"
    BY <2>1 DEF FrameKinds
  <2> HIDE DEF m, a
  <2>5. CASE inbox' = Append(inbox, m)
    BY <1>1, <1>2, <1>10, <2>3, <2>4, <2>5
  <2>6. CASE inbox' = Append(Append(inbox, a), m)
    <3>1. /\ Append(inbox, a) \in Seq(Frame)
          /\ \A i \in DOMAIN Append(inbox, a) :
                \/ i \in DOMAIN inbox /\ Append(inbox, a)[i] = inbox[i]
                \/ Append(inbox, a)[i].kind # "chunk"
      BY <1>2, <2>4, AppendFacts
    <3> QED
      BY <1>1, <1>10, <2>3, <2>4, <2>6, <3>1
  <2> QED
    BY <2>2, <2>5, <2>6 DEF m, a
<1>15. CASE UNCHANGED vars
  BY <1>1, <1>15 DEF vars, goroutines, network, history, Asked
<1> QED
  BY <1>4, <1>5, <1>6, <1>7, <1>8, <1>9, <1>11, <1>12, <1>13, <1>14, <1>15
  DEF Next, Reader, Server

(* A chunk without a receiver is one of a file that has been reported. *)
LEMMA DiscardStep ==
    TypeOK /\ Counts /\ OpenedBefore /\ LateChunksOnly /\ [Next]_vars => LateChunksOnly'
<1> SUFFICES ASSUME TypeOK, Counts, OpenedBefore, LateChunksOnly, [Next]_vars,
                    OnlyAutomatic', NEW f \in discarded'
             PROVE  reports'[f] > 0
  BY DEF LateChunksOnly, DiscardOnlyLate
<1>1. OnlyAutomatic
  BY StaysSingle
<1>2. reports \in [Files -> Nat] /\ opened \in [Files -> Nat] /\ inbox \in Seq(Frame)
  BY DEF TypeOK
<1>3. CASE DiscardChunk
  <2>1. /\ Arrived \in Files /\ Arrived \notin receiving /\ reports' = reports
        /\ discarded' = discarded \cup {Arrived} /\ inbox # <<>> /\ Head(inbox).kind = "chunk"
    BY <1>3, ArrivedType DEF DiscardChunk
  <2>2. 1 \in DOMAIN inbox /\ inbox[1] = Head(inbox)
    BY <1>2, <2>1, TailFacts
  <2>3. opened[Arrived] > 0
    BY <1>1, <2>1, <2>2 DEF OpenedBefore, Asked, Arrived
  <2>4. reports[Arrived] > 0
    BY <1>2, <2>1, <2>3 DEF Counts, OneReportPerReceiver
  <2> QED
    BY <1>1, <2>1, <2>4 DEF LateChunksOnly, DiscardOnlyLate
<1>4. CASE discarded' = discarded
  <2>1. f \in Files /\ reports[f] > 0
    BY <1>1, <1>4 DEF LateChunksOnly, DiscardOnlyLate, TypeOK
  <2>2. CASE reports' = reports
    BY <2>1, <2>2
  <2>3. ASSUME NEW g \in Files, reports' = Incr(reports, g) PROVE reports'[f] > 0
    <3>1. reports'[f] = IF f = g THEN reports[g] + 1 ELSE reports[f]
      BY <1>2, <2>1, <2>3, CountType
    <3> QED
      BY <1>2, <2>1, <3>1
  <2>4. CASE RemoveReceiver
    BY <2>3, <2>4 DEF RemoveReceiver, TypeOK
  <2>5. CASE EndVirtual
    BY <2>3, <2>5, ArrivedType DEF EndVirtual
  <2> QED
    BY <2>2, <2>4, <2>5, WhoReports
<1> QED
  BY <1>3, <1>4, WhoReports

(* The invariant holds of every reachable state. *)
LEMMA Invariance == Spec => []IInv
<1>1. Init => Counts /\ Single /\ OpenedBefore /\ SizeTellsLoss /\ LateChunksOnly
  <2> SUFFICES ASSUME Init
               PROVE  Counts /\ Single /\ OpenedBefore /\ SizeTellsLoss /\ LateChunksOnly
    OBVIOUS
  <2>1. Counts
    BY DEF Init, Counts, EndingReceives, WrittenCounts, OneReportPerReceiver, None
  <2>2. Order
    BY DEF Init, Order, Spaced, OneRequest, OneStream, DataInOrder, Ending, None
  <2>3. SizeTellsLoss /\ LateChunksOnly
    BY DEF Init, SizeTellsLoss, LateChunksOnly, DiscardOnlyLate
  <2>4. OpenedBefore
    BY DEF Init, OpenedBefore, Asked, None
  <2> QED
    BY <2>1, <2>2, <2>3, <2>4 DEF Single
<1>2. IInv /\ TypeOK' /\ [Next]_vars =>
        /\ Counts' /\ Single' /\ OpenedBefore'
        /\ (early = {} => SizeTellsLoss)' /\ LateChunksOnly'
  BY CountsStep, OrderStep, SizeStep, OpenedStep, DiscardStep DEF IInv
<1> QED
  BY <1>1, <1>2, TypeCorrect, PTL DEF Spec, IInv

(* With automatic downloads only, what is written to a file is in order and *)
(* free of repetitions, for every number of files, chunks and notifications *)
(* and whatever is lost or fails.                                           *)
THEOREM FilesInOrder == Spec => []WrittenInOrder
<1>1. IInv => WrittenInOrder
  <2> SUFFICES ASSUME TypeOK, Spaced, NEW f \in Files,
                      NEW i \in DOMAIN content[f], NEW j \in DOMAIN content[f], i < j
               PROVE  content[f][i].pos < content[f][j].pos
    BY DEF IInv, Single, Order, WrittenInOrder
  <2>1. /\ i \in Nat /\ content[f][i].pos \in 0..Chunks
        /\ j \in Nat /\ content[f][j].pos \in 0..Chunks
    BY Components
  <2>2. content[f][j].pos - content[f][i].pos >= j - i
    BY <2>1 DEF Spaced
  <2> QED
    BY <2>1, <2>2
<1> QED
  BY <1>1, Invariance, PTL

(* As long as the server ends no download early, a report of the full size  *)
(* is never of a file with a gap, a repetition or a partial write.          *)
THEOREM FullSizeIsWholeFile == Spec => [](early = {} => SizeTellsLoss)
<1>1. IInv => (early = {} => SizeTellsLoss)
  BY DEF IInv
<1> QED
  BY <1>1, Invariance, PTL

(* With automatic downloads only, a chunk that finds no receiver is a late  *)
(* one of a download that has been reported, whether its end came early or  *)
(* frames, requests and writes were lost.                                   *)
THEOREM DiscardedIsLate == Spec => []LateChunksOnly
<1>1. IInv => LateChunksOnly
  BY DEF IInv
<1> QED
  BY <1>1, Invariance, PTL

-----------------------------------------------------------------------------
(* Download implements FileDelivery. *)

LEMMA CardSame == ASSUME NEW S PROVE Delivery!Cardinality(S) = Cardinality(S)
BY DEF Delivery!Cardinality, Cardinality

(* written counts the pieces that are whole. *)
Sizes == \A f \in Files : written[f] = Cardinality(Delivery!Wholes(content[f]))

LEMMA WholesFinite ==
    ASSUME NEW q \in Seq(Piece) PROVE IsFiniteSet(Delivery!Wholes(q))
<1>1. Len(q) \in Nat /\ DOMAIN q = 1..Len(q)
  OBVIOUS
<1>2. IsFiniteSet(DOMAIN q)
  BY <1>1, FS_Interval
<1>3. Delivery!Wholes(q) \subseteq DOMAIN q
  BY DEF Delivery!Wholes
<1> QED
  BY <1>2, <1>3, FS_Subset

(* A whole piece more is one more of them, a broken one is none. *)
LEMMA WholesAppend ==
    ASSUME NEW q \in Seq(Piece), NEW p \in Piece
    PROVE  Cardinality(Delivery!Wholes(Append(q, p))) =
             IF p.whole THEN Cardinality(Delivery!Wholes(q)) + 1
                        ELSE Cardinality(Delivery!Wholes(q))
<1> DEFINE n == Len(q) + 1
           a == Append(q, p)
<1>1. /\ n \notin DOMAIN q /\ DOMAIN a = DOMAIN q \cup {n} /\ a[n] = p
      /\ \A i \in DOMAIN q : a[i] = q[i]
  <2>1. /\ DOMAIN a = DOMAIN q \cup {n} /\ a[n] = p
        /\ \A i \in DOMAIN q : i \in Nat /\ i <= Len(q) /\ a[i] = q[i]
    BY AppendFacts
  <2>2. Len(q) \in Nat
    OBVIOUS
  <2>3. n \notin DOMAIN q
    BY <2>1, <2>2
  <2> QED
    BY <2>1, <2>3
<1> HIDE DEF n, a
<1>2. /\ p.whole => Delivery!Wholes(a) = Delivery!Wholes(q) \cup {n}
      /\ ~p.whole => Delivery!Wholes(a) = Delivery!Wholes(q)
      /\ n \notin Delivery!Wholes(q)
  BY <1>1 DEF Delivery!Wholes
<1>3. Cardinality(Delivery!Wholes(q) \cup {n}) = Cardinality(Delivery!Wholes(q)) + 1
  BY <1>2, WholesFinite, FS_AddElement
<1> QED
  BY <1>2, <1>3 DEF a

(* The piece of the chunk that has arrived. *)
Arriving(b) == [pos |-> Head(inbox).pos, whole |-> b]

LEMMA WriteForms ==
    ASSUME TypeOK, WriteChunk
    PROVE  /\ Arrived \in Files /\ Arrived \in receiving
           /\ Arriving(TRUE) \in Piece /\ Arriving(FALSE) \in Piece
           /\ \/ /\ content' = [content EXCEPT ![Arrived] = Append(@, Arriving(TRUE))]
                 /\ written' = [written EXCEPT ![Arrived] = @ + 1]
              \/ content' = content /\ written' = written
              \/ /\ content' = [content EXCEPT ![Arrived] = Append(@, Arriving(FALSE))]
                 /\ written' = written
<1>1. Arrived \in Files /\ Head(inbox).pos \in 0..Chunks
  BY ArrivedType DEF WriteChunk, Frame
<1>2. Arriving(TRUE) \in Piece /\ Arriving(FALSE) \in Piece
  BY <1>1 DEF Arriving, Piece
<1> QED
  BY <1>1, <1>2 DEF WriteChunk, Arriving, Incr

LEMMA WriteKeepsSizes == ASSUME TypeOK, Sizes, WriteChunk PROVE Sizes'
<1> SUFFICES ASSUME NEW f \in Files
             PROVE  written'[f] = Cardinality(Delivery!Wholes(content'[f]))
  BY DEF Sizes
<1>1. /\ content \in [Files -> Seq(Piece)] /\ written \in [Files -> Nat]
      /\ written[f] = Cardinality(Delivery!Wholes(content[f]))
  BY DEF TypeOK, Sizes
<1>2. Arriving(TRUE) \in Piece /\ Arriving(FALSE) \in Piece
  BY WriteForms
<1>3. Arriving(TRUE).whole /\ ~Arriving(FALSE).whole
  BY DEF Arriving
<1>4. content[f] \in Seq(Piece)
  BY <1>1
<1>5. /\ Cardinality(Delivery!Wholes(Append(content[f], Arriving(TRUE)))) = written[f] + 1
      /\ Cardinality(Delivery!Wholes(Append(content[f], Arriving(FALSE)))) = written[f]
  BY <1>1, <1>2, <1>3, <1>4, WholesAppend
<1>6. \/ content'[f] = content[f] /\ written'[f] = written[f]
      \/ content'[f] = Append(content[f], Arriving(TRUE)) /\ written'[f] = written[f] + 1
      \/ content'[f] = Append(content[f], Arriving(FALSE)) /\ written'[f] = written[f]
  <2>1. \A p : [content EXCEPT ![Arrived] = Append(@, p)][f] =
                 IF f = Arrived THEN Append(content[f], p) ELSE content[f]
    BY <1>1, WriteForms
  <2>2. [written EXCEPT ![Arrived] = @ + 1][f] =
          IF f = Arrived THEN written[f] + 1 ELSE written[f]
    BY <1>1, WriteForms
  <2> QED
    BY <2>1, <2>2, WriteForms
<1> QED
  BY <1>1, <1>5, <1>6

(* The actions that change what FileDelivery speaks of. *)
LEMMA WhoDelivers ==
    ASSUME [Next]_vars
    PROVE  \/ OpenReceiver \/ WriteChunk \/ RemoveReceiver \/ EndVirtual
           \/ UNCHANGED <<receiving, content, written, reported>>
<1>1. CASE Reader \/ LoseFrame
  BY <1>1 DEF Reader, IgnoreAvailable, DiscardChunk, EndDownload, EndUnknown,
     HandleFileEndAck, LoseFrame, clientVars, history
<1>2. ASSUME NEW f \in Files,
             AppDownloads(f) \/ Request(f) \/ RequestFails(f) \/ Register(f)
               \/ SrvNotify(f) \/ SrvServe(f) \/ LoseRequest(f)
      PROVE  UNCHANGED <<receiving, content, written, reported>>
  BY <1>2 DEF AppDownloads, Request, RequestFails, Register, SrvNotify, SrvServe,
     LoseRequest, clientVars, history
<1>3. ASSUME NEW s \in streams, SrvSend(s) \/ SrvEnd(s)
      PROVE  UNCHANGED <<receiving, content, written, reported>>
  BY <1>3 DEF SrvSend, SrvEnd, clientVars, history
<1>4. CASE UNCHANGED vars
  BY <1>4 DEF vars, clientVars, history
<1> QED
  BY <1>1, <1>2, <1>3, <1>4 DEF Next, Server

LEMMA SizesStep == TypeOK /\ Sizes /\ [Next]_vars => Sizes'
<1> SUFFICES ASSUME TypeOK, Sizes, [Next]_vars PROVE Sizes'
  OBVIOUS
<1>1. CASE OpenReceiver
  <2>1. Arrived \in Files
    BY <1>1, ArrivedType DEF OpenReceiver
  <2>2. Delivery!Wholes(<<>>) = {}
    BY DEF Delivery!Wholes
  <2>3. Cardinality(Delivery!Wholes(<<>>)) = 0
    BY <2>2, FS_EmptySet
  <2> QED
    BY <1>1, <2>1, <2>3 DEF OpenReceiver, Sizes, TypeOK
<1>2. CASE WriteChunk
  BY <1>2, WriteKeepsSizes
<1>3. CASE RemoveReceiver \/ EndVirtual
  BY <1>3 DEF RemoveReceiver, EndVirtual, Sizes
<1>4. CASE UNCHANGED <<content, written>>
  BY <1>4 DEF Sizes
<1> QED
  BY <1>1, <1>2, <1>3, <1>4, WhoDelivers

(* A chunk that arrives is written behind all that is there. *)
LEMMA WriteDelivers == ASSUME IInv, WriteChunk PROVE [Delivery!Next]_(Delivery!vars)
<1>1. TypeOK
  BY DEF IInv
<1>2. /\ Arrived \in receiving /\ Arrived \in Files
      /\ UNCHANGED <<receiving, reported, manual, early>>
  BY <1>1, WriteForms DEF WriteChunk, history
<1>3. CASE content' = content
  BY <1>2, <1>3 DEF Delivery!vars, OneStreamPerReceiver, OnlyAutomatic
<1>4. ASSUME NEW b \in BOOLEAN,
             content' = [content EXCEPT ![Arrived] = Append(@, Arriving(b))]
      PROVE  Delivery!Next
  <2> DEFINE p == Head(inbox).pos
  <2>1. p \in 0..Chunks
    BY <1>1, ArrivedType DEF WriteChunk, Frame
  <2>2. \/ ~OneStreamPerReceiver
        \/ p > 0 /\ \A i \in DOMAIN content[Arrived] : content[Arrived][i].pos < p
    <3> SUFFICES ASSUME OneStreamPerReceiver
                 PROVE  p > 0 /\ \A i \in DOMAIN content[Arrived] : content[Arrived][i].pos < p
      OBVIOUS
    <3>1. DataInOrder
      BY DEF IInv, Single, Order
    <3>2. /\ inbox \in Seq(Frame) /\ inbox # <<>> /\ Head(inbox).kind = "chunk"
      BY <1>1 DEF WriteChunk, Arrives, TypeOK
    <3>3. 1 \in DOMAIN inbox /\ inbox[1] = Head(inbox)
      BY <3>2, TailFacts
    <3> QED
      BY <3>1, <3>2, <3>3 DEF DataInOrder, IsData, Arrived
  <2>3. content' = [content EXCEPT ![Arrived] = Append(@, [pos |-> p, whole |-> b])]
    BY <1>4 DEF Arriving
  <2> HIDE DEF p
  <2>4. OneStreamPerReceiver' = OneStreamPerReceiver
    BY <1>2 DEF OneStreamPerReceiver, OnlyAutomatic
  <2>5. Delivery!Write(Arrived)
    BY <1>2, <2>1, <2>2, <2>3, <2>4 DEF Delivery!Write
  <2> QED
    BY <1>2, <2>5 DEF Delivery!Next
<1> QED
  BY <1>1, <1>3, <1>4, WriteForms

(* A receiver that is removed is delivered. *)
LEMMA ReportDelivers ==
    ASSUME TypeOK, Sizes, NEW f \in receiving, receiving' = receiving \ {f},
           reported' = reported \cup {ReportOf(f)}, UNCHANGED <<content, manual, early>>
    PROVE  Delivery!Next
<1>1. f \in Files
  BY DEF TypeOK
<1>2. ReportOf(f) = [file |-> f, size |-> Cardinality(Delivery!Wholes(content[f])),
                     content |-> content[f]]
  BY <1>1 DEF ReportOf, Sizes
<1>3. ReportOf(f) = [file |-> f, size |-> Delivery!Cardinality(Delivery!Wholes(content[f])),
                     content |-> content[f]]
  BY <1>2, CardSame
<1>4. Delivery!Deliver(f)
  BY <1>3 DEF Delivery!Deliver, OneStreamPerReceiver, OnlyAutomatic
<1> QED
  BY <1>1, <1>4 DEF Delivery!Next

LEMMA DeliveryStep == IInv /\ Sizes /\ [Next]_vars => [Delivery!Next]_(Delivery!vars)
<1> SUFFICES ASSUME IInv, Sizes, [Next]_vars PROVE [Delivery!Next]_(Delivery!vars)
  OBVIOUS
<1>1. TypeOK
  BY DEF IInv
<1>2. CASE OpenReceiver
  <2>1. Arrived \in Files
    BY <1>1, <1>2, ArrivedType DEF OpenReceiver
  <2>2. Delivery!Open(Arrived)
    BY <1>2 DEF OpenReceiver, Delivery!Open, OneStreamPerReceiver, OnlyAutomatic
  <2> QED
    BY <2>1, <2>2 DEF Delivery!Next
<1>3. CASE WriteChunk
  BY <1>3, WriteDelivers
<1>4. CASE RemoveReceiver
  <2>1. PICK e \in ending : RemoveReceiver!(e)
    BY <1>4 DEF RemoveReceiver
  <2>2. e.file \in receiving
    BY DEF IInv, Counts, EndingReceives
  <2>3. UNCHANGED <<content, manual, early>>
    BY <2>1 DEF network
  <2> QED
    BY <1>1, <2>1, <2>2, <2>3, ReportDelivers
<1>5. CASE EndVirtual
  BY <1>1, <1>5, ReportDelivers DEF EndVirtual
<1>6. CASE UNCHANGED <<receiving, content, reported>>
  <2>1. OneStreamPerReceiver' => OneStreamPerReceiver
    BY <1>1, StaysSingle DEF OneStreamPerReceiver
  <2>2. CASE OneStreamPerReceiver' = OneStreamPerReceiver
    BY <1>6, <2>2 DEF Delivery!vars
  <2>3. CASE ~OneStreamPerReceiver'
    BY <1>6, <2>3 DEF Delivery!Next, Delivery!Mix
  <2> QED
    BY <2>1, <2>2, <2>3 DEF OneStreamPerReceiver
<1> QED
  BY <1>2, <1>3, <1>4, <1>5, <1>6, WhoDelivers

(* Notifications, requests, sessions and the reader together do what        *)
(* FileDelivery promises, whatever fails: a file grows by pieces further    *)
(* and further on, is delivered as it is, once per opening, and with the    *)
(* size of what is whole in it.                                             *)
THEOREM KeepsDeliveryPromise == Spec => ImplementsDelivery
<1>1. Init => Sizes /\ Delivery!Init
  <2> SUFFICES ASSUME Init PROVE Sizes /\ Delivery!Init
    OBVIOUS
  <2>1. Delivery!Wholes(<<>>) = {}
    BY DEF Delivery!Wholes
  <2>2. Cardinality(Delivery!Wholes(<<>>)) = 0
    BY <2>1, FS_EmptySet
  <2>3. Sizes
    BY <2>2 DEF Init, Sizes, None
  <2> QED
    BY <2>3 DEF Init, Delivery!Init, OneStreamPerReceiver, OnlyAutomatic
<1>2. IInv /\ Sizes /\ [Next]_vars => Sizes'
  BY SizesStep DEF IInv
<1>3. IInv /\ Sizes /\ [Next]_vars => [Delivery!Next]_(Delivery!vars)
  BY DeliveryStep
<1> QED
  BY <1>1, <1>2, <1>3, Invariance, PTL DEF Spec, ImplementsDelivery, Delivery!Spec
=============================================================================
