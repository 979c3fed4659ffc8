------------------------ MODULE VirtualStreamProofs ------------------------
(***************************************************************************)
(* Proofs about VirtualStream, for every window, ackChan capacity, queue   *)
(* capacity, file length, set of faults and number of senders.             *)
(***************************************************************************)
EXTENDS VirtualStream, FiniteSetTheorems, SequenceTheorems, TLAPS

-----------------------------------------------------------------------------
(* Counting chunk frames on a queue and in a set. *)

(* The number of chunks on a queue is a natural number, 0 when it is empty. *)
LEMMA QueuedChunksType ==
    ASSUME NEW q \in Seq(Frame)
    PROVE  /\ IsFiniteSet({i \in 1..Len(q) : q[i].kind = "chunk"})
           /\ QueuedChunks(q) \in Nat
<1>1. IsFiniteSet(1..Len(q))
  BY FS_Interval
<1>2. {i \in 1..Len(q) : q[i].kind = "chunk"} \in SUBSET (1..Len(q))
  OBVIOUS
<1>3. IsFiniteSet({i \in 1..Len(q) : q[i].kind = "chunk"})
  BY <1>1, <1>2, FS_Subset
<1> QED
  BY <1>3, FS_CardinalityType DEF QueuedChunks

(* Appending a frame adds one to the count exactly when it is a chunk. *)
LEMMA QueuedChunksAppend ==
    ASSUME NEW q \in Seq(Frame), NEW f \in Frame
    PROVE  QueuedChunks(Append(q, f)) =
             IF f.kind = "chunk" THEN QueuedChunks(q) + 1 ELSE QueuedChunks(q)
<1> DEFINE S == {i \in 1..Len(q) : q[i].kind = "chunk"}
           T == {i \in 1..Len(Append(q, f)) : Append(q, f)[i].kind = "chunk"}
<1>1. Len(Append(q, f)) = Len(q) + 1 /\ Len(q) \in Nat
  OBVIOUS
<1>2. \A i \in 1..Len(q) : Append(q, f)[i] = q[i]
  OBVIOUS
<1>3. Append(q, f)[Len(q) + 1] = f
  OBVIOUS
<1>4. T = IF f.kind = "chunk" THEN S \cup {Len(q) + 1} ELSE S
  <2>1. \A i : i \in 1..Len(Append(q, f)) <=> i \in 1..Len(q) \/ i = Len(q) + 1
    BY <1>1
  <2> QED
    BY <2>1, <1>2, <1>3
<1>5. Len(q) + 1 \notin S
  BY <1>1
<1> HIDE DEF S, T
<1>6. IsFiniteSet(S)
  BY QueuedChunksType DEF S
<1>7. Cardinality(T) = IF f.kind = "chunk" THEN Cardinality(S) + 1 ELSE Cardinality(S)
  BY <1>4, <1>5, <1>6, FS_AddElement
<1> QED
  BY <1>7 DEF S, T, QueuedChunks

(* Removing the head subtracts one exactly when the head is a chunk. *)
LEMMA QueuedChunksTail ==
    ASSUME NEW q \in Seq(Frame), q # <<>>
    PROVE  QueuedChunks(q) =
             IF Head(q).kind = "chunk" THEN QueuedChunks(Tail(q)) + 1
                                       ELSE QueuedChunks(Tail(q))
<1> DEFINE S == {i \in 1..Len(q) : q[i].kind = "chunk"}
           T == {i \in 1..Len(Tail(q)) : Tail(q)[i].kind = "chunk"}
           shift == [i \in T |-> i + 1]
<1>1. Len(q) \in Nat /\ Len(q) >= 1 /\ Len(Tail(q)) = Len(q) - 1 /\ Head(q) = q[1]
  OBVIOUS
<1>2. \A i \in 1..Len(Tail(q)) : Tail(q)[i] = q[i + 1]
  OBVIOUS
<1>3. \A i \in T : i \in Nat /\ i + 1 \in S \ {1}
  BY <1>1, <1>2
<1>4. \A j \in S \ {1} : j \in Nat /\ j - 1 \in T /\ (j - 1) + 1 = j
  BY <1>1, <1>2
<1>5. shift \in Bijection(T, S \ {1})
  <2>1. shift \in [T -> S \ {1}]
    BY <1>3
  <2>2. \A a, b \in T : shift[a] = shift[b] => a = b
    BY <1>3
  <2>3. \A j \in S \ {1} : \E a \in T : shift[a] = j
    BY <1>4
  <2> QED
    BY <2>1, <2>2, <2>3 DEF Bijection, Injection, Surjection, IsInjective
<1>6. IsFiniteSet(S) /\ IsFiniteSet(T)
  <2>1. Tail(q) \in Seq(Frame)
    OBVIOUS
  <2> QED
    BY <2>1, QueuedChunksType
<1>7. 1 \in S <=> Head(q).kind = "chunk"
  BY <1>1
<1> HIDE DEF S, T, shift
<1>8. Cardinality(S \ {1}) = Cardinality(T)
  BY <1>5, <1>6, FS_Bijection DEF ExistsBijection
<1>9. Cardinality(S \ {1}) = IF 1 \in S THEN Cardinality(S) - 1 ELSE Cardinality(S)
  BY <1>6, FS_RemoveElement
<1>10. Cardinality(S) \in Nat /\ Cardinality(T) \in Nat
  BY <1>6, FS_CardinalityType
<1>11. QueuedChunks(q) = Cardinality(S)
  BY DEF S, QueuedChunks
<1>12. QueuedChunks(Tail(q)) = Cardinality(T)
  BY DEF T, QueuedChunks
<1> QED
  BY <1>7, <1>8, <1>9, <1>10, <1>11, <1>12

(* Adding a new frame to a finite set, or removing one of its frames,       *)
(* changes the count by one exactly when the frame is a chunk.              *)
LEMMA ChunksAmongType ==
    ASSUME NEW S, IsFiniteSet(S)
    PROVE  /\ IsFiniteSet({f \in S : f.kind = "chunk"})
           /\ ChunksAmong(S) \in Nat
<1>1. IsFiniteSet({f \in S : f.kind = "chunk"})
  BY FS_Subset
<1> QED
  BY <1>1, FS_CardinalityType DEF ChunksAmong

(* A frame handed to the transport adds itself, when it is new. *)
LEMMA ChunksAmongAdd ==
    ASSUME NEW S, IsFiniteSet(S), NEW f, f.kind = "chunk" => f \notin S
    PROVE  ChunksAmong(S \cup {f}) =
             IF f.kind = "chunk" THEN ChunksAmong(S) + 1 ELSE ChunksAmong(S)
<1> DEFINE C == {g \in S : g.kind = "chunk"}
<1>1. {g \in S \cup {f} : g.kind = "chunk"} = IF f.kind = "chunk" THEN C \cup {f} ELSE C
  OBVIOUS
<1>2. IsFiniteSet(C)
  BY ChunksAmongType
<1>3. f.kind = "chunk" => f \notin C
  OBVIOUS
<1> HIDE DEF C
<1>4. Cardinality(C \cup {f}) = IF f \in C THEN Cardinality(C) ELSE Cardinality(C) + 1
  BY <1>2, FS_AddElement
<1> QED
  BY <1>1, <1>3, <1>4 DEF C, ChunksAmong

(* A frame that leaves the transport takes itself away. *)
LEMMA ChunksAmongRemove ==
    ASSUME NEW S, IsFiniteSet(S), NEW f \in S
    PROVE  ChunksAmong(S) =
             IF f.kind = "chunk" THEN ChunksAmong(S \ {f}) + 1 ELSE ChunksAmong(S \ {f})
<1> DEFINE C == {g \in S : g.kind = "chunk"}
<1>1. {g \in S \ {f} : g.kind = "chunk"} = C \ {f}
  OBVIOUS
<1>2. f \in C <=> f.kind = "chunk"
  OBVIOUS
<1>3. IsFiniteSet(C)
  BY ChunksAmongType
<1> HIDE DEF C
<1>4. Cardinality(C \ {f}) = IF f \in C THEN Cardinality(C) - 1 ELSE Cardinality(C)
  BY <1>3, FS_RemoveElement
<1>5. Cardinality(C) \in Nat
  BY <1>3, FS_CardinalityType
<1> QED
  BY <1>1, <1>2, <1>4, <1>5 DEF C, ChunksAmong

-----------------------------------------------------------------------------
(* The inductive invariant. *)

(* Nothing reaches ackChan before the session exists, and the window loop's *)
(* decision still holds when it is acted upon.                              *)
WindowPhase ==
    /\ upc \in {"idle", "init"} => ~session /\ ackBuf = 0
    /\ upc = "enqueue" => inFlight < Window
    /\ upc = "await" => inFlight >= Window

(* What this upload and the other traffic can have on lowCh together. *)
LowShare ==
    Len(low) <= QueuedChunks(low) + others
                + (IF upc = "idle" THEN 0 ELSE 1)
                + (IF upc \in {"cleanup", "ok"} THEN 1 ELSE 0)

(* Chunks leave in the order they were read, and none is queued twice. *)
InHand == upc \in {"window", "await", "enqueue"}

InOrder ==
    /\ \A i, j \in 1..Len(low) :
          i < j /\ low[i].kind = "chunk" /\ low[j].kind = "chunk"
            => low[i].pos < low[j].pos
    /\ \A f \in net : \A i \in 1..Len(low) :
          f.kind = "chunk" /\ low[i].kind = "chunk" => f.pos < low[i].pos
    /\ \A i \in 1..Len(low) : low[i].kind = "chunk" =>
          low[i].pos <= sentCount /\ (InHand => low[i].pos < sentCount)
    /\ \A f \in net : f.kind = "chunk" =>
          f.pos <= sentCount /\ (InHand => f.pos < sentCount)

IInv ==
    /\ TypeOK /\ IsFiniteSet(net)
    /\ WindowAccounting /\ WindowBound /\ WindowPhase
    /\ DropsLeaveAckCap /\ LowShare /\ InOrder

(* The initial state satisfies the invariant. *)
LEMMA InitIInv == Init => IInv
<1> SUFFICES ASSUME Init PROVE IInv
  OBVIOUS
<1>1. QueuedChunks(<<>>) = 0
  <2>1. {i \in 1..Len(<<>>) : <<>>[i].kind = "chunk"} = {}
    OBVIOUS
  <2> QED
    BY <2>1, FS_EmptySet DEF QueuedChunks
<1>2. ChunksAmong({}) = 0 /\ IsFiniteSet({})
  <2>1. {f \in {} : f.kind = "chunk"} = {}
    OBVIOUS
  <2> QED
    BY <2>1, FS_EmptySet DEF ChunksAmong
<1>3. TypeOK
  <2>1. <<>> \in Seq(Frame) /\ <<>> \in Seq([pos : Nat, idx : Nat])
    OBVIOUS
  <2>2. TypeOK
    <3>1. 0 \in 0..Chunks /\ 0 \in 0..AckCap /\ 0 \in 0..MaxOther
      BY ParamAssumption
    <3> QED
      BY <2>1, <3>1 DEF Init, TypeOK
  <2> QED
    BY <2>2
<1>4. WindowAccounting /\ WindowBound /\ WindowPhase /\ DropsLeaveAckCap
  BY <1>1, <1>2, ParamAssumption DEF Init, WindowAccounting, Credit, WindowBound,
     WindowPhase, DropsLeaveAckCap
<1>5. LowShare
  BY <1>1 DEF Init, LowShare
<1>6. InOrder
  BY DEF Init, InOrder
<1> QED
  BY <1>2, <1>3, <1>4, <1>5, <1>6 DEF Init, IInv

(* Every step preserves it. *)
LEMMA NextIInv == IInv /\ [Next]_vars => IInv'
<1> SUFFICES ASSUME IInv, [Next]_vars PROVE IInv'
  OBVIOUS
<1> USE ParamAssumption
<1>a. QueuedChunks(low) \in Nat /\ ChunksAmong(net) \in Nat
  BY QueuedChunksType, ChunksAmongType DEF IInv, TypeOK
<1>d. /\ \A i \in 1..Len(low) : low[i].pos \in Nat
      /\ \A f \in net : f.pos \in Nat
  <2>1. \A f \in Frame : f.pos \in Nat
    BY DEF Frame
  <2>2. \A i \in 1..Len(low) : low[i] \in Frame
    BY DEF IInv, TypeOK
  <2>3. net \subseteq Frame
    BY DEF IInv, TypeOK
  <2> QED
    BY <2>1, <2>2, <2>3
<1>b. /\ inFlight \in Nat /\ ackBuf \in Nat /\ ackBuf <= AckCap /\ unacked \in Nat
      /\ acks \in Nat /\ lost \in Nat /\ muted \in Nat /\ dropped \in Nat
  BY DEF IInv, TypeOK
<1>c. WindowAccounting /\ WindowBound /\ WindowPhase /\ DropsLeaveAckCap
  BY DEF IInv
<1>1. CASE RegisterSession
  <2>1. TypeOK'
    BY <1>1 DEF RegisterSession, IInv, TypeOK, WindowPhase, uploader, sessionVars, wire, server, history
  <2>2. UNCHANGED <<low, net>>
    BY <1>1 DEF RegisterSession, uploader, sessionVars, wire, server, history
  <2>a. UNCHANGED <<QueuedChunks(low), ChunksAmong(net)>>
    BY <2>2
  <2>3. (WindowAccounting /\ WindowBound /\ WindowPhase /\ DropsLeaveAckCap)'
    BY <1>1, <1>a, <1>b, <1>c, <2>a DEF RegisterSession, WindowAccounting, Credit,
       WindowBound, WindowPhase, DropsLeaveAckCap, uploader, sessionVars, wire, server, history
  <2>4. LowShare'
    BY <1>1, <1>a, <2>a, <2>2 DEF RegisterSession, IInv, TypeOK, LowShare, uploader, sessionVars, wire, server, history
  <2>5. InOrder'
    BY <1>1, <2>2 DEF RegisterSession, IInv, TypeOK, InOrder, InHand, uploader, sessionVars, wire, server, history
  <2> QED
    BY <2>1, <2>2, <2>3, <2>4, <2>5 DEF IInv
<1>2. CASE ReadChunk
  <2>1. TypeOK'
    BY <1>2 DEF ReadChunk, IInv, TypeOK, WindowPhase, uploader, sessionVars, wire, server, history
  <2>2. UNCHANGED <<low, net>>
    BY <1>2 DEF ReadChunk, uploader, sessionVars, wire, server, history
  <2>a. UNCHANGED <<QueuedChunks(low), ChunksAmong(net)>>
    BY <2>2
  <2>3. (WindowAccounting /\ WindowBound /\ WindowPhase /\ DropsLeaveAckCap)'
    BY <1>2, <1>a, <1>b, <1>c, <2>a DEF ReadChunk, WindowAccounting, Credit,
       WindowBound, WindowPhase, DropsLeaveAckCap, uploader, sessionVars, wire, server, history
  <2>4. LowShare'
    BY <1>2, <1>a, <2>a, <2>2 DEF ReadChunk, IInv, TypeOK, LowShare, uploader, sessionVars, wire, server, history
  <2>5. InOrder'
    <3>1. sentCount \in Nat /\ sentCount' = sentCount + 1
      BY <1>2 DEF ReadChunk, IInv, TypeOK
    <3> QED
      BY <1>2, <1>d, <2>2, <3>1 DEF IInv, InOrder
  <2> QED
    BY <2>1, <2>2, <2>3, <2>4, <2>5 DEF IInv
<1>3. CASE ReadNothing
  <2>1. TypeOK'
    BY <1>3 DEF ReadNothing, IInv, TypeOK, WindowPhase, uploader, sessionVars, wire, server, history
  <2>2. UNCHANGED <<low, net>>
    BY <1>3 DEF ReadNothing, uploader, sessionVars, wire, server, history
  <2>a. UNCHANGED <<QueuedChunks(low), ChunksAmong(net)>>
    BY <2>2
  <2>3. (WindowAccounting /\ WindowBound /\ WindowPhase /\ DropsLeaveAckCap)'
    BY <1>3, <1>a, <1>b, <1>c, <2>a DEF ReadNothing, WindowAccounting, Credit,
       WindowBound, WindowPhase, DropsLeaveAckCap, uploader, sessionVars, wire, server, history
  <2>4. LowShare'
    BY <1>3, <1>a, <2>a, <2>2 DEF ReadNothing, IInv, TypeOK, LowShare, uploader, sessionVars, wire, server, history
  <2>5. InOrder'
    BY <1>3, <2>2 DEF ReadNothing, IInv, TypeOK, InOrder, InHand, uploader, sessionVars, wire, server, history
  <2> QED
    BY <2>1, <2>2, <2>3, <2>4, <2>5 DEF IInv
<1>27. CASE RegisterFails
  <2>1. TypeOK'
    BY <1>27 DEF RegisterFails, IInv, TypeOK, WindowPhase, uploader, sessionVars, wire, server, history
  <2>2. UNCHANGED <<low, net>>
    BY <1>27 DEF RegisterFails, uploader, sessionVars, wire, server, history
  <2>a. UNCHANGED <<QueuedChunks(low), ChunksAmong(net)>>
    BY <2>2
  <2>3. (WindowAccounting /\ WindowBound /\ WindowPhase /\ DropsLeaveAckCap)'
    BY <1>27, <1>a, <1>b, <1>c, <2>a DEF RegisterFails, WindowAccounting, Credit,
       WindowBound, WindowPhase, DropsLeaveAckCap, uploader, sessionVars, wire, server, history
  <2>4. LowShare'
    BY <1>27, <1>a, <2>a, <2>2 DEF RegisterFails, IInv, TypeOK, LowShare, uploader, sessionVars, wire, server, history
  <2>5. InOrder'
    BY <1>27, <2>2 DEF RegisterFails, IInv, TypeOK, InOrder, InHand, uploader, sessionVars, wire, server, history
  <2> QED
    BY <2>1, <2>2, <2>3, <2>4, <2>5 DEF IInv
<1>4. CASE CheckWindow
  <2>1. TypeOK'
    BY <1>4 DEF CheckWindow, IInv, TypeOK, WindowPhase, uploader, sessionVars, wire, server, history
  <2>2. UNCHANGED <<low, net>>
    BY <1>4 DEF CheckWindow, uploader, sessionVars, wire, server, history
  <2>a. UNCHANGED <<QueuedChunks(low), ChunksAmong(net)>>
    BY <2>2
  <2>3. (WindowAccounting /\ WindowBound /\ WindowPhase /\ DropsLeaveAckCap)'
    BY <1>4, <1>a, <1>b, <1>c, <2>a DEF CheckWindow, WindowAccounting, Credit,
       WindowBound, WindowPhase, DropsLeaveAckCap, uploader, sessionVars, wire, server, history
  <2>4. LowShare'
    BY <1>4, <1>a, <2>a, <2>2 DEF CheckWindow, IInv, TypeOK, LowShare, uploader, sessionVars, wire, server, history
  <2>5. InOrder'
    BY <1>4, <2>2 DEF CheckWindow, IInv, TypeOK, InOrder, InHand, uploader, sessionVars, wire, server, history
  <2> QED
    BY <2>1, <2>2, <2>3, <2>4, <2>5 DEF IInv
<1>5. CASE TakeAck
  <2>1. TypeOK'
    BY <1>5 DEF TakeAck, IInv, TypeOK, WindowPhase, uploader, sessionVars, wire, server, history
  <2>2. UNCHANGED <<low, net>>
    BY <1>5 DEF TakeAck, uploader, sessionVars, wire, server, history
  <2>a. UNCHANGED <<QueuedChunks(low), ChunksAmong(net)>>
    BY <2>2
  <2>3. (WindowAccounting /\ WindowBound /\ WindowPhase /\ DropsLeaveAckCap)'
    BY <1>5, <1>a, <1>b, <1>c, <2>a DEF TakeAck, WindowAccounting, Credit,
       WindowBound, WindowPhase, DropsLeaveAckCap, uploader, sessionVars, wire, server, history
  <2>4. LowShare'
    BY <1>5, <1>a, <2>a, <2>2 DEF TakeAck, IInv, TypeOK, LowShare, uploader, sessionVars, wire, server, history
  <2>5. InOrder'
    BY <1>5, <2>2 DEF TakeAck, IInv, TypeOK, InOrder, InHand, uploader, sessionVars, wire, server, history
  <2> QED
    BY <2>1, <2>2, <2>3, <2>4, <2>5 DEF IInv
<1>6. CASE AckTimeout
  <2>1. TypeOK'
    BY <1>6 DEF AckTimeout, IInv, TypeOK, WindowPhase, uploader, sessionVars, wire, server, history
  <2>2. UNCHANGED <<low, net>>
    BY <1>6 DEF AckTimeout, uploader, sessionVars, wire, server, history
  <2>a. UNCHANGED <<QueuedChunks(low), ChunksAmong(net)>>
    BY <2>2
  <2>3. (WindowAccounting /\ WindowBound /\ WindowPhase /\ DropsLeaveAckCap)'
    BY <1>6, <1>a, <1>b, <1>c, <2>a DEF AckTimeout, WindowAccounting, Credit,
       WindowBound, WindowPhase, DropsLeaveAckCap, uploader, sessionVars, wire, server, history
  <2>4. LowShare'
    BY <1>6, <1>a, <2>a, <2>2 DEF AckTimeout, IInv, TypeOK, LowShare, uploader, sessionVars, wire, server, history
  <2>5. InOrder'
    BY <1>6, <2>2 DEF AckTimeout, IInv, TypeOK, InOrder, InHand, uploader, sessionVars, wire, server, history
  <2> QED
    BY <2>1, <2>2, <2>3, <2>4, <2>5 DEF IInv
<1>7. CASE BumpIndex
  <2>1. TypeOK'
    <3>1. upc' \in {"read", "end", "failed"}
      BY <1>7 DEF BumpIndex
    <3>2. currentIdx' \in Nat
      <4>1. loaded \in Nat
        BY DEF IInv, TypeOK
      <4>2. currentIdx' = loaded + 1
        BY <1>7 DEF BumpIndex
      <4> QED
        BY <4>1, <4>2
    <3> QED
      BY <1>7, <3>1, <3>2 DEF BumpIndex, IInv, TypeOK, uploader, sessionVars, wire, server, history
  <2>2. UNCHANGED <<low, net>>
    BY <1>7 DEF BumpIndex, uploader, sessionVars, wire, server, history
  <2>a. UNCHANGED <<QueuedChunks(low), ChunksAmong(net)>>
    BY <2>2
  <2>3. (WindowAccounting /\ WindowBound /\ WindowPhase /\ DropsLeaveAckCap)'
    BY <1>7, <1>a, <1>b, <1>c, <2>a DEF BumpIndex, WindowAccounting, Credit,
       WindowBound, WindowPhase, DropsLeaveAckCap, uploader, sessionVars, wire, server, history
  <2>4. LowShare'
    BY <1>7, <1>a, <2>a, <2>2 DEF BumpIndex, IInv, TypeOK, LowShare, uploader, sessionVars, wire, server, history
  <2>5. InOrder'
    BY <1>7, <2>2 DEF BumpIndex, IInv, TypeOK, InOrder, InHand, uploader, sessionVars, wire, server, history
  <2> QED
    BY <2>1, <2>2, <2>3, <2>4, <2>5 DEF IInv
<1>8. CASE Finish
  <2>1. TypeOK'
    BY <1>8 DEF Finish, IInv, TypeOK, WindowPhase, uploader, sessionVars, wire, server, history
  <2>2. UNCHANGED <<low, net>>
    BY <1>8 DEF Finish, uploader, sessionVars, wire, server, history
  <2>a. UNCHANGED <<QueuedChunks(low), ChunksAmong(net)>>
    BY <2>2
  <2>3. (WindowAccounting /\ WindowBound /\ WindowPhase /\ DropsLeaveAckCap)'
    BY <1>8, <1>a, <1>b, <1>c, <2>a DEF Finish, WindowAccounting, Credit,
       WindowBound, WindowPhase, DropsLeaveAckCap, uploader, sessionVars, wire, server, history
  <2>4. LowShare'
    BY <1>8, <1>a, <2>a, <2>2 DEF Finish, IInv, TypeOK, LowShare, uploader, sessionVars, wire, server, history
  <2>5. InOrder'
    BY <1>8, <2>2 DEF Finish, IInv, TypeOK, InOrder, InHand, uploader, sessionVars, wire, server, history
  <2> QED
    BY <2>1, <2>2, <2>3, <2>4, <2>5 DEF IInv
<1>9. CASE HandleAck
  <2>1. TypeOK'
    BY <1>9 DEF HandleAck, IInv, TypeOK, WindowPhase, uploader, sessionVars, wire, server, history
  <2>2. UNCHANGED <<low, net>>
    BY <1>9 DEF HandleAck, uploader, sessionVars, wire, server, history
  <2>a. UNCHANGED <<QueuedChunks(low), ChunksAmong(net)>>
    BY <2>2
  <2>3. (WindowAccounting /\ WindowBound /\ WindowPhase /\ DropsLeaveAckCap)'
    <3>1. /\ acks > 0 /\ acks' = acks - 1 /\ unacked' = unacked /\ lost' = lost
          /\ inFlight' = inFlight /\ upc' = upc /\ session' = session
      BY <1>9 DEF HandleAck, uploader, wire
    <3>2. /\ QueuedChunks(low') = QueuedChunks(low) /\ ChunksAmong(net') = ChunksAmong(net)
      BY <2>a
    <3>3. CASE session /\ ackBuf < AckCap
      <4>1. ackBuf' = ackBuf + 1 /\ muted' = muted /\ dropped' = dropped
        BY <1>9, <3>3, <1>b DEF HandleAck
      <4>2. Credit' = Credit /\ Credit \in Nat
        BY <1>a, <1>b, <3>1, <3>2, <4>1 DEF Credit
      <4> QED
        BY <1>c, <3>1, <3>3, <4>1, <4>2 DEF WindowAccounting, WindowBound, WindowPhase,
           DropsLeaveAckCap
    <3>4. CASE session /\ ackBuf = AckCap
      <4>1. ackBuf' = ackBuf /\ muted' = muted /\ dropped' = dropped + 1
        BY <1>9, <3>4, <1>b DEF HandleAck
      <4>2. Credit' = Credit - 1 /\ Credit \in Nat /\ Credit >= AckCap + 1
        BY <1>a, <1>b, <3>1, <3>2, <3>4, <4>1 DEF Credit
      <4>3. WindowAccounting'
        BY <1>b, <1>c, <3>1, <4>1, <4>2 DEF WindowAccounting
      <4>4. dropped' + AckCap <= Window
        BY <1>b, <1>c, <3>1, <4>1, <4>2 DEF WindowAccounting, WindowBound
      <4> QED
        BY <1>c, <3>1, <3>4, <4>3, <4>4 DEF WindowBound, WindowPhase, DropsLeaveAckCap
    <3>5. CASE ~session
      <4>1. ackBuf' = ackBuf /\ muted' = muted + 1 /\ dropped' = dropped
        BY <1>9, <3>5 DEF HandleAck
      <4>2. Credit' = Credit - 1 /\ Credit \in Nat
        BY <1>a, <1>b, <3>1, <3>2, <4>1 DEF Credit
      <4>3. WindowAccounting'
        BY <1>b, <1>c, <3>1, <4>1, <4>2 DEF WindowAccounting
      <4> QED
        BY <1>c, <3>1, <3>5, <4>1, <4>3 DEF WindowBound, WindowPhase, DropsLeaveAckCap
    <3> QED
      BY <1>b, <3>3, <3>4, <3>5
  <2>4. LowShare'
    BY <1>9, <1>a, <2>a, <2>2 DEF HandleAck, IInv, TypeOK, LowShare, uploader, sessionVars, wire, server, history
  <2>5. InOrder'
    BY <1>9, <2>2 DEF HandleAck, IInv, TypeOK, InOrder, InHand, uploader, sessionVars, wire, server, history
  <2> QED
    BY <2>1, <2>2, <2>3, <2>4, <2>5 DEF IInv
<1>10. CASE HandleInitAck
  <2>1. TypeOK'
    BY <1>10 DEF HandleInitAck, IInv, TypeOK, WindowPhase, uploader, sessionVars, wire, server, history
  <2>2. UNCHANGED <<low, net>>
    BY <1>10 DEF HandleInitAck, uploader, sessionVars, wire, server, history
  <2>a. UNCHANGED <<QueuedChunks(low), ChunksAmong(net)>>
    BY <2>2
  <2>3. (WindowAccounting /\ WindowBound /\ WindowPhase /\ DropsLeaveAckCap)'
    BY <1>10, <1>a, <1>b, <1>c, <2>a DEF HandleInitAck, WindowAccounting, Credit,
       WindowBound, WindowPhase, DropsLeaveAckCap, uploader, sessionVars, wire, server, history
  <2>4. LowShare'
    BY <1>10, <1>a, <2>a, <2>2 DEF HandleInitAck, IInv, TypeOK, LowShare, uploader, sessionVars, wire, server, history
  <2>5. InOrder'
    BY <1>10, <2>2 DEF HandleInitAck, IInv, TypeOK, InOrder, InHand, uploader, sessionVars, wire, server, history
  <2> QED
    BY <2>1, <2>2, <2>3, <2>4, <2>5 DEF IInv
<1>11. CASE Close
  <2>1. TypeOK'
    BY <1>11 DEF Close, IInv, TypeOK, WindowPhase, uploader, sessionVars, wire, server, history
  <2>2. UNCHANGED <<low, net>>
    BY <1>11 DEF Close, uploader, sessionVars, wire, server, history
  <2>a. UNCHANGED <<QueuedChunks(low), ChunksAmong(net)>>
    BY <2>2
  <2>3. (WindowAccounting /\ WindowBound /\ WindowPhase /\ DropsLeaveAckCap)'
    BY <1>11, <1>a, <1>b, <1>c, <2>a DEF Close, WindowAccounting, Credit,
       WindowBound, WindowPhase, DropsLeaveAckCap, uploader, sessionVars, wire, server, history
  <2>4. LowShare'
    BY <1>11, <1>a, <2>a, <2>2 DEF Close, IInv, TypeOK, LowShare, uploader, sessionVars, wire, server, history
  <2>5. InOrder'
    BY <1>11, <2>2 DEF Close, IInv, TypeOK, InOrder, InHand, uploader, sessionVars, wire, server, history
  <2> QED
    BY <2>1, <2>2, <2>3, <2>4, <2>5 DEF IInv
<1>12. CASE SrvAck
  <2>1. TypeOK'
    BY <1>12 DEF SrvAck, IInv, TypeOK, WindowPhase, uploader, sessionVars, wire, server, history
  <2>2. UNCHANGED <<low, net>>
    BY <1>12 DEF SrvAck, uploader, sessionVars, wire, server, history
  <2>a. UNCHANGED <<QueuedChunks(low), ChunksAmong(net)>>
    BY <2>2
  <2>3. (WindowAccounting /\ WindowBound /\ WindowPhase /\ DropsLeaveAckCap)'
    BY <1>12, <1>a, <1>b, <1>c, <2>a DEF SrvAck, WindowAccounting, Credit,
       WindowBound, WindowPhase, DropsLeaveAckCap, uploader, sessionVars, wire, server, history
  <2>4. LowShare'
    BY <1>12, <1>a, <2>a, <2>2 DEF SrvAck, IInv, TypeOK, LowShare, uploader, sessionVars, wire, server, history
  <2>5. InOrder'
    BY <1>12, <2>2 DEF SrvAck, IInv, TypeOK, InOrder, InHand, uploader, sessionVars, wire, server, history
  <2> QED
    BY <2>1, <2>2, <2>3, <2>4, <2>5 DEF IInv
<1>13. CASE SrvAckBatch
  <2>1. TypeOK'
    BY <1>13 DEF SrvAckBatch, IInv, TypeOK, WindowPhase, uploader, sessionVars, wire, server, history
  <2>2. UNCHANGED <<low, net>>
    BY <1>13 DEF SrvAckBatch, uploader, sessionVars, wire, server, history
  <2>a. UNCHANGED <<QueuedChunks(low), ChunksAmong(net)>>
    BY <2>2
  <2>3. (WindowAccounting /\ WindowBound /\ WindowPhase /\ DropsLeaveAckCap)'
    BY <1>13, <1>a, <1>b, <1>c, <2>a DEF SrvAckBatch, WindowAccounting, Credit,
       WindowBound, WindowPhase, DropsLeaveAckCap, uploader, sessionVars, wire, server, history
  <2>4. LowShare'
    BY <1>13, <1>a, <2>a, <2>2 DEF SrvAckBatch, IInv, TypeOK, LowShare, uploader, sessionVars, wire, server, history
  <2>5. InOrder'
    BY <1>13, <2>2 DEF SrvAckBatch, IInv, TypeOK, InOrder, InHand, uploader, sessionVars, wire, server, history
  <2> QED
    BY <2>1, <2>2, <2>3, <2>4, <2>5 DEF IInv
<1>14. CASE SrvRefuse
  <2>1. TypeOK'
    BY <1>14 DEF SrvRefuse, IInv, TypeOK, WindowPhase, uploader, sessionVars, wire, server, history
  <2>2. UNCHANGED <<low, net>>
    BY <1>14 DEF SrvRefuse, uploader, sessionVars, wire, server, history
  <2>a. UNCHANGED <<QueuedChunks(low), ChunksAmong(net)>>
    BY <2>2
  <2>3. (WindowAccounting /\ WindowBound /\ WindowPhase /\ DropsLeaveAckCap)'
    BY <1>14, <1>a, <1>b, <1>c, <2>a DEF SrvRefuse, WindowAccounting, Credit,
       WindowBound, WindowPhase, DropsLeaveAckCap, uploader, sessionVars, wire, server, history
  <2>4. LowShare'
    BY <1>14, <1>a, <2>a, <2>2 DEF SrvRefuse, IInv, TypeOK, LowShare, uploader, sessionVars, wire, server, history
  <2>5. InOrder'
    BY <1>14, <2>2 DEF SrvRefuse, IInv, TypeOK, InOrder, InHand, uploader, sessionVars, wire, server, history
  <2> QED
    BY <2>1, <2>2, <2>3, <2>4, <2>5 DEF IInv
<1>15. CASE SendInit
  <2>1. CASE ~LowHasRoom
    <3>1. UNCHANGED <<low, net, QueuedChunks(low), ChunksAmong(net)>> /\ upc' = "failed"
      BY <1>15, <2>1 DEF SendInit
    <3>2. TypeOK'
      BY <1>15, <3>1 DEF SendInit, IInv, TypeOK, sessionVars, server, history
    <3>3. (WindowAccounting /\ WindowBound /\ WindowPhase /\ DropsLeaveAckCap)'
      BY <1>15, <1>c, <3>1 DEF SendInit, WindowAccounting, Credit, WindowBound,
         WindowPhase, DropsLeaveAckCap, sessionVars, server, history
    <3>4. LowShare'
      BY <1>15, <1>a, <3>1 DEF SendInit, IInv, TypeOK, LowShare
    <3>5. InOrder'
      BY <1>15, <3>1 DEF SendInit, IInv, InOrder, InHand
    <3> QED
      BY <3>1, <3>2, <3>3, <3>4, <3>5 DEF IInv
  <2>2. CASE LowHasRoom
    <3>1. /\ low' = Append(low, InitFrame) /\ upc' = "init" /\ upc = "idle"
          /\ UNCHANGED <<net, ChunksAmong(net)>>
      BY <1>15, <2>2 DEF SendInit
    <3>2. InitFrame \in Frame /\ InitFrame.kind = "init"
      BY DEF InitFrame, Frame
    <3>3. QueuedChunks(low') = QueuedChunks(low) /\ Len(low') = Len(low) + 1
      BY <3>1, <3>2, QueuedChunksAppend DEF IInv, TypeOK
    <3>4. TypeOK'
      BY <1>15, <3>1, <3>2 DEF SendInit, IInv, TypeOK, sessionVars, server, history
    <3>5. (WindowAccounting /\ WindowBound /\ WindowPhase /\ DropsLeaveAckCap)'
      BY <1>15, <1>c, <3>1, <3>3 DEF SendInit, WindowAccounting, Credit, WindowBound,
         WindowPhase, DropsLeaveAckCap, sessionVars, server, history
    <3>6. LowShare'
      BY <1>15, <1>a, <3>1, <3>3 DEF SendInit, IInv, TypeOK, LowShare
    <3>7. InOrder'
      BY <1>15, <3>1, <3>2 DEF SendInit, IInv, TypeOK, InOrder, InHand
    <3> QED
      BY <3>1, <3>4, <3>5, <3>6, <3>7 DEF IInv
  <2> QED
    BY <2>1, <2>2
<1>16. CASE EnqueueChunk
  <2>1. /\ low' = Append(low, ChunkFrame) /\ upc = "enqueue" /\ upc' = "bump"
        /\ UNCHANGED <<net, ChunksAmong(net), sentCount>>
    BY <1>16 DEF EnqueueChunk
  <2>2. ChunkFrame \in Frame /\ ChunkFrame.kind = "chunk" /\ ChunkFrame.pos = sentCount
    BY ParamAssumption DEF ChunkFrame, Frame, IInv, TypeOK
  <2>3. QueuedChunks(low') = QueuedChunks(low) + 1 /\ Len(low') = Len(low) + 1
    BY <2>1, <2>2, QueuedChunksAppend DEF IInv, TypeOK
  <2>4. TypeOK'
    BY <1>16, <2>1, <2>2 DEF EnqueueChunk, IInv, TypeOK, sessionVars, server, history
  <2>5. (WindowAccounting /\ WindowBound /\ WindowPhase /\ DropsLeaveAckCap)'
    <3>1. inFlight' = inFlight + 1 /\ UNCHANGED <<sessionVars, server, history>>
      BY <1>16 DEF EnqueueChunk
    <3>2. WindowAccounting'
      <4>1. /\ unacked' = unacked /\ acks' = acks /\ ackBuf' = ackBuf
            /\ lost' = lost /\ muted' = muted /\ dropped' = dropped
            /\ ChunksAmong(net') = ChunksAmong(net)
        BY <2>1, <3>1 DEF sessionVars, server, history
      <4> QED
        BY SMTT(60), <1>a, <1>b, <1>c, <2>3, <3>1, <4>1 DEF WindowAccounting, Credit
    <3>3. (WindowBound /\ WindowPhase)'
      BY <1>b, <1>c, <2>1, <3>1 DEF WindowBound, WindowPhase
    <3>4. DropsLeaveAckCap'
      BY <1>c, <3>1 DEF DropsLeaveAckCap, history
    <3> QED
      BY <3>2, <3>3, <3>4
  <2>6. LowShare'
    BY <1>16, <1>a, <2>1, <2>3 DEF EnqueueChunk, IInv, TypeOK, LowShare
  <2>7. InOrder'
    <3>1. \A i \in 1..Len(low) : low[i].kind = "chunk" => low[i].pos < sentCount
      BY <2>1 DEF IInv, InOrder, InHand
    <3>2. \A f \in net : f.kind = "chunk" => f.pos < sentCount
      BY <2>1 DEF IInv, InOrder, InHand
    <3>3. /\ \A i \in 1..Len(low) : low'[i] = low[i]
          /\ low'[Len(low) + 1] = ChunkFrame
          /\ \A i \in 1..Len(low') : i \in 1..Len(low) \/ i = Len(low) + 1
          /\ Len(low) \in Nat
      BY <2>1, <2>3 DEF IInv, TypeOK
    <3>4. sentCount \in Nat
      BY DEF IInv, TypeOK
    <3>5. \A i, j \in 1..Len(low') :
             i < j /\ low'[i].kind = "chunk" /\ low'[j].kind = "chunk"
               => low'[i].pos < low'[j].pos
      BY <3>1, <3>3, <2>2 DEF IInv, InOrder
    <3>6. \A f \in net : \A i \in 1..Len(low') :
             f.kind = "chunk" /\ low'[i].kind = "chunk" => f.pos < low'[i].pos
      BY <3>2, <3>3, <2>2 DEF IInv, InOrder
    <3>7. \A i \in 1..Len(low') : low'[i].kind = "chunk" => low'[i].pos <= sentCount
      BY <1>d, <3>1, <3>3, <3>4, <2>2
    <3>8. \A f \in net : f.kind = "chunk" => f.pos <= sentCount
      BY <1>d, <3>2, <3>4
    <3>9. ~InHand'
      BY <2>1 DEF InHand
    <3> QED
      BY <2>1, <3>5, <3>6, <3>7, <3>8, <3>9 DEF InOrder
  <2> QED
    BY <2>1, <2>4, <2>5, <2>6, <2>7 DEF IInv
<1>17. CASE SendEnd
  <2>1. CASE ~LowHasRoom
    <3>1. UNCHANGED <<low, net, QueuedChunks(low), ChunksAmong(net)>> /\ upc' = "cleanup"
      BY <1>17, <2>1 DEF SendEnd
    <3>2. TypeOK'
      BY <1>17, <3>1 DEF SendEnd, IInv, TypeOK, sessionVars, server, history
    <3>3. (WindowAccounting /\ WindowBound /\ WindowPhase /\ DropsLeaveAckCap)'
      BY <1>17, <1>c, <3>1 DEF SendEnd, WindowAccounting, Credit, WindowBound,
         WindowPhase, DropsLeaveAckCap, sessionVars, server, history
    <3>4. LowShare'
      BY <1>17, <1>a, <3>1 DEF SendEnd, IInv, TypeOK, LowShare
    <3>5. InOrder'
      BY <1>17, <3>1 DEF SendEnd, IInv, InOrder, InHand
    <3> QED
      BY <3>1, <3>2, <3>3, <3>4, <3>5 DEF IInv
  <2>2. CASE LowHasRoom
    <3>1. /\ low' = Append(low, EndFrame) /\ upc' = "cleanup" /\ upc = "end"
          /\ UNCHANGED <<net, ChunksAmong(net)>>
      BY <1>17, <2>2 DEF SendEnd
    <3>2. EndFrame \in Frame /\ EndFrame.kind = "end"
      BY ParamAssumption DEF EndFrame, Frame, IInv, TypeOK
    <3>3. QueuedChunks(low') = QueuedChunks(low) /\ Len(low') = Len(low) + 1
      BY <3>1, <3>2, QueuedChunksAppend DEF IInv, TypeOK
    <3>4. TypeOK'
      BY <1>17, <3>1, <3>2 DEF SendEnd, IInv, TypeOK, sessionVars, server, history
    <3>5. (WindowAccounting /\ WindowBound /\ WindowPhase /\ DropsLeaveAckCap)'
      BY <1>17, <1>c, <3>1, <3>3 DEF SendEnd, WindowAccounting, Credit, WindowBound,
         WindowPhase, DropsLeaveAckCap, sessionVars, server, history
    <3>6. LowShare'
      BY <1>17, <1>a, <3>1, <3>3 DEF SendEnd, IInv, TypeOK, LowShare
    <3>7. InOrder'
      BY <1>17, <3>1, <3>2 DEF SendEnd, IInv, TypeOK, InOrder, InHand
    <3> QED
      BY <3>1, <3>4, <3>5, <3>6, <3>7 DEF IInv
  <2> QED
    BY <2>1, <2>2
<1>18. CASE OtherTraffic
  <2>1. low' = Append(low, OtherFrame) /\ UNCHANGED <<net, ChunksAmong(net), upc>>
    BY <1>18 DEF OtherTraffic, uploader
  <2>2. OtherFrame \in Frame /\ OtherFrame.kind = "other"
    BY ParamAssumption DEF OtherFrame, Frame
  <2>3. QueuedChunks(low') = QueuedChunks(low) /\ Len(low') = Len(low) + 1
    BY <2>1, <2>2, QueuedChunksAppend DEF IInv, TypeOK
  <2>4. TypeOK'
    BY <1>18, <2>1, <2>2 DEF OtherTraffic, IInv, TypeOK, uploader, sessionVars, server, history
  <2>5. (WindowAccounting /\ WindowBound /\ WindowPhase /\ DropsLeaveAckCap)'
    BY <1>18, <1>c, <2>1, <2>3 DEF OtherTraffic, WindowAccounting, Credit, WindowBound,
       WindowPhase, DropsLeaveAckCap, uploader, sessionVars, server, history
  <2>6. LowShare'
    BY <1>18, <1>a, <2>1, <2>3 DEF OtherTraffic, IInv, TypeOK, LowShare
  <2>7. InOrder'
    BY SMTT(30), <1>18, <2>1, <2>2 DEF OtherTraffic, IInv, TypeOK, InOrder, InHand, uploader
  <2> QED
    BY <2>1, <2>4, <2>5, <2>6, <2>7 DEF IInv
<1>19. ASSUME low # <<>>, low' = Tail(low)
      PROVE  /\ Len(low') = Len(low) - 1
             /\ Head(low) \in Frame
             /\ \A i \in 1..Len(low') : i + 1 \in 1..Len(low) /\ low'[i] = low[i + 1]
             /\ low' \in Seq(Frame) /\ QueuedChunks(low') \in Nat
             /\ QueuedChunks(low) = IF Head(low).kind = "chunk"
                                     THEN QueuedChunks(low') + 1 ELSE QueuedChunks(low')
             /\ others' = others /\ upc' = upc => LowShare'
  <2>1. low \in Seq(Frame)
    BY DEF IInv, TypeOK
  <2>2. /\ Len(low') = Len(low) - 1 /\ Head(low) \in Frame
        /\ \A i \in 1..Len(low') : i + 1 \in 1..Len(low) /\ low'[i] = low[i + 1]
        /\ low' \in Seq(Frame)
    BY <1>19, <2>1
  <2>3. QueuedChunks(low') \in Nat
    BY <2>2, QueuedChunksType
  <2>4. QueuedChunks(low) = IF Head(low).kind = "chunk"
                            THEN QueuedChunks(low') + 1 ELSE QueuedChunks(low')
    BY <1>19, <2>1, QueuedChunksTail
  <2>5. others' = others /\ upc' = upc => LowShare'
    <3>1. Len(low) \in Nat /\ others \in Nat
      BY <2>1 DEF IInv, TypeOK
    <3> QED
      BY <2>2, <2>3, <2>4, <3>1 DEF IInv, LowShare
  <2> QED
    BY <2>2, <2>3, <2>4, <2>5
<1>20. CASE SendLoop
  <2> DEFINE h == Head(low)
  <2>1. /\ low # <<>> /\ low' = Tail(low) /\ upc' = upc /\ others' = others
        /\ sentCount' = sentCount /\ inFlight' = inFlight
        /\ net' = IF h.kind = "other" THEN net ELSE net \cup {h}
    BY <1>20 DEF SendLoop, uploader
  <2>2. /\ Len(low') = Len(low) - 1 /\ h \in Frame
        /\ \A i \in 1..Len(low') : i + 1 \in 1..Len(low) /\ low'[i] = low[i + 1]
        /\ low' \in Seq(Frame) /\ QueuedChunks(low') \in Nat /\ LowShare'
        /\ QueuedChunks(low) = IF h.kind = "chunk"
                                THEN QueuedChunks(low') + 1 ELSE QueuedChunks(low')
    BY <1>19, <2>1
  <2>3. h = low[1] /\ 1 \in 1..Len(low) /\ Len(low) \in Nat
    BY <2>1 DEF IInv, TypeOK
  <2>4. h.kind = "chunk" => h \notin net
    BY <1>d, <2>3 DEF IInv, InOrder
  <2>5. ChunksAmong(net') = IF h.kind = "chunk" THEN ChunksAmong(net) + 1
                                                ELSE ChunksAmong(net)
    BY <2>1, <2>4, ChunksAmongAdd DEF IInv
  <2>6. TypeOK' /\ IsFiniteSet(net')
    <3>1. net' \in SUBSET Frame /\ IsFiniteSet(net')
      BY <2>1, <2>2, FS_AddElement DEF IInv, TypeOK
    <3> QED
      BY <1>20, <2>2, <3>1 DEF SendLoop, IInv, TypeOK, uploader, sessionVars, server, history
  <2>7. (WindowAccounting /\ WindowBound /\ WindowPhase /\ DropsLeaveAckCap)'
    <3>1. Credit' = Credit
      BY <1>20, <1>a, <1>b, <2>2, <2>5 DEF SendLoop, Credit, sessionVars, server
    <3> QED
      BY <1>20, <1>c, <3>1 DEF SendLoop, WindowAccounting, WindowBound, WindowPhase,
         DropsLeaveAckCap, uploader, sessionVars, history
  <2>8. InOrder'
    <3>1. \A i \in 1..Len(low') : i + 1 \in 1..Len(low) /\ 1 < i + 1
      BY <2>2
    <3>2. \A i, j \in 1..Len(low') :
             i < j /\ low'[i].kind = "chunk" /\ low'[j].kind = "chunk"
               => low'[i].pos < low'[j].pos
      BY SMTT(30), <2>2 DEF IInv, InOrder
    <3>3. \A i \in 1..Len(low') : h.kind = "chunk" /\ low'[i].kind = "chunk"
                                    => h.pos < low'[i].pos
      BY <2>2, <2>3, <3>1 DEF IInv, InOrder
    <3>4. \A f \in net : \A i \in 1..Len(low') :
             f.kind = "chunk" /\ low'[i].kind = "chunk" => f.pos < low'[i].pos
      BY <2>2 DEF IInv, InOrder
    <3>5. \A f \in net' : f \in net \/ f = h
      BY <2>1
    <3>6. \A f \in net' : \A i \in 1..Len(low') :
             f.kind = "chunk" /\ low'[i].kind = "chunk" => f.pos < low'[i].pos
      BY <3>3, <3>4, <3>5
    <3>7. InHand' = InHand
      BY <2>1 DEF InHand
    <3>8. \A i \in 1..Len(low') : low'[i].kind = "chunk" =>
             low'[i].pos <= sentCount /\ (InHand => low'[i].pos < sentCount)
      BY <2>2 DEF IInv, InOrder
    <3>9. \A f \in net' : f.kind = "chunk" =>
             f.pos <= sentCount /\ (InHand => f.pos < sentCount)
      BY <2>3, <3>5 DEF IInv, InOrder
    <3> QED
      BY <2>1, <3>2, <3>6, <3>7, <3>8, <3>9 DEF InOrder
  <2> QED
    BY <2>2, <2>6, <2>7, <2>8 DEF IInv
<1>21. CASE SendFails
  <2> DEFINE h == Head(low)
  <2>1. /\ low # <<>> /\ low' = Tail(low)
        /\ UNCHANGED <<uploader, sessionVars, net, ChunksAmong(net), others, closed,
                       server, muted, dropped>>
        /\ lost' = IF h.kind = "chunk" THEN lost + 1 ELSE lost
    BY <1>21 DEF SendFails
  <2>2. /\ \A i \in 1..Len(low') : i + 1 \in 1..Len(low) /\ low'[i] = low[i + 1]
        /\ low' \in Seq(Frame) /\ QueuedChunks(low') \in Nat /\ LowShare'
        /\ QueuedChunks(low) = IF h.kind = "chunk"
                                THEN QueuedChunks(low') + 1 ELSE QueuedChunks(low')
    BY <1>19, <2>1 DEF uploader
  <2>3. TypeOK'
    <3>1. lost' \in Nat
      BY <1>b, <2>1
    <3> QED
      BY <2>1, <2>2, <3>1 DEF IInv, TypeOK, uploader, sessionVars, server
  <2>4. (WindowAccounting /\ WindowBound /\ WindowPhase /\ DropsLeaveAckCap)'
    <3>1. /\ unacked' = unacked /\ acks' = acks /\ ackBuf' = ackBuf
          /\ ChunksAmong(net') = ChunksAmong(net)
      BY <2>1 DEF sessionVars, server
    <3>2. /\ QueuedChunks(low') \in Nat /\ lost' \in Nat
          /\ QueuedChunks(low) + lost = QueuedChunks(low') + lost'
      <4>1. /\ QueuedChunks(low') \in Nat
            /\ QueuedChunks(low) = IF h.kind = "chunk"
                                   THEN QueuedChunks(low') + 1 ELSE QueuedChunks(low')
        BY <2>2
      <4>2. lost' = IF h.kind = "chunk" THEN lost + 1 ELSE lost
        BY <2>1
      <4> QED
        BY <1>b, <4>1, <4>2
    <3>3. Credit' + lost' = Credit + lost /\ Credit \in Nat /\ Credit' \in Nat
      BY SMTT(60), <1>a, <1>b, <3>1, <3>2 DEF Credit
    <3> QED
      BY <1>b, <1>c, <2>1, <3>2, <3>3 DEF WindowAccounting, WindowBound, WindowPhase,
         DropsLeaveAckCap, uploader, sessionVars
  <2>5. InOrder'
    <3>1. \A i, j \in 1..Len(low') :
             i < j /\ low'[i].kind = "chunk" /\ low'[j].kind = "chunk"
               => low'[i].pos < low'[j].pos
      <4>1. \A i, j \in 1..Len(low') : i < j => i + 1 < j + 1
        OBVIOUS
      <4> QED
        BY <2>2, <4>1 DEF IInv, InOrder
    <3> QED
      BY <2>1, <2>2, <3>1 DEF IInv, InOrder, InHand, uploader
  <2> QED
    BY <2>1, <2>2, <2>3, <2>4, <2>5 DEF IInv
<1>22. ASSUME NEW f \in net, net' = net \ {f}
      PROVE  /\ net' \in SUBSET Frame /\ IsFiniteSet(net') /\ ChunksAmong(net') \in Nat
             /\ ChunksAmong(net) = IF f.kind = "chunk" THEN ChunksAmong(net') + 1
                                                        ELSE ChunksAmong(net')
  <2>1. net' \in SUBSET Frame /\ IsFiniteSet(net')
    BY <1>22, FS_RemoveElement DEF IInv, TypeOK
  <2> QED
    BY <1>22, <2>1, ChunksAmongType, ChunksAmongRemove DEF IInv
<1>23. ASSUME net' \subseteq net, UNCHANGED <<uploader, low, others>>
      PROVE  LowShare' /\ InOrder'
  BY <1>23 DEF IInv, LowShare, InOrder, InHand, uploader
<1>24. CASE Lose
  <2>1. PICK f \in net : /\ net' = net \ {f}
                         /\ lost' = IF f.kind = "chunk" THEN lost + 1 ELSE lost
    BY <1>24 DEF Lose
  <2>2. UNCHANGED <<uploader, sessionVars, low, QueuedChunks(low), others, closed,
                    server, muted, dropped>>
    BY <1>24 DEF Lose
  <2>3. TypeOK' /\ IsFiniteSet(net')
    <3>1. lost' \in Nat
      BY <1>b, <2>1
    <3> QED
      BY <1>22, <2>1, <2>2, <3>1 DEF IInv, TypeOK, uploader, sessionVars, server
  <2>4. (WindowAccounting /\ WindowBound /\ WindowPhase /\ DropsLeaveAckCap)'
    <3>1. /\ unacked' = unacked /\ acks' = acks /\ ackBuf' = ackBuf
          /\ QueuedChunks(low') = QueuedChunks(low)
      BY <2>2 DEF sessionVars, server
    <3>2. Credit' + lost' = Credit + lost /\ Credit \in Nat /\ Credit' \in Nat /\ lost' \in Nat
      <4>1. /\ ChunksAmong(net') \in Nat
            /\ ChunksAmong(net) + lost = ChunksAmong(net') + lost'
            /\ lost' \in Nat
        <5>1. /\ ChunksAmong(net') \in Nat
              /\ ChunksAmong(net) = IF f.kind = "chunk" THEN ChunksAmong(net') + 1
                                                        ELSE ChunksAmong(net')
          BY <1>22, <2>1
        <5>2. lost' = IF f.kind = "chunk" THEN lost + 1 ELSE lost
          BY <2>1
        <5> QED
          BY <1>b, <5>1, <5>2
      <4> QED
        BY SMTT(60), <1>a, <1>b, <3>1, <4>1 DEF Credit
    <3> QED
      BY <1>b, <1>c, <2>2, <3>2 DEF WindowAccounting, WindowBound, WindowPhase,
         DropsLeaveAckCap, uploader, sessionVars
  <2> QED
    BY <1>23, <2>1, <2>2, <2>3, <2>4 DEF IInv
<1>25. CASE SrvReceive
  <2>1. PICK f \in net :
           /\ net' = net \ {f}
           /\ \/ /\ f.kind = "init"
                 /\ initAck' \in {"ready", "rejected"}
                 /\ resumeFrom' \in ResumePoints \cup {resumeFrom}
                 /\ UNCHANGED <<srvGot, srvTotal, unacked>>
              \/ /\ f.kind = "chunk"
                 /\ srvGot' = Append(srvGot, [pos |-> f.pos, idx |-> f.idx])
                 /\ unacked' = unacked + 1
                 /\ UNCHANGED <<srvTotal, initAck, resumeFrom>>
              \/ /\ f.kind = "end"
                 /\ srvTotal' = srvTotal \cup {f.idx}
                 /\ UNCHANGED <<srvGot, unacked, initAck, resumeFrom>>
    BY <1>25 DEF SrvReceive
  <2>2. UNCHANGED <<uploader, sessionVars, low, QueuedChunks(low), others, closed,
                    acks, history>>
    BY <1>25 DEF SrvReceive
  <2>3. f \in Frame /\ f.pos \in Nat /\ f.idx \in Nat
    BY <1>d DEF IInv, TypeOK, Frame
  <2>4. TypeOK' /\ IsFiniteSet(net')
    <3>1. srvGot' \in Seq([pos : Nat, idx : Nat])
      <4>1. srvGot \in Seq([pos : Nat, idx : Nat])
        BY DEF IInv, TypeOK
      <4>2. [pos |-> f.pos, idx |-> f.idx] \in [pos : Nat, idx : Nat]
        BY <2>3
      <4> QED
        <5>1. srvGot' \in {srvGot, Append(srvGot, [pos |-> f.pos, idx |-> f.idx])}
          BY <2>1
        <5>2. Append(srvGot, [pos |-> f.pos, idx |-> f.idx]) \in Seq([pos : Nat, idx : Nat])
          BY <4>1, <4>2
        <5> QED
          BY <4>1, <5>1, <5>2
    <3>2. srvTotal' \in SUBSET Nat
      BY <2>1, <2>3 DEF IInv, TypeOK
    <3>3. unacked' \in Nat
      BY <1>b, <2>1
    <3>4. resumeFrom' \in Nat
      BY <2>1, ParamAssumption DEF IInv, TypeOK
    <3>5. initAck' \in {"none", "ready", "rejected", "handled"}
      BY <2>1 DEF IInv, TypeOK
    <3> QED
      BY <1>22, <2>1, <2>2, <3>1, <3>2, <3>3, <3>4, <3>5 DEF IInv, TypeOK, uploader,
         sessionVars, history
  <2>5. (WindowAccounting /\ WindowBound /\ WindowPhase /\ DropsLeaveAckCap)'
    <3>1. Credit' = Credit
      <4>1. acks' = acks /\ ackBuf' = ackBuf /\ QueuedChunks(low') = QueuedChunks(low)
        BY <2>2 DEF sessionVars
      <4>2. unacked' = IF f.kind = "chunk" THEN unacked + 1 ELSE unacked
        BY <2>1
      <4>3. /\ ChunksAmong(net') \in Nat /\ unacked' \in Nat
            /\ ChunksAmong(net) + unacked = ChunksAmong(net') + unacked'
        <5>1. net' = net \ {f}
          BY <2>1
        <5>2. /\ ChunksAmong(net') \in Nat
              /\ ChunksAmong(net) = IF f.kind = "chunk" THEN ChunksAmong(net') + 1
                                                        ELSE ChunksAmong(net')
          BY <1>22, <5>1
        <5> QED
          BY <1>b, <4>2, <5>2
      <4> QED
        BY SMTT(60), <1>a, <1>b, <4>1, <4>3 DEF Credit
    <3> QED
      BY <1>c, <2>2, <3>1 DEF WindowAccounting, WindowBound, WindowPhase,
         DropsLeaveAckCap, uploader, sessionVars, history
  <2> QED
    BY <1>23, <2>1, <2>2, <2>4, <2>5 DEF IInv
<1>26. CASE UNCHANGED vars
  <2>1. UNCHANGED <<uploader, sessionVars, low, QueuedChunks(low), net, ChunksAmong(net),
                    others, closed, server, history>>
    BY <1>26 DEF vars, wire
  <2>2. TypeOK'
    BY <2>1 DEF IInv, TypeOK, uploader, sessionVars, server, history
  <2>3. (WindowAccounting /\ WindowBound /\ WindowPhase /\ DropsLeaveAckCap)'
    BY <1>c, <2>1 DEF WindowAccounting, Credit, WindowBound, WindowPhase,
       DropsLeaveAckCap, uploader, sessionVars, server, history
  <2> QED
    BY <1>23, <2>1, <2>2, <2>3 DEF IInv
<1> QED
  BY <1>1, <1>2, <1>3, <1>4, <1>5, <1>6, <1>7, <1>8, <1>9, <1>10, <1>11, <1>12, <1>13,
     <1>14, <1>15, <1>16, <1>17, <1>18, <1>20, <1>21, <1>24, <1>25, <1>26, <1>27
  DEF Next, Upload, Client, Environment

-----------------------------------------------------------------------------
(* The theorems. *)

(* Every behaviour of the upload, whatever the network and the server do,   *)
(* stays within the inductive invariant.                                    *)
THEOREM InvariantHolds == Spec => []IInv
BY InitIInv, NextIInv, PTL DEF Spec

(* Every variable keeps its type. *)
THEOREM TypeCorrect == Spec => []TypeOK
<1>1. IInv => TypeOK
  BY DEF IInv
<1> QED
  BY <1>1, InvariantHolds, PTL

(* The uploader's inFlight accounts for every chunk: what may still bring a *)
(* token plus what never will (SendVirtualStream, handleSystemFrames).      *)
THEOREM AccountingHolds == Spec => []WindowAccounting
<1>1. IInv => WindowAccounting
  BY DEF IInv
<1> QED
  BY <1>1, InvariantHolds, PTL

(* The uploader never has more chunks unacknowledged than its window.       *)
THEOREM WindowHolds == Spec => []WindowBound
<1>1. IInv => WindowBound
  BY DEF IInv
<1> QED
  BY <1>1, InvariantHolds, PTL

(* However small ackChan is against the window, the tokens it drops leave   *)
(* at least AckCap chunks of the window usable.                             *)
THEOREM DropsAreBounded == Spec => []DropsLeaveAckCap
<1>1. IInv => DropsLeaveAckCap
  BY DEF IInv
<1> QED
  BY <1>1, InvariantHolds, PTL

(* An uploader waits for an ack only if one is on its way, or the network   *)
(* or the server took one away.                                             *)
THEOREM NeverWaitsForNothing == Spec => []WaitsForSomething
<1>1. IInv => WaitsForSomething
  <2> SUFFICES ASSUME IInv, upc = "await", lost + muted = 0 PROVE Credit > 0
    BY DEF WaitsForSomething
  <2>1. Credit \in Nat
    <3>1. QueuedChunks(low) \in Nat /\ ChunksAmong(net) \in Nat
      BY QueuedChunksType, ChunksAmongType DEF IInv, TypeOK
    <3>2. unacked \in Nat /\ acks \in Nat /\ ackBuf \in Nat
      BY DEF IInv, TypeOK
    <3> QED
      BY <3>1, <3>2 DEF Credit
  <2>2. inFlight = Window /\ inFlight = Credit + dropped /\ dropped \in Nat
    BY <2>1, ParamAssumption DEF IInv, TypeOK, WindowBound, WindowPhase, WindowAccounting
  <2> QED
    BY <2>1, <2>2, ParamAssumption DEF IInv, DropsLeaveAckCap
<1> QED
  BY <1>1, InvariantHolds, PTL

(* When lowCh is large enough for the window and the other traffic, the     *)
(* non-blocking send of VirtualStreamEnd never finds it full.               *)
THEOREM EndAlwaysFits == Spec => []RoomForEnd
<1>1. IInv => RoomForEnd
  <2> SUFFICES ASSUME IInv, LowCap >= Window + MaxOther + 2, upc = "end"
               PROVE  Len(low) < LowCap
    BY DEF RoomForEnd, LowHasRoom
  <2>1. low \in Seq(Frame)
    BY DEF IInv, TypeOK
  <2>2. QueuedChunks(low) \in Nat /\ ChunksAmong(net) \in Nat /\ Len(low) \in Nat
    <3>1. Len(low) \in Nat
      BY <2>1
    <3>2. QueuedChunks(low) \in Nat
      BY <2>1, QueuedChunksType
    <3>3. ChunksAmong(net) \in Nat
      BY ChunksAmongType DEF IInv
    <3> QED
      BY <3>1, <3>2, <3>3
  <2>3. QueuedChunks(low) <= Window
    <3>1. /\ inFlight <= Window /\ inFlight = Credit + lost + muted + dropped
          /\ Credit = QueuedChunks(low) + ChunksAmong(net) + unacked + acks + ackBuf
      BY DEF IInv, WindowAccounting, WindowBound, Credit
    <3>2. /\ unacked \in Nat /\ acks \in Nat /\ lost \in Nat /\ muted \in Nat
          /\ dropped \in Nat /\ inFlight \in Nat
      BY DEF IInv, TypeOK
    <3>3. ackBuf \in Nat /\ Window \in Nat
      BY ParamAssumption DEF IInv, TypeOK
    <3>4. ASSUME NEW q \in Nat, NEW c \in Nat, NEW u \in Nat, NEW k \in Nat, NEW b \in Nat
          PROVE  q + c + u + k + b \in Nat /\ q <= q + c + u + k + b
      OBVIOUS
    <3>5. Credit \in Nat /\ QueuedChunks(low) <= Credit
      BY <2>2, <3>1, <3>2, <3>3, <3>4
    <3>6. Credit <= inFlight
      BY <3>1, <3>2, <3>5
    <3> QED
      BY <2>2, <3>1, <3>2, <3>3, <3>5, <3>6
  <2>4. Len(low) <= QueuedChunks(low) + others + 1 /\ others <= MaxOther /\ others \in Nat
    BY <2>2, ParamAssumption DEF IInv, TypeOK, LowShare
  <2> QED
    BY <2>2, <2>3, <2>4, ParamAssumption
<1> QED
  BY <1>1, InvariantHolds, PTL

-----------------------------------------------------------------------------
(* The index stamped on a chunk. *)

Stamped(f) == f.kind = "chunk" => f.idx + 1 = f.pos

(* currentIdx follows sentCount, one behind it while a chunk is in hand.    *)
Stamps ==
    /\ resumeFrom = 0
    /\ \A i \in 1..Len(low) : Stamped(low[i])
    /\ \A f \in net : Stamped(f)
    /\ \A i \in DOMAIN srvGot : srvGot[i].idx + 1 = srvGot[i].pos
    /\ upc \in {"idle", "init"} => sentCount = 0
    /\ upc = "read" => currentIdx = sentCount
    /\ InHand => index + 1 = sentCount /\ currentIdx = index
    /\ upc = "bump" => loaded + 1 = sentCount

LEMMA InitStamps == Init => Stamps
BY DEF Init, Stamps, InHand

(* A frame more on lowCh. *)
LEMMA AppendStamps ==
    ASSUME NEW q \in Seq(Frame), \A i \in 1..Len(q) : Stamped(q[i]), NEW f \in Frame, Stamped(f)
    PROVE  \A i \in 1..Len(Append(q, f)) : Stamped(Append(q, f)[i])
<1>1. /\ Len(Append(q, f)) = Len(q) + 1 /\ Len(q) \in Nat
      /\ \A i \in 1..Len(q) : Append(q, f)[i] = q[i]
      /\ Append(q, f)[Len(q) + 1] = f
  OBVIOUS
<1>2. ASSUME NEW i \in 1..(Len(q) + 1) PROVE Stamped(Append(q, f)[i])
  <2>1. CASE i \in 1..Len(q)
    BY <1>1, <2>1
  <2>2. CASE i = Len(q) + 1
    BY <1>1, <2>2
  <2> QED
    BY <1>1, <2>1, <2>2
<1> QED
  BY <1>1, <1>2

(* Its head, and what remains without it. *)
LEMMA TailStamps ==
    ASSUME NEW q \in Seq(Frame), q # <<>>, \A i \in 1..Len(q) : Stamped(q[i])
    PROVE  Stamped(Head(q)) /\ \A i \in 1..Len(Tail(q)) : Stamped(Tail(q)[i])
<1>1. /\ Len(q) \in Nat \ {0} /\ Len(Tail(q)) = Len(q) - 1 /\ Head(q) = q[1]
      /\ \A i \in 1..(Len(q) - 1) : Tail(q)[i] = q[i + 1]
  OBVIOUS
<1>2. \A i \in 1..(Len(q) - 1) : i + 1 \in 1..Len(q)
  BY <1>1
<1> QED
  BY <1>1, <1>2

LEMMA NextStamps ==
    ResumePoints = {0} /\ IInv /\ Stamps /\ [Next]_vars => Stamps'
<1> SUFFICES ASSUME ResumePoints = {0}, IInv, Stamps, [Next]_vars PROVE Stamps'
  OBVIOUS
<1> USE DEF uploader, sessionVars, wire, server, history
<1>a. /\ low \in Seq(Frame) /\ index \in Nat /\ sentCount \in Nat /\ currentIdx \in Nat
      /\ loaded \in Nat /\ srvGot \in Seq([pos : Nat, idx : Nat])
  BY ParamAssumption DEF IInv, TypeOK
(* Steps of the uploader that leave the queue alone. *)
<1>1. CASE RegisterSession
  BY <1>1 DEF RegisterSession, Stamps, InHand
<1>2. CASE ReadChunk
  BY <1>a, <1>2 DEF ReadChunk, Stamps, InHand
<1>3. CASE RegisterFails \/ ReadNothing \/ CheckWindow \/ TakeAck \/ AckTimeout \/ Finish
  BY <1>3 DEF RegisterFails, ReadNothing, CheckWindow, TakeAck, AckTimeout, Finish, Stamps, InHand
<1>4. CASE BumpIndex
  BY <1>a, <1>4 DEF BumpIndex, Stamps, InHand
(* Steps that enqueue. *)
<1>5. ASSUME NEW f \in Frame, Stamped(f), low' = Append(low, f)
      PROVE  \A i \in 1..Len(low') : Stamped(low'[i])
  BY <1>a, <1>5, AppendStamps DEF Stamps
<1>6. CASE SendInit
  <2>1. InitFrame \in Frame /\ Stamped(InitFrame)
    BY ParamAssumption DEF InitFrame, Frame, Stamped
  <2>2. \A i \in 1..Len(low') : Stamped(low'[i])
    BY <1>5, <1>6, <2>1 DEF SendInit, Stamps
  <2> QED
    BY <1>6, <2>2 DEF SendInit, Stamps, InHand
<1>7. CASE EnqueueChunk
  <2>1. /\ index + 1 = sentCount /\ currentIdx = index /\ loaded' = currentIdx
        /\ upc' = "bump" /\ low' = Append(low, ChunkFrame)
        /\ UNCHANGED <<sentCount, index, currentIdx, resumeFrom, net, srvGot>>
    BY <1>7 DEF EnqueueChunk, Stamps, InHand
  <2>2. ChunkFrame \in Frame /\ Stamped(ChunkFrame)
    <3>1. sentCount \in 0..(Chunks + 1)
      BY <1>a, ParamAssumption DEF IInv, TypeOK
    <3> QED
      BY <1>a, <2>1, <3>1 DEF ChunkFrame, Frame, Stamped
  <2>3. \A i \in 1..Len(low') : Stamped(low'[i])
    BY <1>5, <2>1, <2>2
  <2> QED
    BY <2>1, <2>3 DEF Stamps, InHand
<1>8. CASE SendEnd
  <2>1. EndFrame \in Frame /\ Stamped(EndFrame)
    <3>1. sentCount + 1 \in 0..(Chunks + 1)
      BY <1>a, ParamAssumption DEF IInv, TypeOK
    <3> QED
      BY <1>a, <3>1 DEF EndFrame, Frame, Stamped
  <2>2. \A i \in 1..Len(low') : Stamped(low'[i])
    BY <1>5, <1>8, <2>1 DEF SendEnd, Stamps
  <2> QED
    BY <1>8, <2>2 DEF SendEnd, Stamps, InHand
<1>9. CASE OtherTraffic
  <2>1. OtherFrame \in Frame /\ Stamped(OtherFrame)
    BY ParamAssumption DEF OtherFrame, Frame, Stamped
  <2>2. \A i \in 1..Len(low') : Stamped(low'[i])
    BY <1>5, <1>9, <2>1 DEF OtherTraffic
  <2> QED
    BY <1>9, <2>2 DEF OtherTraffic, Stamps, InHand
(* Steps that dequeue or lose. *)
<1>10. CASE SendLoop
  <2>1. Stamped(Head(low)) /\ \A i \in 1..Len(Tail(low)) : Stamped(Tail(low)[i])
    BY <1>a, <1>10, TailStamps DEF SendLoop, Stamps
  <2>2. low' = Tail(low) /\ \A f \in net' : f \in net \/ f = Head(low)
    BY <1>10 DEF SendLoop
  <2>3. UNCHANGED <<uploader, sessionVars, server>>
    BY <1>10 DEF SendLoop
  <2> QED
    BY <2>1, <2>2, <2>3 DEF Stamps, InHand
<1>11. CASE SendFails
  <2>1. \A i \in 1..Len(Tail(low)) : Stamped(Tail(low)[i])
    BY <1>a, <1>11, TailStamps DEF SendFails, Stamps
  <2> QED
    BY <1>11, <2>1 DEF SendFails, Stamps, InHand
<1>12. CASE Lose
  <2>1. net' \subseteq net /\ UNCHANGED <<uploader, sessionVars, low, server>>
    BY <1>12 DEF Lose
  <2> QED
    BY <2>1 DEF Stamps, InHand
(* The acknowledgments and the server. *)
<1>13. CASE HandleInitAck
  <2>1. UNCHANGED <<uploader, currentIdx, low, net, srvGot, resumeFrom>>
    BY <1>13 DEF HandleInitAck, Stamps
  <2> QED
    BY <2>1 DEF Stamps, InHand
<1>14. CASE HandleAck \/ Close \/ SrvAck \/ SrvAckBatch \/ SrvRefuse \/ UNCHANGED vars
  <2>1. UNCHANGED <<uploader, currentIdx, low, net, srvGot, resumeFrom>>
    BY <1>14 DEF HandleAck, Close, SrvAck, SrvAckBatch, SrvRefuse, vars
  <2> QED
    BY <2>1 DEF Stamps, InHand
<1>15. CASE SrvReceive
  <2>1. PICK f \in net :
           /\ net' = net \ {f} /\ resumeFrom' \in {resumeFrom} \cup ResumePoints
           /\ srvGot' = srvGot \/ (f.kind = "chunk"
                                    /\ srvGot' = Append(srvGot, [pos |-> f.pos, idx |-> f.idx]))
    BY <1>15 DEF SrvReceive
  <2>2. UNCHANGED <<uploader, sessionVars, low>>
    BY <1>15 DEF SrvReceive
  <2>3. \A i \in DOMAIN srvGot' : srvGot'[i].idx + 1 = srvGot'[i].pos
    <3>1. CASE srvGot' = srvGot
      BY <3>1 DEF Stamps
    <3>2. CASE f.kind = "chunk" /\ srvGot' = Append(srvGot, [pos |-> f.pos, idx |-> f.idx])
      <4> DEFINE r == [pos |-> f.pos, idx |-> f.idx]
      <4>1. f.idx + 1 = f.pos /\ r \in [pos : Nat, idx : Nat] /\ r.pos = f.pos /\ r.idx = f.idx
        BY <3>2 DEF Stamps, Stamped, IInv, TypeOK, Frame
      <4> HIDE DEF r
      <4>2. /\ DOMAIN Append(srvGot, r) = 1..(Len(srvGot) + 1) /\ DOMAIN srvGot = 1..Len(srvGot)
            /\ \A i \in 1..Len(srvGot) : Append(srvGot, r)[i] = srvGot[i]
            /\ Append(srvGot, r)[Len(srvGot) + 1] = r /\ Len(srvGot) \in Nat
        BY <1>a, <4>1
      <4>3. \A i \in 1..Len(srvGot) : srvGot[i].idx + 1 = srvGot[i].pos
        BY <4>2 DEF Stamps
      <4>4. \A i \in 1..(Len(srvGot) + 1) : i \in 1..Len(srvGot) \/ i = Len(srvGot) + 1
        BY <4>2
      <4>5. srvGot' = Append(srvGot, r)
        BY <3>2 DEF r
      <4> QED
        BY <4>1, <4>2, <4>3, <4>4, <4>5
    <3> QED
      BY <2>1, <3>1, <3>2
  <2> QED
    BY <2>1, <2>2, <2>3 DEF Stamps, InHand
<1> QED
  BY <1>1, <1>2, <1>3, <1>4, <1>6, <1>7, <1>8, <1>9, <1>10, <1>11, <1>12, <1>13, <1>14, <1>15
     DEF Next, Upload, Client, Environment

(* Without a resume the index on a chunk is its position in the file, for   *)
(* files of any length.                                                     *)
THEOREM IndexHolds == Spec => []IndexIsPosition
<1>1. CASE ResumePoints = {0}
  <2>1. Stamps => IndexIsPosition
    BY DEF Stamps, IndexIsPosition
  <2>2. IInv /\ Stamps /\ [Next]_vars => Stamps'
    BY <1>1, NextStamps
  <2> QED
    BY <2>1, <2>2, InitStamps, InvariantHolds, PTL DEF Spec
<1>2. CASE ResumePoints # {0}
  <2>1. IndexIsPosition
    BY <1>2 DEF IndexIsPosition
  <2> QED
    BY <2>1, PTL
<1> QED
  BY <1>1, <1>2

-----------------------------------------------------------------------------
(* TotalChunks. *)

Ended == upc \in {"cleanup", "ok"}

(* Every chunk lowCh took is queued, with the transport, at the server, or lost. *)
ChunksKept == accepted = QueuedChunks(low) + ChunksAmong(net) + Len(srvGot) + lost

(* The uploader reaches its end with every chunk read and taken by lowCh.   *)
ReadAndTaken ==
    /\ InHand => accepted + 1 = sentCount
    /\ ~InHand /\ upc # "failed" => accepted = sentCount
    /\ readErr = "eof" /\ (InHand \/ upc = "bump") => sentCount = Chunks
    /\ upc = "end" \/ Ended => sentCount = Chunks

(* VirtualStreamEnd is behind every chunk, wherever it is. *)
NoChunkBehind ==
    /\ \A i \in 1..Len(low) : low[i].kind = "end" =>
          /\ low[i].idx = Chunks /\ low[i].pos = Chunks + 1 /\ Ended
          /\ \A j \in 1..Len(low) : j > i => low[j].kind # "chunk"
    /\ \A f \in net : f.kind = "end" =>
          /\ f.idx = Chunks /\ f.pos = Chunks + 1 /\ Ended
          /\ \A i \in 1..Len(low) : low[i].kind # "chunk"
    /\ srvTotal \subseteq {Chunks}
    /\ srvTotal # {} =>
          /\ Ended /\ \A i \in 1..Len(low) : low[i].kind # "chunk"
          /\ \A f \in net : f.kind # "chunk"

(* The uploader's side. *)
LEMMA NextReadAndTaken == IInv /\ ReadAndTaken /\ [Next]_vars => ReadAndTaken'
<1> SUFFICES ASSUME IInv, ReadAndTaken, [Next]_vars PROVE ReadAndTaken'
  OBVIOUS
<1> USE DEF uploader, ReadAndTaken, InHand, Ended
<1>1. sentCount \in Nat /\ accepted \in Nat /\ Chunks \in Nat /\ sentCount <= Chunks
  BY ParamAssumption DEF IInv, TypeOK
<1>2. CASE UNCHANGED uploader
  BY <1>2
<1>3. CASE SendInit \/ RegisterSession
  BY <1>3 DEF SendInit, RegisterSession
<1>9. CASE ReadNothing \/ RegisterFails
  BY <1>9 DEF ReadNothing, RegisterFails
<1>10. CASE CheckWindow \/ AckTimeout
  BY <1>10 DEF CheckWindow, AckTimeout
<1>4. CASE ReadChunk
  <2>1. readErr' = "eof" => sentCount' = Chunks
    BY <1>4 DEF ReadChunk
  <2> QED
    BY <1>1, <1>4, <2>1 DEF ReadChunk
<1>5. CASE TakeAck \/ SendEnd \/ Finish
  BY <1>5 DEF TakeAck, SendEnd, Finish
<1>6. CASE EnqueueChunk
  BY <1>1, <1>6 DEF EnqueueChunk
<1>7. CASE BumpIndex
  BY <1>1, <1>7 DEF BumpIndex
<1>8. CASE Client \/ Environment \/ UNCHANGED vars
  <2>1. UNCHANGED uploader
    <3>1. Client \/ UNCHANGED vars => UNCHANGED uploader
      BY DEF Client, SendLoop, HandleAck, HandleInitAck, vars
    <3>2. OtherTraffic \/ SendFails \/ Lose \/ Close => UNCHANGED uploader
      BY DEF OtherTraffic, SendFails, Lose, Close
    <3>3. SrvReceive \/ SrvAck \/ SrvAckBatch \/ SrvRefuse => UNCHANGED uploader
      BY DEF SrvReceive, SrvAck, SrvAckBatch, SrvRefuse
    <3> QED
      BY <1>8, <3>1, <3>2, <3>3 DEF Environment
  <2> QED
    BY <1>2, <2>1
<1> QED
  BY <1>3, <1>4, <1>5, <1>6, <1>7, <1>8, <1>9, <1>10 DEF Next, Upload

(* A step that leaves the frames alone. *)
LEMMA AsideKept ==
    ASSUME ChunksKept, UNCHANGED <<low, net, srvGot, lost, accepted>> PROVE ChunksKept'
<1>1. UNCHANGED <<QueuedChunks(low), ChunksAmong(net)>>
  OBVIOUS
<1> QED
  BY <1>1 DEF ChunksKept

LEMMA NextChunksKept == IInv /\ ChunksKept /\ [Next]_vars => ChunksKept'
<1> SUFFICES ASSUME IInv, ChunksKept, [Next]_vars PROVE ChunksKept'
  OBVIOUS
<1> USE DEF uploader, sessionVars, wire, server, history
<1>a. /\ low \in Seq(Frame) /\ IsFiniteSet(net) /\ net \subseteq Frame
      /\ srvGot \in Seq([pos : Nat, idx : Nat])
  BY DEF IInv, TypeOK
<1>b. QueuedChunks(low) \in Nat /\ ChunksAmong(net) \in Nat /\ Len(srvGot) \in Nat
      /\ lost \in Nat /\ accepted \in Nat
  <2>1. QueuedChunks(low) \in Nat
    BY <1>a, QueuedChunksType
  <2>2. ChunksAmong(net) \in Nat
    BY <1>a, ChunksAmongType
  <2>3. Len(srvGot) \in Nat
    BY <1>a
  <2>4. lost \in Nat /\ accepted \in Nat
    BY DEF IInv, TypeOK
  <2> QED
    BY <2>1, <2>2, <2>3, <2>4
<1>c. ASSUME NEW f \in Frame, f.kind # "chunk", low' \in {low, Append(low, f)}
      PROVE  QueuedChunks(low') = QueuedChunks(low)
  BY <1>a, <1>c, QueuedChunksAppend
<1>d. low # <<>> => /\ Head(low) \in Frame /\ Tail(low) \in Seq(Frame)
                    /\ QueuedChunks(Tail(low)) \in Nat
                    /\ QueuedChunks(low) = IF Head(low).kind = "chunk"
                                           THEN QueuedChunks(Tail(low)) + 1
                                           ELSE QueuedChunks(Tail(low))
  <2> SUFFICES ASSUME low # <<>>
               PROVE  /\ Head(low) \in Frame /\ Tail(low) \in Seq(Frame)
                      /\ QueuedChunks(Tail(low)) \in Nat
                      /\ QueuedChunks(low) = IF Head(low).kind = "chunk"
                                             THEN QueuedChunks(Tail(low)) + 1
                                             ELSE QueuedChunks(Tail(low))
    OBVIOUS
  <2>1. Head(low) \in Frame /\ Tail(low) \in Seq(Frame)
    BY <1>a
  <2>2. QueuedChunks(Tail(low)) \in Nat
    BY <2>1, QueuedChunksType
  <2> QED
    BY <1>a, <2>1, <2>2, QueuedChunksTail
<1>1. CASE SendInit \/ SendEnd \/ OtherTraffic
  <2>1. InitFrame \in Frame /\ OtherFrame \in Frame /\ EndFrame \in Frame
    <3>1. sentCount + 1 \in 0..(Chunks + 1) /\ sentCount \in Nat
      BY ParamAssumption DEF IInv, TypeOK
    <3> QED
      BY <3>1, ParamAssumption DEF InitFrame, OtherFrame, EndFrame, Frame
  <2>2. InitFrame.kind # "chunk" /\ OtherFrame.kind # "chunk" /\ EndFrame.kind # "chunk"
    BY DEF InitFrame, OtherFrame, EndFrame
  <2>3. low' \in {low, Append(low, InitFrame), Append(low, EndFrame), Append(low, OtherFrame)}
    BY <1>1 DEF SendInit, SendEnd, OtherTraffic
  <2>4. QueuedChunks(low') = QueuedChunks(low)
    BY <1>c, <2>1, <2>2, <2>3
  <2>5. UNCHANGED <<net, srvGot, lost, accepted>>
    BY <1>1 DEF SendInit, SendEnd, OtherTraffic
  <2>6. ChunksAmong(net') = ChunksAmong(net)
    BY <2>5
  <2> QED
    BY <2>4, <2>5, <2>6 DEF ChunksKept
<1>2. CASE EnqueueChunk
  <2>1. ChunkFrame \in Frame /\ ChunkFrame.kind = "chunk"
    BY ParamAssumption DEF ChunkFrame, Frame, IInv, TypeOK
  <2>2. QueuedChunks(low') = QueuedChunks(low) + 1
    BY <1>a, <1>2, <2>1, QueuedChunksAppend DEF EnqueueChunk
  <2>3. UNCHANGED <<net, srvGot, lost>> /\ accepted' = accepted + 1
    BY <1>2 DEF EnqueueChunk
  <2>4. ChunksAmong(net') = ChunksAmong(net)
    BY <2>3
  <2> QED
    BY <1>b, <2>2, <2>3, <2>4 DEF ChunksKept
<1>3. CASE SendLoop
  <2>1. low # <<>> /\ low' = Tail(low) /\ UNCHANGED <<srvGot, lost, accepted>>
    BY <1>3 DEF SendLoop
  <2>2. ChunksAmong(net') = IF Head(low).kind = "chunk" THEN ChunksAmong(net) + 1
                                                        ELSE ChunksAmong(net)
    <3>1. CASE net' = net /\ Head(low).kind = "other"
      BY <3>1
    <3>2. CASE net' = net \cup {Head(low)}
      <4>1. Head(low).kind = "chunk" => Head(low) \notin net
        <5>1. Head(low) = low[1] /\ 1 \in 1..Len(low)
          BY <1>a, <2>1
        <5>2. \A f \in net : f.pos \in Nat
          BY <1>a DEF Frame
        <5> QED
          BY <5>1, <5>2 DEF IInv, InOrder
      <4> QED
        BY <1>a, <3>2, <4>1, ChunksAmongAdd
    <3> QED
      BY <1>3, <3>1, <3>2 DEF SendLoop
  <2> QED
    BY <1>b, <1>d, <2>1, <2>2 DEF ChunksKept
<1>4. CASE SendFails
  <2>1. /\ low # <<>> /\ low' = Tail(low) /\ UNCHANGED <<net, srvGot, accepted>>
        /\ lost' = IF Head(low).kind = "chunk" THEN lost + 1 ELSE lost
    BY <1>4 DEF SendFails
  <2>2. ChunksAmong(net') = ChunksAmong(net) /\ Len(srvGot') = Len(srvGot)
        /\ QueuedChunks(low') = QueuedChunks(Tail(low)) /\ accepted' = accepted
    BY <2>1
  <2>3. accepted = QueuedChunks(low) + ChunksAmong(net) + Len(srvGot) + lost
    BY DEF ChunksKept
  <2>4. CASE Head(low).kind = "chunk"
    <3>1. QueuedChunks(low) = QueuedChunks(low') + 1 /\ lost' = lost + 1
          /\ QueuedChunks(low') \in Nat
      BY <1>d, <2>1, <2>2, <2>4
    <3>2. accepted' = QueuedChunks(low') + ChunksAmong(net') + Len(srvGot') + lost'
      BY SMTT(30), <1>b, <2>2, <2>3, <3>1
    <3> QED
      BY <3>2 DEF ChunksKept
  <2>5. CASE Head(low).kind # "chunk"
    <3>1. QueuedChunks(low) = QueuedChunks(low') /\ lost' = lost
      BY <1>d, <2>1, <2>2, <2>5
    <3>2. accepted' = QueuedChunks(low') + ChunksAmong(net') + Len(srvGot') + lost'
      BY <2>2, <2>3, <3>1
    <3> QED
      BY <3>2 DEF ChunksKept
  <2> QED
    BY <2>4, <2>5
<1>5. CASE Lose
  <2>1. PICK f \in net : net' = net \ {f} /\ lost' = IF f.kind = "chunk" THEN lost + 1 ELSE lost
    BY <1>5 DEF Lose
  <2>2. UNCHANGED <<low, srvGot, accepted>>
    BY <1>5 DEF Lose
  <2>3. ChunksAmong(net) = IF f.kind = "chunk" THEN ChunksAmong(net') + 1 ELSE ChunksAmong(net')
    BY <1>a, <2>1, ChunksAmongRemove
  <2>4. ChunksAmong(net') \in Nat
    BY <1>a, <2>1, FS_RemoveElement, ChunksAmongType
  <2>5. QueuedChunks(low') = QueuedChunks(low)
    BY <2>2
  <2> QED
    BY <1>b, <2>1, <2>2, <2>3, <2>4, <2>5 DEF ChunksKept
<1>6. CASE SrvReceive
  <2>1. PICK f \in net :
           /\ net' = net \ {f}
           /\ srvGot' = IF f.kind = "chunk"
                        THEN Append(srvGot, [pos |-> f.pos, idx |-> f.idx]) ELSE srvGot
    BY <1>6 DEF SrvReceive
  <2>2. UNCHANGED <<low, lost, accepted>>
    BY <1>6 DEF SrvReceive
  <2>3. ChunksAmong(net) = IF f.kind = "chunk" THEN ChunksAmong(net') + 1 ELSE ChunksAmong(net')
    BY <1>a, <2>1, ChunksAmongRemove
  <2>4. ChunksAmong(net') \in Nat
    BY <1>a, <2>1, FS_RemoveElement, ChunksAmongType
  <2>5. QueuedChunks(low') = QueuedChunks(low)
    BY <2>2
  <2>6. Len(srvGot') = IF f.kind = "chunk" THEN Len(srvGot) + 1 ELSE Len(srvGot)
    <3>1. [pos |-> f.pos, idx |-> f.idx] \in [pos : Nat, idx : Nat]
      BY <1>a DEF Frame
    <3> QED
      BY <1>a, <2>1, <3>1
  <2> QED
    BY <1>b, <2>2, <2>3, <2>4, <2>5, <2>6 DEF ChunksKept
<1>7. CASE \/ RegisterSession \/ RegisterFails \/ ReadChunk \/ ReadNothing \/ CheckWindow
           \/ TakeAck \/ AckTimeout \/ BumpIndex \/ Finish \/ HandleAck \/ HandleInitAck \/ Close \/ SrvAck \/ SrvAckBatch
           \/ SrvRefuse \/ UNCHANGED vars
  <2>1. UNCHANGED <<low, net, srvGot, lost, accepted>>
    BY <1>7 DEF RegisterSession, RegisterFails, ReadChunk, ReadNothing, CheckWindow, TakeAck, AckTimeout,
       BumpIndex, Finish, HandleAck, HandleInitAck, Close, SrvAck, SrvAckBatch, SrvRefuse, vars
  <2> QED
    BY <2>1, AsideKept
<1> QED
  BY <1>1, <1>2, <1>3, <1>4, <1>5, <1>6, <1>7 DEF Next, Upload, Client, Environment

(* No chunk joins lowCh, and what joins the transport comes from lowCh: what *)
(* held of every frame on them still does.                                   *)
LEMMA NoChunkBehindShrinks ==
    ASSUME IInv, NoChunkBehind, UNCHANGED upc, srvTotal' = srvTotal,
           low' = low \/ (low # <<>> /\ low' = Tail(low)),
           \A f \in net' : f \in net \/ (low # <<>> /\ low' = Tail(low) /\ f = Head(low))
    PROVE  NoChunkBehind'
<1>1. low \in Seq(Frame)
  BY DEF IInv, TypeOK
<1>2. CASE low' = low /\ \A f \in net' : f \in net
  BY <1>2 DEF NoChunkBehind, Ended
<1>3. CASE low # <<>> /\ low' = Tail(low)
  <2>1. /\ Len(low) \in Nat \ {0} /\ Len(low') = Len(low) - 1 /\ Head(low) = low[1]
        /\ \A i \in 1..(Len(low) - 1) : low'[i] = low[i + 1]
    BY <1>1, <1>3
  <2>2. \A i \in 1..Len(low') : i \in Nat \ {0} /\ i + 1 \in 1..Len(low) /\ low'[i] = low[i + 1]
    BY <2>1
  <2>3. ASSUME NEW i \in 1..Len(low'), low'[i].kind = "end"
        PROVE  /\ low'[i].idx = Chunks /\ low'[i].pos = Chunks + 1 /\ Ended'
               /\ \A j \in 1..Len(low') : j > i => low'[j].kind # "chunk"
    <3>1. /\ low[i + 1].idx = Chunks /\ low[i + 1].pos = Chunks + 1 /\ Ended
          /\ \A j \in 1..Len(low) : j > i + 1 => low[j].kind # "chunk"
      BY <2>2, <2>3 DEF NoChunkBehind
    <3>2. ASSUME NEW j \in 1..Len(low'), j > i PROVE low'[j].kind # "chunk"
      <4>1. j + 1 > i + 1 /\ j + 1 \in 1..Len(low) /\ low'[j] = low[j + 1]
        BY <2>2, <3>2
      <4> QED
        BY <3>1, <4>1
    <3> QED
      BY <2>2, <3>1, <3>2 DEF Ended
  <2>4. ASSUME NEW f \in net', f.kind = "end"
        PROVE  /\ f.idx = Chunks /\ f.pos = Chunks + 1 /\ Ended'
               /\ \A i \in 1..Len(low') : low'[i].kind # "chunk"
    <3>1. CASE f \in net
      <4>1. /\ f.idx = Chunks /\ f.pos = Chunks + 1 /\ Ended
            /\ \A i \in 1..Len(low) : low[i].kind # "chunk"
        BY <2>4, <3>1 DEF NoChunkBehind
      <4> QED
        BY <2>2, <4>1 DEF Ended
    <3>2. CASE f = Head(low)
      <4>1. 1 \in 1..Len(low) /\ low[1].kind = "end"
        BY <2>1, <2>4, <3>2
      <4>2. /\ f.idx = Chunks /\ f.pos = Chunks + 1 /\ Ended
            /\ \A j \in 1..Len(low) : j > 1 => low[j].kind # "chunk"
        BY <2>1, <3>2, <4>1 DEF NoChunkBehind
      <4>3. ASSUME NEW i \in 1..Len(low') PROVE low'[i].kind # "chunk"
        <5>1. i + 1 > 1 /\ i + 1 \in 1..Len(low) /\ low'[i] = low[i + 1]
          BY <2>2
        <5> QED
          BY <4>2, <5>1
      <4> QED
        BY <4>2, <4>3 DEF Ended
    <3> QED
      BY <3>1, <3>2
  <2>5. ASSUME srvTotal' # {}
        PROVE  /\ Ended' /\ \A i \in 1..Len(low') : low'[i].kind # "chunk"
               /\ \A f \in net' : f.kind # "chunk"
    <3>1. /\ Ended /\ \A i \in 1..Len(low) : low[i].kind # "chunk"
          /\ \A f \in net : f.kind # "chunk"
      BY <2>5 DEF NoChunkBehind
    <3>2. Head(low).kind # "chunk"
      BY <2>1, <3>1
    <3> QED
      BY <2>2, <3>1, <3>2 DEF Ended
  <2> QED
    BY <2>3, <2>4, <2>5 DEF NoChunkBehind
<1> QED
  BY <1>2, <1>3

(* A frame more on lowCh: no chunk once the end frame is there. *)
LEMMA NoChunkBehindAppends ==
    ASSUME IInv, NoChunkBehind, NEW f \in Frame, low' = Append(low, f), Ended => Ended',
           UNCHANGED <<net, srvTotal>>,
           f.kind = "chunk" => ~Ended,
           f.kind = "end" => f.idx = Chunks /\ f.pos = Chunks + 1 /\ Ended'
    PROVE  NoChunkBehind'
<1>1. low \in Seq(Frame)
  BY DEF IInv, TypeOK
<1>2. /\ Len(low) \in Nat /\ Len(low') = Len(low) + 1 /\ low'[Len(low) + 1] = f
      /\ \A i \in 1..Len(low) : low'[i] = low[i]
  BY <1>1
<1>3. \A i \in 1..Len(low') : i \in 1..Len(low) \/ i = Len(low) + 1
  BY <1>2
<1>4. ASSUME NEW i \in 1..Len(low'), low'[i].kind = "end"
      PROVE  /\ low'[i].idx = Chunks /\ low'[i].pos = Chunks + 1 /\ Ended'
             /\ \A j \in 1..Len(low') : j > i => low'[j].kind # "chunk"
  <2>1. CASE i \in 1..Len(low)
    <3>1. /\ low[i].idx = Chunks /\ low[i].pos = Chunks + 1 /\ Ended
          /\ \A j \in 1..Len(low) : j > i => low[j].kind # "chunk"
      BY <1>2, <1>4, <2>1 DEF NoChunkBehind
    <3>2. f.kind # "chunk"
      BY <3>1
    <3> QED
      BY <1>2, <1>3, <2>1, <3>1, <3>2
  <2>2. CASE i = Len(low) + 1
    <3>1. \A j \in 1..Len(low') : ~(j > i)
      BY <1>2, <2>2
    <3> QED
      BY <1>2, <1>4, <2>2, <3>1
  <2> QED
    BY <1>3, <2>1, <2>2
<1>5. Ended => \A i \in 1..Len(low') : (\A j \in 1..Len(low) : low[j].kind # "chunk")
                                          => low'[i].kind # "chunk"
  BY <1>2, <1>3
<1>6. \A g \in net' : g.kind = "end" =>
          /\ g.idx = Chunks /\ g.pos = Chunks + 1 /\ Ended'
          /\ \A i \in 1..Len(low') : low'[i].kind # "chunk"
  BY <1>5 DEF NoChunkBehind
<1>7. srvTotal' # {} => /\ Ended' /\ \A i \in 1..Len(low') : low'[i].kind # "chunk"
                        /\ \A g \in net' : g.kind # "chunk"
  BY <1>5 DEF NoChunkBehind
<1> QED
  BY <1>4, <1>6, <1>7 DEF NoChunkBehind

(* The end frame arrives as the first of those with the transport. *)
LEMMA NoChunkBehindArrives ==
    ASSUME IInv, ReadAndTaken, NoChunkBehind, NEW f \in net, net' = net \ {f},
           UNCHANGED <<low, upc>>, Deliverable(f),
           \/ srvTotal' = srvTotal
           \/ f.kind = "end" /\ srvTotal' = srvTotal \cup {f.idx}
    PROVE  NoChunkBehind'
<1>1. CASE srvTotal' = srvTotal
  BY <1>1 DEF NoChunkBehind, Ended
<1>2. CASE f.kind = "end" /\ srvTotal' = srvTotal \cup {f.idx}
  <2>1. /\ f.idx = Chunks /\ f.pos = Chunks + 1 /\ Ended
        /\ \A i \in 1..Len(low) : low[i].kind # "chunk"
    BY <1>2 DEF NoChunkBehind
  <2>2. ASSUME NEW g \in net, g.kind = "chunk" PROVE FALSE
    <3>1. g.pos <= sentCount /\ sentCount = Chunks /\ Chunks \in Nat
      BY <2>1, <2>2, ParamAssumption DEF IInv, InOrder, ReadAndTaken
    <3>2. Chunks + 1 <= g.pos
      BY <2>1 DEF Deliverable
    <3>3. g.pos \in Nat
      BY DEF IInv, TypeOK, Frame
    <3> QED
      BY <3>1, <3>2, <3>3
  <2> QED
    BY <1>2, <2>1, <2>2 DEF NoChunkBehind, Ended
<1> QED
  BY <1>1, <1>2

LEMMA NextNoChunkBehind ==
    IInv /\ ReadAndTaken /\ NoChunkBehind /\ [Next]_vars => NoChunkBehind'
<1> SUFFICES ASSUME IInv, ReadAndTaken, NoChunkBehind, [Next]_vars PROVE NoChunkBehind'
  OBVIOUS
<1> USE DEF uploader, sessionVars, wire, server, history
<1>1. sentCount \in 0..Chunks /\ Chunks \in Nat /\ index \in Nat
  BY ParamAssumption DEF IInv, TypeOK
<1>2. CASE SendInit
  <2>1. CASE low' = Append(low, InitFrame)
    <3>1. InitFrame \in Frame /\ InitFrame.kind = "init"
      BY ParamAssumption DEF InitFrame, Frame
    <3>2. UNCHANGED <<net, srvTotal>> /\ ~Ended
      BY <1>2 DEF SendInit, Ended
    <3> QED
      BY <2>1, <3>1, <3>2, NoChunkBehindAppends
  <2>2. CASE low' = low
    <3>1. UNCHANGED <<net, srvTotal>> /\ ~Ended
      BY <1>2 DEF SendInit, Ended
    <3> QED
      BY <2>2, <3>1 DEF NoChunkBehind
  <2> QED
    BY <1>2, <2>1, <2>2 DEF SendInit
<1>3. CASE EnqueueChunk
  <2>1. ChunkFrame \in Frame /\ ChunkFrame.kind = "chunk"
    BY <1>1 DEF ChunkFrame, Frame
  <2>2. UNCHANGED <<net, srvTotal>> /\ ~Ended /\ low' = Append(low, ChunkFrame)
    BY <1>3 DEF EnqueueChunk, Ended
  <2> QED
    BY <2>1, <2>2, NoChunkBehindAppends
<1>4. CASE SendEnd
  <2>1. UNCHANGED <<net, srvTotal>> /\ ~Ended /\ Ended' /\ sentCount = Chunks
    BY <1>4 DEF SendEnd, Ended, ReadAndTaken
  <2>2. CASE low' = Append(low, EndFrame)
    <3>1. EndFrame \in Frame /\ EndFrame.idx = Chunks /\ EndFrame.pos = Chunks + 1
          /\ EndFrame.kind = "end"
      BY <1>1, <2>1 DEF EndFrame, Frame
    <3> QED
      BY <2>1, <2>2, <3>1, NoChunkBehindAppends
  <2>3. CASE low' = low
    BY <2>1, <2>3 DEF NoChunkBehind
  <2> QED
    BY <1>4, <2>2, <2>3 DEF SendEnd
<1>5. CASE OtherTraffic
  <2>1. OtherFrame \in Frame /\ OtherFrame.kind = "other"
    BY ParamAssumption DEF OtherFrame, Frame
  <2>2. UNCHANGED <<net, srvTotal, upc>> /\ low' = Append(low, OtherFrame)
    BY <1>5 DEF OtherTraffic
  <2>3. Ended => Ended'
    BY <2>2 DEF Ended
  <2> QED
    BY <2>1, <2>2, <2>3, NoChunkBehindAppends
<1>6. CASE SendLoop \/ SendFails \/ Lose
  <2>1. UNCHANGED <<upc, srvTotal>>
    BY <1>6 DEF SendLoop, SendFails, Lose
  <2>2. low' = low \/ (low # <<>> /\ low' = Tail(low))
    BY <1>6 DEF SendLoop, SendFails, Lose
  <2>3. \A f \in net' : f \in net \/ (low # <<>> /\ low' = Tail(low) /\ f = Head(low))
    BY <1>6 DEF SendLoop, SendFails, Lose
  <2> QED
    BY <2>1, <2>2, <2>3, NoChunkBehindShrinks
<1>7. CASE SrvReceive
  <2>1. PICK f \in net :
           /\ Deliverable(f) /\ net' = net \ {f}
           /\ \/ srvTotal' = srvTotal
              \/ f.kind = "end" /\ srvTotal' = srvTotal \cup {f.idx}
    BY <1>7 DEF SrvReceive
  <2>2. UNCHANGED <<low, upc>>
    BY <1>7 DEF SrvReceive
  <2> QED
    BY <2>1, <2>2, NoChunkBehindArrives
<1>8. CASE \/ RegisterSession \/ RegisterFails \/ ReadChunk \/ ReadNothing \/ CheckWindow
           \/ TakeAck \/ AckTimeout \/ BumpIndex \/ Finish \/ HandleAck \/ HandleInitAck \/ Close \/ SrvAck \/ SrvAckBatch
           \/ SrvRefuse \/ UNCHANGED vars
  <2>1. UNCHANGED <<low, net, srvTotal>>
    BY <1>8 DEF RegisterSession, RegisterFails, ReadChunk, ReadNothing, CheckWindow, TakeAck, AckTimeout,
       BumpIndex, Finish, HandleAck, HandleInitAck, Close, SrvAck, SrvAckBatch, SrvRefuse, vars
  <2>2. Ended => Ended'
    BY <1>8 DEF RegisterSession, RegisterFails, ReadChunk, ReadNothing, CheckWindow, TakeAck, AckTimeout,
       BumpIndex, Finish, HandleAck, HandleInitAck, Close, SrvAck, SrvAckBatch, SrvRefuse, vars,
       Ended
  <2> HIDE DEF Ended
  <2> QED
    BY <2>1, <2>2 DEF NoChunkBehind
<1> QED
  BY <1>2, <1>3, <1>4, <1>5, <1>6, <1>7, <1>8 DEF Next, Upload, Client, Environment

(* The TotalChunks the server receives is the number of chunks of the file, *)
(* and the difference to what it has is what was lost on the way.           *)
THEOREM TotalHolds == Spec => []TotalTellsLoss
<1> DEFINE T == ReadAndTaken /\ ChunksKept /\ NoChunkBehind
<1>1. Init => T
  <2>1. QueuedChunks(<<>>) = 0 /\ ChunksAmong({}) = 0
    <3>1. {i \in 1..Len(<<>>) : <<>>[i].kind = "chunk"} = {} /\ {f \in {} : f.kind = "chunk"} = {}
      OBVIOUS
    <3> QED
      BY <3>1, FS_EmptySet DEF QueuedChunks, ChunksAmong
  <2> QED
    BY <2>1 DEF Init, ReadAndTaken, ChunksKept, NoChunkBehind, InHand, Ended
<1>2. IInv /\ T /\ [Next]_vars => T'
  BY NextReadAndTaken, NextChunksKept, NextNoChunkBehind
<1>3. IInv /\ T => TotalTellsLoss
  <2> SUFFICES ASSUME IInv, T, NEW total \in srvTotal
               PROVE  total = Chunks /\ Len(srvGot) + lost = total
    BY DEF TotalTellsLoss
  <2>1. /\ total = Chunks /\ Ended /\ \A i \in 1..Len(low) : low[i].kind # "chunk"
        /\ \A f \in net : f.kind # "chunk"
    BY DEF NoChunkBehind
  <2>2. QueuedChunks(low) = 0 /\ ChunksAmong(net) = 0
    <3>1. {i \in 1..Len(low) : low[i].kind = "chunk"} = {} /\ {f \in net : f.kind = "chunk"} = {}
      BY <2>1
    <3> QED
      BY <3>1, FS_EmptySet DEF QueuedChunks, ChunksAmong
  <2>3. accepted = Chunks
    BY <2>1 DEF ReadAndTaken, Ended, InHand
  <2>4. Len(srvGot) \in Nat /\ lost \in Nat
    BY DEF IInv, TypeOK
  <2> QED
    BY <2>1, <2>2, <2>3, <2>4 DEF ChunksKept
<1> HIDE DEF T
<1> QED
  BY <1>1, <1>2, <1>3, InvariantHolds, PTL DEF Spec

-----------------------------------------------------------------------------
(* The pipe. *)

(* What the server has comes before what is with the transport, and that    *)
(* before what is queued; nothing of it is younger than the last chunk that *)
(* was accepted.                                                            *)
Arrivals ==
    /\ \A i \in 1..Len(low) : low[i].kind = "chunk" => 0 < low[i].pos /\ low[i].pos <= accepted
    /\ \A f \in net : f.kind = "chunk" => 0 < f.pos /\ f.pos <= accepted
    /\ \A f, g \in net : f.kind = "chunk" /\ g.kind = "chunk" /\ f.pos = g.pos => f = g
    /\ \A k \in 1..Len(srvGot) :
          /\ srvGot[k].pos <= accepted
          /\ \A i \in 1..Len(low) : low[i].kind = "chunk" => srvGot[k].pos < low[i].pos
          /\ \A f \in net : f.kind = "chunk" => srvGot[k].pos < f.pos

(* What the types say of the frames and of the chunks received.            *)
LEMMA Positions ==
    IInv => /\ low \in Seq(Frame) /\ net \subseteq Frame /\ accepted \in Nat
            /\ srvGot \in Seq([pos : Nat, idx : Nat]) /\ Len(low) \in Nat /\ Len(srvGot) \in Nat
            /\ \A i \in 1..Len(low) : low[i] \in Frame
            /\ \A k \in 1..Len(srvGot) : srvGot[k].pos \in Nat
            /\ \A f \in Frame : f.pos \in Nat /\ f.idx \in Nat
<1> SUFFICES ASSUME IInv PROVE
            /\ low \in Seq(Frame) /\ net \subseteq Frame /\ accepted \in Nat
            /\ srvGot \in Seq([pos : Nat, idx : Nat]) /\ Len(low) \in Nat /\ Len(srvGot) \in Nat
            /\ \A i \in 1..Len(low) : low[i] \in Frame
            /\ \A k \in 1..Len(srvGot) : srvGot[k].pos \in Nat
            /\ \A f \in Frame : f.pos \in Nat /\ f.idx \in Nat
  OBVIOUS
<1>1. /\ low \in Seq(Frame) /\ net \subseteq Frame /\ accepted \in Nat
      /\ srvGot \in Seq([pos : Nat, idx : Nat])
  BY DEF IInv, TypeOK
<1>2. Len(low) \in Nat /\ \A i \in 1..Len(low) : low[i] \in Frame
  BY <1>1
<1>3. Len(srvGot) \in Nat /\ \A k \in 1..Len(srvGot) : srvGot[k].pos \in Nat
  <2>1. Len(srvGot) \in Nat /\ \A k \in 1..Len(srvGot) : srvGot[k] \in [pos : Nat, idx : Nat]
    BY <1>1, LenProperties, ElementOfSeq
  <2> QED
    BY <2>1
<1>4. \A f \in Frame : f.pos \in Nat /\ f.idx \in Nat
  <2>1. \A n \in 0..(Chunks + 1) : n \in Nat
    BY ParamAssumption
  <2> QED
    BY <2>1 DEF Frame
<1> QED
  BY <1>1, <1>2, <1>3, <1>4

(* A frame that is no chunk joins lowCh, or none does. *)
LEMMA ArrivalsOther ==
    ASSUME IInv, Arrivals, UNCHANGED <<net, srvGot, accepted>>, NEW f \in Frame,
           f.kind # "chunk", low' = low \/ low' = Append(low, f)
    PROVE  Arrivals'
<1>1. CASE low' = low
  BY <1>1 DEF Arrivals
<1>2. CASE low' = Append(low, f)
  <2>1. /\ Len(low') = Len(low) + 1 /\ low'[Len(low) + 1] = f /\ Len(low) \in Nat
        /\ \A i \in 1..Len(low) : low'[i] = low[i]
    BY <1>2, Positions
  <2>2. \A i \in 1..Len(low') : low'[i].kind = "chunk" => i \in 1..Len(low) /\ low'[i] = low[i]
    BY <2>1
  <2> QED
    BY <2>2 DEF Arrivals
<1> QED
  BY <1>1, <1>2

(* A chunk joins it: the youngest. *)
LEMMA ArrivalsEnqueue == IInv /\ ReadAndTaken /\ Arrivals /\ EnqueueChunk => Arrivals'
<1> SUFFICES ASSUME IInv, ReadAndTaken, Arrivals, EnqueueChunk PROVE Arrivals'
  OBVIOUS
<1>1. /\ low' = Append(low, ChunkFrame) /\ accepted' = accepted + 1
      /\ UNCHANGED <<net, srvGot>>
  BY DEF EnqueueChunk, server
<1>2. ChunkFrame \in Frame /\ ChunkFrame.pos = accepted + 1
  <2>1. sentCount = accepted + 1 /\ sentCount \in 0..Chunks /\ index \in Nat
    BY DEF EnqueueChunk, ReadAndTaken, InHand, IInv, TypeOK
  <2> QED
    BY <2>1, ParamAssumption DEF ChunkFrame, Frame
<1>3. /\ Len(low') = Len(low) + 1 /\ low'[Len(low) + 1] = ChunkFrame /\ Len(low) \in Nat
      /\ \A i \in 1..Len(low) : low'[i] = low[i]
  BY <1>1, <1>2, Positions
<1>4. \A i \in 1..Len(low') : \/ i \in 1..Len(low) /\ low'[i] = low[i]
                              \/ low'[i].pos = accepted + 1
  BY <1>2, <1>3
<1>5. \A n \in Nat : n <= accepted => n < accepted + 1 /\ n <= accepted + 1
  BY Positions
<1>6. ASSUME NEW i \in 1..Len(low'), low'[i].kind = "chunk" PROVE 0 < low'[i].pos /\ low'[i].pos <= accepted'
  <2>1. CASE i \in 1..Len(low) /\ low'[i] = low[i]
    <3>1. 0 < low[i].pos /\ low[i].pos <= accepted /\ low[i].pos \in Nat
      BY <1>6, <2>1, Positions DEF Arrivals
    <3> QED
      BY <1>1, <1>5, <2>1, <3>1
  <2>2. CASE low'[i].pos = accepted + 1
    BY <1>1, <2>2, Positions
  <2> QED
    BY <1>4, <2>1, <2>2
<1>7. ASSUME NEW f \in net', f.kind = "chunk" PROVE 0 < f.pos /\ f.pos <= accepted'
  <2>1. 0 < f.pos /\ f.pos <= accepted /\ f.pos \in Nat
    BY <1>1, <1>7, Positions DEF Arrivals
  <2> QED
    BY <1>1, <1>5, <2>1
<1>8. ASSUME NEW k \in 1..Len(srvGot')
      PROVE  /\ srvGot'[k].pos <= accepted'
             /\ \A i \in 1..Len(low') : low'[i].kind = "chunk" => srvGot'[k].pos < low'[i].pos
             /\ \A f \in net' : f.kind = "chunk" => srvGot'[k].pos < f.pos
  <2>1. /\ srvGot'[k] = srvGot[k] /\ srvGot[k].pos \in Nat /\ srvGot[k].pos <= accepted
        /\ \A i \in 1..Len(low) : low[i].kind = "chunk" => srvGot[k].pos < low[i].pos
        /\ \A f \in net : f.kind = "chunk" => srvGot[k].pos < f.pos
    BY <1>1, Positions DEF Arrivals
  <2>2. srvGot[k].pos < accepted + 1 /\ srvGot[k].pos <= accepted + 1
    BY <1>5, <2>1
  <2> QED
    BY <1>1, <1>4, <2>1, <2>2
<1> QED
  BY <1>1, <1>6, <1>7, <1>8 DEF Arrivals

(* The head of lowCh goes to the transport, or is lost. *)
LEMMA ArrivalsTail ==
    ASSUME IInv, Arrivals, low # <<>>, low' = Tail(low), UNCHANGED <<srvGot, accepted>>,
           net' = net \/ net' = net \cup {Head(low)}
    PROVE  Arrivals'
<1>1. /\ Len(low) \in Nat \ {0} /\ Len(low') = Len(low) - 1 /\ Head(low) = low[1]
      /\ \A i \in 1..(Len(low) - 1) : low'[i] = low[i + 1]
  BY Positions
<1>2. 1 \in 1..Len(low) /\ \A i \in 1..Len(low') : i + 1 \in 1..Len(low) /\ low'[i] = low[i + 1]
  BY <1>1
<1>3. \A f \in net' : f \in net \/ f = low[1]
  BY <1>1
<1>4. \A f, g \in net' : f.kind = "chunk" /\ g.kind = "chunk" /\ f.pos = g.pos => f = g
  <2> SUFFICES ASSUME NEW f \in net', NEW g \in net', f.kind = "chunk", g.kind = "chunk",
                      f.pos = g.pos
               PROVE  f = g
    OBVIOUS
  <2>1. \A h \in net : h.kind = "chunk" /\ low[1].kind = "chunk" => h.pos < low[1].pos
    BY <1>2 DEF IInv, InOrder
  <2>2. \A h \in net : h.pos \in Nat
    BY Positions
  <2>3. low[1].pos \in Nat
    BY <1>2, Positions
  <2> QED
    BY <1>3, <2>1, <2>2, <2>3 DEF Arrivals
<1>5. \A k \in 1..Len(srvGot') :
          /\ srvGot'[k].pos <= accepted'
          /\ \A i \in 1..Len(low') : low'[i].kind = "chunk" => srvGot'[k].pos < low'[i].pos
          /\ \A f \in net' : f.kind = "chunk" => srvGot'[k].pos < f.pos
  BY <1>2, <1>3 DEF Arrivals
<1>6. /\ \A i \in 1..Len(low') :
            low'[i].kind = "chunk" => 0 < low'[i].pos /\ low'[i].pos <= accepted'
      /\ \A f \in net' : f.kind = "chunk" => 0 < f.pos /\ f.pos <= accepted'
  BY <1>2, <1>3 DEF Arrivals
<1> QED
  BY <1>4, <1>5, <1>6 DEF Arrivals

(* The oldest frame with the transport arrives. *)
LEMMA ArrivalsReceive ==
    ASSUME IInv, Arrivals, NEW f \in net, Deliverable(f), net' = net \ {f},
           UNCHANGED <<low, accepted>>,
           \/ srvGot' = srvGot
           \/ f.kind = "chunk" /\ srvGot' = Append(srvGot, [pos |-> f.pos, idx |-> f.idx])
    PROVE  Arrivals'
<1>1. CASE srvGot' = srvGot
  BY <1>1 DEF Arrivals
<1>2. CASE f.kind = "chunk" /\ srvGot' = Append(srvGot, [pos |-> f.pos, idx |-> f.idx])
  <2>1. f \in Frame /\ [pos |-> f.pos, idx |-> f.idx] \in [pos : Nat, idx : Nat]
    BY Positions
  <2>2. /\ Len(srvGot') = Len(srvGot) + 1 /\ srvGot'[Len(srvGot) + 1].pos = f.pos
        /\ \A k \in 1..Len(srvGot) : srvGot'[k] = srvGot[k]
        /\ Len(srvGot) \in Nat
    BY <1>2, <2>1, Positions
  <2>3. /\ f.pos <= accepted
        /\ \A i \in 1..Len(low) : low[i].kind = "chunk" => f.pos < low[i].pos
        /\ \A g \in net' : g.kind = "chunk" => f.pos < g.pos
    <3>1. \A i \in 1..Len(low) : low[i].kind = "chunk" => f.pos < low[i].pos
      BY <1>2 DEF IInv, InOrder
    <3>2. ASSUME NEW g \in net', g.kind = "chunk" PROVE f.pos < g.pos
      <4>1. g \in net /\ g # f /\ f.pos <= g.pos /\ f.pos \in Nat /\ g.pos \in Nat
        BY Positions DEF Deliverable
      <4>2. f.pos # g.pos
        BY <1>2, <3>2, <4>1 DEF Arrivals
      <4> QED
        BY <4>1, <4>2
    <3> QED
      BY <1>2, <3>1, <3>2 DEF Arrivals
  <2>4. \A k \in 1..Len(srvGot') : \/ k \in 1..Len(srvGot) /\ srvGot'[k] = srvGot[k]
                                   \/ srvGot'[k].pos = f.pos
    BY <2>2
  <2>5. \A k \in 1..Len(srvGot') :
            /\ srvGot'[k].pos <= accepted'
            /\ \A i \in 1..Len(low') : low'[i].kind = "chunk" => srvGot'[k].pos < low'[i].pos
            /\ \A g \in net' : g.kind = "chunk" => srvGot'[k].pos < g.pos
    BY <2>3, <2>4 DEF Arrivals
  <2> QED
    BY <2>5 DEF Arrivals
<1> QED
  BY <1>1, <1>2

(* Every step keeps it.                                                     *)
LEMMA NextArrivals == IInv /\ ReadAndTaken /\ Arrivals /\ [Next]_vars => Arrivals'
<1> SUFFICES ASSUME IInv, ReadAndTaken, Arrivals, [Next]_vars PROVE Arrivals'
  OBVIOUS
<1> USE DEF uploader, sessionVars, wire, server, history
<1>1. CASE SendInit \/ SendEnd \/ OtherTraffic
  <2>1. InitFrame \in Frame /\ OtherFrame \in Frame /\ EndFrame \in Frame
    <3>1. sentCount + 1 \in 0..(Chunks + 1) /\ sentCount \in Nat
      BY ParamAssumption DEF IInv, TypeOK
    <3> QED
      BY <3>1, ParamAssumption DEF InitFrame, OtherFrame, EndFrame, Frame
  <2>2. InitFrame.kind # "chunk" /\ OtherFrame.kind # "chunk" /\ EndFrame.kind # "chunk"
    BY DEF InitFrame, OtherFrame, EndFrame
  <2>3. low' \in {low, Append(low, InitFrame), Append(low, EndFrame), Append(low, OtherFrame)}
    BY <1>1 DEF SendInit, SendEnd, OtherTraffic
  <2>4. UNCHANGED <<net, srvGot, accepted>>
    BY <1>1 DEF SendInit, SendEnd, OtherTraffic
  <2> QED
    BY <2>1, <2>2, <2>3, <2>4, ArrivalsOther
<1>2. CASE SendLoop \/ SendFails
  <2>1. /\ low # <<>> /\ low' = Tail(low) /\ UNCHANGED <<srvGot, accepted>>
        /\ net' = net \/ net' = net \cup {Head(low)}
    BY <1>2 DEF SendLoop, SendFails
  <2> QED
    BY <2>1, ArrivalsTail
<1>3. CASE Lose
  <2>1. net' \subseteq net /\ UNCHANGED <<low, srvGot, accepted>>
    BY <1>3 DEF Lose
  <2> QED
    BY <2>1 DEF Arrivals
<1>4. CASE SrvReceive
  <2>1. PICK f \in net :
           /\ Deliverable(f) /\ net' = net \ {f}
           /\ \/ srvGot' = srvGot
              \/ f.kind = "chunk" /\ srvGot' = Append(srvGot, [pos |-> f.pos, idx |-> f.idx])
    BY <1>4 DEF SrvReceive
  <2>2. UNCHANGED <<low, accepted>>
    BY <1>4 DEF SrvReceive
  <2> QED
    BY <2>1, <2>2, ArrivalsReceive
<1>5. CASE \/ RegisterSession \/ RegisterFails \/ ReadChunk \/ ReadNothing \/ CheckWindow
           \/ TakeAck \/ AckTimeout \/ BumpIndex \/ Finish \/ HandleAck \/ HandleInitAck \/ Close \/ SrvAck \/ SrvAckBatch
           \/ SrvRefuse \/ UNCHANGED vars
  <2>1. UNCHANGED <<low, net, srvGot, accepted>>
    BY <1>5 DEF RegisterSession, RegisterFails, ReadChunk, ReadNothing, CheckWindow, TakeAck, AckTimeout,
       BumpIndex, Finish, HandleAck, HandleInitAck, Close, SrvAck, SrvAckBatch, SrvRefuse, vars
  <2> QED
    BY <2>1 DEF Arrivals
<1> QED
  BY <1>1, <1>2, <1>3, <1>4, <1>5, ArrivalsEnqueue DEF Next, Upload, Client, Environment

(* The positions of a sequence of received chunks. *)
PosOf(got) == [i \in 1..Len(got) |-> got[i].pos]

(* They are a sequence of the same length.                                  *)
LEMMA PosType ==
    ASSUME NEW got \in Seq([pos : Nat, idx : Nat])
    PROVE  /\ PosOf(got) \in Seq(Nat) /\ Len(PosOf(got)) = Len(got) /\ Len(got) \in Nat
           /\ \A i \in 1..Len(got) : PosOf(got)[i] = got[i].pos
<1>1. /\ Len(got) \in Nat
      /\ \A i \in 1..Len(got) : got[i] \in [pos : Nat, idx : Nat]
  BY LenProperties, ElementOfSeq
<1>2. \A i \in 1..Len(got) : got[i].pos \in Nat
  BY <1>1
<1>3. PosOf(got) \in [1..Len(got) -> Nat]
  BY <1>2 DEF PosOf
<1>4. PosOf(got) \in Seq(Nat) /\ DOMAIN PosOf(got) = 1..Len(got)
  <2> DEFINE p == PosOf(got)
             n == Len(got)
  <2>1. p \in [1..n -> Nat] /\ n \in Nat
    BY <1>1, <1>3
  <2> HIDE DEF p, n
  <2>2. p \in UNION {[1..k -> Nat] : k \in Nat}
    BY <2>1
  <2>3. Seq(Nat) = UNION {[1..k -> Nat] : k \in Nat}
    BY SeqDef
  <2>4. p \in Seq(Nat)
    BY <2>2, <2>3, Zenon
  <2>5. DOMAIN p = 1..n
    BY <2>1, Zenon
  <2> QED
    BY <2>4, <2>5 DEF p, n
<1>5. Len(PosOf(got)) \in Nat /\ DOMAIN PosOf(got) = 1..Len(PosOf(got))
  BY <1>4, LenProperties
<1>6. Len(PosOf(got)) = Len(got)
  BY <1>1, <1>4, <1>5
<1> QED
  BY <1>1, <1>4, <1>6 DEF PosOf

(* Another chunk adds its position at the end.                              *)
LEMMA PosAppend ==
    ASSUME NEW got \in Seq([pos : Nat, idx : Nat]), NEW r \in [pos : Nat, idx : Nat]
    PROVE  PosOf(Append(got, r)) = Append(PosOf(got), r.pos)
<1> DEFINE S == [pos : Nat, idx : Nat]
           a == Append(got, r)
<1>1. a \in Seq(S) /\ Len(a) = Len(got) + 1 /\ a[Len(got) + 1] = r /\ Len(got) \in Nat
      /\ \A i \in 1..Len(got) : a[i] = got[i]
  <2> SUFFICES ASSUME NEW T, NEW s \in Seq(T), NEW e \in T
               PROVE  /\ Append(s, e) \in Seq(T) /\ Len(Append(s, e)) = Len(s) + 1
                      /\ Append(s, e)[Len(s) + 1] = e /\ Len(s) \in Nat
                      /\ \A i \in 1..Len(s) : Append(s, e)[i] = s[i]
    OBVIOUS
  <2> QED
    OBVIOUS
<1>2. /\ PosOf(got) \in Seq(Nat) /\ Len(PosOf(got)) = Len(got)
      /\ \A i \in 1..Len(got) : PosOf(got)[i] = got[i].pos
  BY PosType
<1>3. /\ Append(PosOf(got), r.pos) \in Seq(Nat)
      /\ Len(Append(PosOf(got), r.pos)) = Len(got) + 1
      /\ Append(PosOf(got), r.pos)[Len(got) + 1] = r.pos
      /\ \A i \in 1..Len(got) : Append(PosOf(got), r.pos)[i] = PosOf(got)[i]
  BY <1>1, <1>2
<1>4. /\ PosOf(a) \in Seq(Nat) /\ Len(PosOf(a)) = Len(a)
      /\ \A i \in 1..Len(a) : PosOf(a)[i] = a[i].pos
  BY <1>1, PosType
<1> HIDE DEF a, S
<1>5. \A i \in 1..Len(PosOf(a)) : PosOf(a)[i] = Append(PosOf(got), r.pos)[i]
  <2> TAKE i \in 1..Len(PosOf(a))
  <2>1. i \in 1..Len(got) \/ i = Len(got) + 1
    BY <1>1, <1>4
  <2>2. PosOf(a)[i] = a[i].pos
    BY <1>4
  <2> QED
    BY <1>1, <1>2, <1>3, <2>1, <2>2
<1>6. PosOf(a) = Append(PosOf(got), r.pos)
  BY <1>1, <1>3, <1>4, <1>5, SeqEqual
<1> QED
  BY <1>6 DEF a

(* A chunk arrives: a step of the pipe. *)
LEMMA PipeReceives ==
    ASSUME IInv, NoChunkBehind, Arrivals, NEW f \in net, f.kind = "chunk",
           srvGot' = Append(srvGot, [pos |-> f.pos, idx |-> f.idx]),
           UNCHANGED <<accepted, srvTotal, upc>>
    PROVE  Pipe!Receive
<1> DEFINE r == [pos |-> f.pos, idx |-> f.idx]
           got == PosOf(srvGot)
<1>1. srvTotal = {}
  BY DEF NoChunkBehind
<1>2. r \in [pos : Nat, idx : Nat] /\ r.pos = f.pos /\ f.pos \in Nat
  BY Positions
<1>3. PosOf(srvGot') = Append(got, f.pos)
  BY <1>2, Positions, PosAppend
<1>4. /\ Len(got) = Len(srvGot) /\ Len(srvGot) \in Nat
      /\ \A i \in 1..Len(srvGot) : got[i] = srvGot[i].pos
      /\ got = <<>> <=> Len(srvGot) = 0
  <2>1. /\ got \in Seq(Nat) /\ Len(got) = Len(srvGot) /\ Len(srvGot) \in Nat
        /\ \A i \in 1..Len(srvGot) : got[i] = srvGot[i].pos
    BY Positions, PosType
  <2> QED
    BY <2>1, EmptySeq
<1> HIDE DEF got
<1> DEFINE newest == IF got = <<>> THEN 0 ELSE got[Len(got)]
<1>5. newest < f.pos /\ f.pos <= accepted /\ newest \in Nat
  <2>1. f.pos <= accepted
    BY DEF Arrivals
  <2>2. CASE got = <<>>
    <3>1. f.pos # 0
      BY <1>2 DEF Arrivals
    <3> QED
      BY <1>2, <2>1, <2>2, <3>1
  <2>3. CASE got # <<>>
    <3>1. Len(srvGot) \in 1..Len(srvGot)
      BY <1>4, <2>3
    <3>2. srvGot[Len(srvGot)].pos < f.pos /\ srvGot[Len(srvGot)].pos \in Nat
      BY <3>1, Positions DEF Arrivals
    <3> QED
      BY <1>4, <2>1, <2>3, <3>1, <3>2
  <2> QED
    BY <2>2, <2>3
<1>6. f.pos \in (newest + 1)..accepted
  BY <1>2, <1>5, Positions
<1> QED
  BY <1>1, <1>3, <1>6 DEF Pipe!Receive, Pipe!Newest, PosOf, got, Returned

(* Every step of the upload is a step of the pipe, or leaves it unchanged.  *)
LEMMA PipeNext ==
    IInv /\ ReadAndTaken /\ NoChunkBehind /\ Arrivals /\ [Next]_vars => [Pipe!Next]_(Pipe!vars)
<1> SUFFICES ASSUME IInv, ReadAndTaken, NoChunkBehind, Arrivals, [Next]_vars
             PROVE  [Pipe!Next]_(Pipe!vars)
  OBVIOUS
<1> USE DEF uploader, sessionVars, wire, server, history
<1>1. CASE EnqueueChunk
  <2>1. /\ upc = "enqueue" /\ upc' = "bump" /\ accepted' = accepted + 1
        /\ UNCHANGED <<srvGot, srvTotal>>
    BY <1>1 DEF EnqueueChunk
  <2>2. accepted < Chunks
    BY <2>1, ParamAssumption DEF ReadAndTaken, InHand, IInv, TypeOK
  <2>3. Pipe!Accept
    BY <2>1, <2>2 DEF Pipe!Accept, Returned
  <2> QED
    BY <2>3 DEF Pipe!Next
<1>2. CASE SrvReceive
  <2>1. PICK f \in net :
           \/ UNCHANGED <<srvGot, srvTotal>>
           \/ /\ f.kind = "chunk" /\ UNCHANGED srvTotal
              /\ srvGot' = Append(srvGot, [pos |-> f.pos, idx |-> f.idx])
           \/ f.kind = "end" /\ srvTotal' = srvTotal \cup {f.idx} /\ UNCHANGED srvGot
    BY <1>2 DEF SrvReceive
  <2>2. UNCHANGED <<accepted, upc>>
    BY <1>2 DEF SrvReceive
  <2>3. CASE UNCHANGED <<srvGot, srvTotal>>
    BY <2>2, <2>3 DEF Pipe!vars, Returned
  <2>4. CASE /\ f.kind = "chunk" /\ UNCHANGED srvTotal
             /\ srvGot' = Append(srvGot, [pos |-> f.pos, idx |-> f.idx])
    BY <2>2, <2>4, PipeReceives DEF Pipe!Next
  <2>5. CASE f.kind = "end" /\ srvTotal' = srvTotal \cup {f.idx} /\ UNCHANGED srvGot
    <3>1. accepted = Chunks
      BY <2>5 DEF NoChunkBehind, ReadAndTaken, Ended, InHand
    <3>2. srvTotal' # {}
      BY <2>5
    <3>3. Pipe!End
      BY <2>2, <2>5, <3>1, <3>2 DEF Pipe!End, Returned
    <3> QED
      BY <3>3 DEF Pipe!Next
  <2> QED
    BY <2>1, <2>3, <2>4, <2>5
<1>3. CASE SendInit \/ RegisterFails \/ ReadNothing \/ AckTimeout \/ BumpIndex
  <2>1. UNCHANGED <<accepted, srvGot, srvTotal>>
    BY <1>3 DEF SendInit, RegisterFails, ReadNothing, AckTimeout, BumpIndex
  <2>2. ~Returned /\ upc' # "ok"
    BY <1>3 DEF SendInit, RegisterFails, ReadNothing, AckTimeout, BumpIndex, Returned
  <2>3. CASE upc' = "failed"
    <3>1. Pipe!Return
      BY <2>1, <2>2, <2>3 DEF Pipe!Return, Returned
    <3> QED
      BY <3>1 DEF Pipe!Next
  <2>4. CASE upc' # "failed"
    BY <2>1, <2>2, <2>4 DEF Pipe!vars, Returned
  <2> QED
    BY <2>3, <2>4
<1>4. CASE Finish
  <2>1. upc = "cleanup" /\ upc' = "ok" /\ UNCHANGED <<accepted, srvGot, srvTotal>>
    BY <1>4 DEF Finish
  <2>2. accepted = Chunks
    BY <2>1 DEF ReadAndTaken, InHand, Ended
  <2>3. Pipe!Return
    BY <2>1, <2>2 DEF Pipe!Return, Returned
  <2> QED
    BY <2>3 DEF Pipe!Next
<1>5. CASE RegisterSession \/ ReadChunk \/ CheckWindow \/ TakeAck \/ SendEnd
  <2>1. UNCHANGED <<accepted, srvGot, srvTotal>> /\ ~Returned /\ ~Returned'
    BY <1>5 DEF RegisterSession, ReadChunk, CheckWindow, TakeAck, SendEnd, Returned
  <2> QED
    BY <2>1 DEF Pipe!vars
<1>6. CASE \/ SendLoop \/ HandleAck \/ HandleInitAck \/ OtherTraffic \/ SendFails \/ Lose \/ Close
           \/ SrvAck \/ SrvAckBatch \/ SrvRefuse \/ UNCHANGED vars
  <2>1. UNCHANGED <<accepted, srvGot, srvTotal, upc>>
    BY <1>6 DEF SendLoop, HandleAck, HandleInitAck, OtherTraffic, SendFails, Lose, Close, SrvAck,
       SrvAckBatch, SrvRefuse, vars
  <2> QED
    BY <2>1 DEF Pipe!vars, Returned
<1> QED
  BY <1>1, <1>2, <1>3, <1>4, <1>5, <1>6 DEF Next, Upload, Client, Environment

(* The upload implements the lossy pipe: the server gets chunks of the file *)
(* in file order, the end of the stream behind all of them, and the caller  *)
(* hears of success only when every chunk has been accepted for sending.    *)
THEOREM ImplementsThePipe == Spec => ImplementsPipe
<1> DEFINE T == ReadAndTaken /\ NoChunkBehind /\ Arrivals
<1>1. Init => T
  BY DEF Init, ReadAndTaken, NoChunkBehind, Arrivals, InHand, Ended
<1>2. IInv /\ T /\ [Next]_vars => T'
  BY NextReadAndTaken, NextNoChunkBehind, NextArrivals
<1>3. Init => Pipe!Init
  BY DEF Init, Pipe!Init, Returned
<1>4. IInv /\ T /\ [Next]_vars => [Pipe!Next]_(Pipe!vars)
  BY PipeNext
<1> HIDE DEF T
<1> QED
  BY <1>1, <1>2, <1>3, <1>4, InvariantHolds, PTL DEF Spec, ImplementsPipe, Pipe!Spec
=============================================================================
