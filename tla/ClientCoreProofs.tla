-------------------------- MODULE ClientCoreProofs --------------------------
(***************************************************************************)
(* Proofs about ClientCore, for any queue capacities, round trip times and *)
(* chunk sizes: its types, that a frame is overtaken once at most, that a  *)
(* frame has one owner, and that the window follows the measured times.    *)
(***************************************************************************)
EXTENDS ClientCore, TLAPS

-----------------------------------------------------------------------------
(* Types. *)

(* What Enqueue does to the queues. *)
LEMMA EnqueueType ==
    ASSUME TypeOK, NEW f \in Frames, NEW p \in Prios, Enqueue(f, p)
    PROVE  /\ queue' \in [Prios -> Seq(Frames)] /\ \A q \in Prios : Len(queue'[q]) <= Cap[q]
           /\ pool' \in 0..2
<1>1. /\ queue \in [Prios -> Seq(Frames)] /\ \A q \in Prios : Len(queue[q]) <= Cap[q]
      /\ pool \in 0..2
  BY DEF TypeOK
<1>2. CASE Len(queue[p]) < Cap[p]
  <2>1. queue' = [queue EXCEPT ![p] = Append(@, f)] /\ pool' = pool
    BY <1>2 DEF Enqueue
  <2>2. Append(queue[p], f) \in Seq(Frames) /\ Len(Append(queue[p], f)) = Len(queue[p]) + 1
        /\ Len(queue[p]) \in Nat
    BY <1>1
  <2>3. Cap[p] \in Nat
    BY ClientAssumption DEF Cap, Prios
  <2>4. Len(Append(queue[p], f)) <= Cap[p]
    BY <1>2, <2>2, <2>3
  <2>5. queue' \in [Prios -> Seq(Frames)]
    BY <1>1, <2>1, <2>2
  <2>6. \A q \in Prios : Len(queue'[q]) <= Cap[q]
    BY <1>1, <2>1, <2>4
  <2> QED
    BY <1>1, <2>1, <2>5, <2>6
<1>3. CASE ~(Len(queue[p]) < Cap[p])
  BY <1>1, <1>3 DEF Enqueue, PutFrame
<1> QED
  BY <1>2, <1>3

LEMMA TakeType ==
    ASSUME TypeOK, NEW p \in Prios, Take(p)
    PROVE  /\ queue' \in [Prios -> Seq(Frames)] /\ \A q \in Prios : Len(queue'[q]) <= Cap[q]
           /\ sending' \in Frames /\ stage' = "send" /\ overtakes' \in [Prios -> Nat]
<1>1. /\ queue \in [Prios -> Seq(Frames)] /\ \A q \in Prios : Len(queue[q]) <= Cap[q]
      /\ overtakes \in [Prios -> Nat]
  BY DEF TypeOK
<1>2. /\ queue[p] # <<>> /\ queue' = [queue EXCEPT ![p] = Tail(@)]
      /\ sending' = Head(queue[p]) /\ stage' = "send"
  BY DEF Take
<1>3. /\ Head(queue[p]) \in Frames /\ Tail(queue[p]) \in Seq(Frames)
      /\ Len(Tail(queue[p])) = Len(queue[p]) - 1 /\ Len(queue[p]) \in Nat /\ Cap[p] \in Nat
  BY <1>1, <1>2, ClientAssumption DEF Cap, Prios
<1>4. Len(Tail(queue[p])) <= Cap[p]
  BY <1>1, <1>3
<1>5. queue' \in [Prios -> Seq(Frames)]
  BY <1>1, <1>2, <1>3
<1>6. \A q \in Prios : Len(queue'[q]) <= Cap[q]
  BY <1>1, <1>2, <1>4
<1>7. overtakes' \in [Prios -> Nat]
  BY <1>1 DEF Take
<1> QED
  BY <1>2, <1>3, <1>5, <1>6, <1>7

LEMMA GetFrameType ==
    ASSUME TypeOK, NEW f \in Frames, GetFrame(f) PROVE pool' \in 0..2
BY DEF TypeOK, GetFrame

LEMMA PutFrameType ==
    ASSUME TypeOK, NEW f, PutFrame(f) PROVE pool' \in 0..2
BY DEF TypeOK, PutFrame

(* The average of two naturals is one. *)
LEMMA SmoothType == \A old, rtt \in Nat : Smooth(old, rtt) \in Nat
BY DEF Smooth

(* heartbeatLoop has a frame when it sends one. *)
BeatHolds == beat = "enqueue" => beatFrame \in Frames

LEMMA InitType == Init => TypeOK /\ BeatHolds
<1> SUFFICES ASSUME Init PROVE TypeOK /\ BeatHolds
  OBVIOUS
<1>1. <<>> \in Seq(Frames) /\ Len(<<>>) = 0 /\ \A p \in Prios : Cap[p] \in Nat
  BY ClientAssumption DEF Cap, Prios
<1>2. queue \in [Prios -> Seq(Frames)]
  BY <1>1 DEF Init
<1>3. \A p \in Prios : Len(queue[p]) <= Cap[p]
  <2> SUFFICES ASSUME NEW p \in Prios PROVE Len(queue[p]) <= Cap[p]
    OBVIOUS
  <2>1. queue[p] = <<>>
    BY DEF Init
  <2>2. Len(queue[p]) = 0 /\ Cap[p] \in Nat
    BY <1>1, <2>1
  <2> QED
    BY <2>2
<1>4. overtakes \in [Prios -> Nat]
  BY DEF Init
<1>5. /\ stage = "high" /\ sending = "none" /\ beat = "idle" /\ beatFrame = "none"
      /\ reader = "idle" /\ readFrame = "none" /\ kind \in Kinds /\ ackSeen = FALSE
      /\ pinged = FALSE /\ smoothed \in Nat /\ pool \in 0..2 /\ close = "no"
  BY DEF Init, Kinds
<1>6. TypeOK
  BY <1>2, <1>3, <1>4, <1>5 DEF TypeOK
<1>7. BeatHolds
  BY <1>5 DEF BeatHolds
<1> QED
  BY <1>6, <1>7

(* The types are kept by every step. *)
LEMMA NextType == TypeOK /\ BeatHolds /\ [Next]_vars => TypeOK' /\ BeatHolds'
<1> SUFFICES ASSUME TypeOK, BeatHolds, [Next]_vars PROVE TypeOK' /\ BeatHolds'
  OBVIOUS
<1> USE DEF sendVars, beatVars, readVars, rttVars
<1>1. ASSUME NEW here, NEW p \in Prios, NEW next \in {"normal", "any"}, SelectOne(here, p, next)
      PROVE  TypeOK' /\ BeatHolds'
  <2>1. UNCHANGED <<beatVars, readVars, rttVars, pool, close>>
    BY <1>1 DEF SelectOne
  <2>2. CASE Take(p)
    <3>1. /\ queue' \in [Prios -> Seq(Frames)] /\ \A q \in Prios : Len(queue'[q]) <= Cap[q]
          /\ sending' \in Frames /\ stage' = "send" /\ overtakes' \in [Prios -> Nat]
      BY <2>2, TakeType
    <3> QED
      BY <2>1, <3>1 DEF TypeOK, BeatHolds
  <2>3. CASE stage' = next /\ UNCHANGED <<queue, sending, overtakes>>
    BY <2>1, <2>3 DEF TypeOK, BeatHolds
  <2> QED
    BY <1>1, <2>2, <2>3 DEF SelectOne
<1>2. CASE SelectAny
  <2>1. PICK p \in Prios : Take(p)
    BY <1>2 DEF SelectAny
  <2>2. /\ queue' \in [Prios -> Seq(Frames)] /\ \A q \in Prios : Len(queue'[q]) <= Cap[q]
        /\ sending' \in Frames /\ stage' = "send" /\ overtakes' \in [Prios -> Nat]
    BY <2>1, TakeType
  <2> QED
    BY <1>2, <2>2 DEF TypeOK, BeatHolds, SelectAny
<1>3. CASE Sent
  <2>1. pool' \in 0..2
    <3>1. pool' = pool \/ PutFrame(sending)
      BY <1>3 DEF Sent
    <3> QED
      BY <3>1, PutFrameType DEF TypeOK
  <2> QED
    BY <1>3, <2>1 DEF TypeOK, BeatHolds, Sent
<1>4. CASE SendLoopStops
  BY <1>4 DEF TypeOK, BeatHolds, SendLoopStops
<1>5. CASE Tick
  <2>1. PICK f \in Frames : GetFrame(f) /\ beatFrame' = f
    BY <1>5 DEF Tick
  <2>2. pool' \in 0..2
    BY <2>1, GetFrameType
  <2> QED
    BY <1>5, <2>1, <2>2 DEF TypeOK, BeatHolds, Tick
<1>6. CASE Beat
  <2>1. /\ beatFrame \in Frames /\ 0 \in Prios /\ Enqueue(beatFrame, 0)
        /\ beat' = "idle" /\ beatFrame' = "none"
        /\ UNCHANGED <<stage, sending, overtakes, readVars, rttVars, close>>
    BY <1>6 DEF Beat, BeatHolds, Prios
  <2>2. /\ queue' \in [Prios -> Seq(Frames)] /\ \A q \in Prios : Len(queue'[q]) <= Cap[q]
        /\ pool' \in 0..2
    BY <2>1, EnqueueType
  <2> QED
    BY <2>1, <2>2 DEF TypeOK, BeatHolds
<1>7. ASSUME NEW p \in Prios, AppSends(p) PROVE TypeOK' /\ BeatHolds'
  <2>1. /\ \E f \in Frames : Enqueue(f, p)
        /\ UNCHANGED <<stage, sending, overtakes, beatVars, readVars, rttVars, close>>
    BY <1>7 DEF AppSends
  <2>2. /\ queue' \in [Prios -> Seq(Frames)] /\ \A q \in Prios : Len(queue'[q]) <= Cap[q]
        /\ pool' \in 0..2
    BY <2>1, EnqueueType
  <2> QED
    BY <2>1, <2>2 DEF TypeOK, BeatHolds
<1>8. CASE BeatStops
  BY <1>8 DEF TypeOK, BeatHolds, BeatStops
<1>9. CASE Receive
  <2>1. PICK f \in Frames : GetFrame(f) /\ readFrame' = f
    BY <1>9 DEF Receive
  <2>2. pool' \in 0..2
    BY <2>1, GetFrameType
  <2> QED
    BY <1>9, <2>1, <2>2 DEF TypeOK, BeatHolds, Receive
<1>10. CASE Handle
  <2>1. pool' \in 0..2
    <3>1. pool' = pool \/ PutFrame(readFrame)
      BY <1>10 DEF Handle
    <3> QED
      BY <3>1, PutFrameType DEF TypeOK
  <2>2. pinged' \in BOOLEAN /\ smoothed' \in Nat
    <3>1. pinged \in BOOLEAN /\ smoothed \in Nat
      BY DEF TypeOK
    <3>2. CASE RecordPong /\ pinged
      <4>1. PICK rtt \in Samples : smoothed' = Smooth(smoothed, rtt)
        BY <3>2 DEF RecordPong
      <4>2. rtt \in Nat
        BY ClientAssumption
      <4> QED
        BY <3>1, <3>2, <4>1, <4>2, SmoothType DEF RecordPong
    <3>3. CASE ~(RecordPong /\ pinged)
      BY <1>10, <3>1, <3>3 DEF Handle, RecordPong
    <3> QED
      BY <3>2, <3>3
  <2> QED
    BY <1>10, <2>1, <2>2 DEF TypeOK, BeatHolds, Handle
<1>11. CASE HandlePut
  <2>1. pool' \in 0..2
    BY <1>11, PutFrameType DEF HandlePut
  <2> QED
    BY <1>11, <2>1 DEF TypeOK, BeatHolds, HandlePut, Kinds
<1>12. CASE CloseTransport \/ CloseCancel
  BY <1>12 DEF TypeOK, BeatHolds, CloseTransport, CloseCancel
<1>13. CASE UNCHANGED vars
  BY <1>13 DEF TypeOK, BeatHolds, vars
<1>14. 0 \in Prios /\ 1 \in Prios
  BY DEF Prios
<1> QED
  BY <1>1, <1>2, <1>3, <1>4, <1>5, <1>6, <1>7, <1>8, <1>9, <1>10, <1>11, <1>12, <1>13, <1>14
     DEF Next, SendLoop, SelectHigh, SelectNormal

(* Every variable has its type, in every behaviour. *)
LEMMA TypeInvariant == Spec => [](TypeOK /\ BeatHolds)
<1> QED
  BY InitType, NextType, PTL DEF Spec

(* Every variable of the client keeps its type. *)
THEOREM TypeCorrect == Spec => []TypeOK
BY TypeInvariant, PTL

-----------------------------------------------------------------------------
(* Overtaking. *)

(* A queue that is passed over was empty, and the head of an empty queue has *)
(* not been overtaken: so sendLoop reaches the select in which it may pick a *)
(* lower queue only with a higher one that no frame has overtaken.           *)
NotYetOvertaken ==
    /\ \A p \in Prios : queue[p] = <<>> => overtakes[p] = 0
    /\ stage \in {"normal", "any"} => overtakes[0] = 0
    /\ stage = "any" => overtakes[1] = 0
    /\ overtakes[2] = 0
    /\ AtMostOneOvertakes

LEMMA TakeOvertakes ==
    ASSUME TypeOK, NotYetOvertaken, NEW p \in Prios, Take(p),
           \A q \in Prios : q < p => overtakes[q] = 0
    PROVE  NotYetOvertaken'
<1>1. /\ stage' = "send"
      /\ \A q \in Prios : overtakes'[q] =
             IF q = p \/ queue[q] = <<>> THEN 0
             ELSE IF q < p THEN overtakes[q] + 1 ELSE overtakes[q]
      /\ \A q \in Prios : q # p => queue'[q] = queue[q]
  BY DEF Take, TypeOK
<1>2. /\ \A q \in Prios : queue[q] = <<>> \/ q = p => overtakes'[q] = 0
      /\ \A q \in Prios : overtakes'[q] <= 1
      /\ overtakes'[2] = 0
  BY <1>1 DEF NotYetOvertaken, AtMostOneOvertakes, Prios
<1>3. \A q \in Prios : queue'[q] = <<>> => overtakes'[q] = 0
  BY <1>1, <1>2
<1> QED
  BY <1>1, <1>2, <1>3 DEF NotYetOvertaken, AtMostOneOvertakes

(* A frame more in a queue. *)
LEMMA EnqueueOvertakes ==
    ASSUME TypeOK, NotYetOvertaken, NEW f \in Frames, NEW p \in Prios, Enqueue(f, p),
           UNCHANGED <<stage, overtakes>>
    PROVE  NotYetOvertaken'
<1>1. \A q \in Prios : queue'[q] = <<>> => queue[q] = <<>>
  <2>1. CASE queue' = queue
    BY <2>1
  <2>2. CASE queue' = [queue EXCEPT ![p] = Append(@, f)]
    <3>1. queue[p] \in Seq(Frames) /\ queue \in [Prios -> Seq(Frames)]
      BY DEF TypeOK
    <3>2. Append(queue[p], f) # <<>>
      BY <3>1
    <3> QED
      BY <2>2, <3>1, <3>2
  <2> QED
    BY <2>1, <2>2 DEF Enqueue
<1> QED
  BY <1>1 DEF NotYetOvertaken, AtMostOneOvertakes

LEMMA InitOvertakes == Init => NotYetOvertaken
BY DEF Init, NotYetOvertaken, AtMostOneOvertakes, Prios

LEMMA NextOvertakes ==
    TypeOK /\ BeatHolds /\ NotYetOvertaken /\ [Next]_vars => NotYetOvertaken'
<1> SUFFICES ASSUME TypeOK, BeatHolds, NotYetOvertaken, [Next]_vars PROVE NotYetOvertaken'
  OBVIOUS
<1> USE DEF sendVars, beatVars, readVars, rttVars
<1>1. CASE SelectHigh
  <2>1. CASE Take(0)
    <3>1. \A q \in Prios : q < 0 => overtakes[q] = 0
      BY DEF Prios
    <3> QED
      BY <2>1, <3>1, TakeOvertakes DEF Prios
  <2>2. CASE queue[0] = <<>> /\ stage' = "normal" /\ UNCHANGED <<queue, sending, overtakes>>
    BY <2>2 DEF NotYetOvertaken, AtMostOneOvertakes, Prios
  <2> QED
    BY <1>1, <2>1, <2>2 DEF SelectHigh, SelectOne
<1>2. CASE SelectNormal
  <2>1. overtakes[0] = 0
    BY <1>2 DEF SelectNormal, SelectOne, NotYetOvertaken
  <2>2. CASE Take(1)
    <3>1. \A q \in Prios : q < 1 => overtakes[q] = 0
      BY <2>1 DEF Prios
    <3> QED
      BY <2>2, <3>1, TakeOvertakes DEF Prios
  <2>3. CASE queue[1] = <<>> /\ stage' = "any" /\ UNCHANGED <<queue, sending, overtakes>>
    BY <2>1, <2>3 DEF NotYetOvertaken, AtMostOneOvertakes, Prios
  <2> QED
    BY <1>2, <2>2, <2>3 DEF SelectNormal, SelectOne
<1>3. CASE SelectAny
  <2>1. PICK p \in Prios : Take(p)
    BY <1>3 DEF SelectAny
  <2>2. overtakes[0] = 0 /\ overtakes[1] = 0
    BY <1>3 DEF SelectAny, NotYetOvertaken
  <2>3. \A q \in Prios : q < p => overtakes[q] = 0
    BY <2>2 DEF Prios
  <2> QED
    BY <2>1, <2>3, TakeOvertakes
<1>4. CASE Beat
  <2>1. beatFrame \in Frames /\ 0 \in Prios /\ Enqueue(beatFrame, 0) /\ UNCHANGED <<stage, overtakes>>
    BY <1>4 DEF Beat, BeatHolds, Prios
  <2> QED
    BY <2>1, EnqueueOvertakes
<1>5. ASSUME NEW p \in Prios, AppSends(p) PROVE NotYetOvertaken'
  <2>1. (\E f \in Frames : Enqueue(f, p)) /\ UNCHANGED <<stage, overtakes>>
    BY <1>5 DEF AppSends
  <2> QED
    BY <2>1, EnqueueOvertakes
<1>6. CASE Sent \/ SendLoopStops
  <2>1. UNCHANGED <<queue, overtakes>> /\ stage' \notin {"normal", "any"}
    BY <1>6 DEF Sent, SendLoopStops
  <2> QED
    BY <2>1 DEF NotYetOvertaken, AtMostOneOvertakes
<1>7. CASE \/ Tick \/ BeatStops \/ Receive \/ Handle \/ HandlePut \/ CloseTransport
           \/ CloseCancel \/ UNCHANGED vars
  <2>1. UNCHANGED <<queue, overtakes, stage>>
    BY <1>7 DEF Tick, BeatStops, Receive, Handle, HandlePut, CloseTransport, CloseCancel, vars
  <2> QED
    BY <2>1 DEF NotYetOvertaken, AtMostOneOvertakes
<1> QED
  BY <1>1, <1>2, <1>3, <1>4, <1>5, <1>6, <1>7 DEF Next, SendLoop

(* A frame at the head of its queue sees one frame of lower priority at most *)
(* go out first, whatever the capacities.                                    *)
THEOREM OvertakenOnce == Spec => []AtMostOneOvertakes
<1>1. NotYetOvertaken => AtMostOneOvertakes
  BY DEF NotYetOvertaken
<1> QED
  BY <1>1, TypeInvariant, InitOvertakes, NextOvertakes, PTL DEF Spec

-----------------------------------------------------------------------------
(* The window. *)

(* The smoothed time is a measured one, or lies between two.                 *)
Between == smoothed # 0 => \E low, high \in Samples : low <= smoothed /\ smoothed <= high

(* One more sample keeps it there.                                           *)
LEMMA SmoothBetween ==
    ASSUME NEW old \in Nat, NEW rtt \in Samples,
           old # 0 => \E low, high \in Samples : low <= old /\ old <= high
    PROVE  \E low, high \in Samples : low <= Smooth(old, rtt) /\ Smooth(old, rtt) <= high
<1>1. Samples \subseteq Nat
  BY ClientAssumption
<1>2. CASE old = 0
  <2>1. Smooth(old, rtt) = rtt /\ rtt <= rtt
    BY <1>1, <1>2 DEF Smooth
  <2> QED
    BY <2>1
<1>3. CASE old # 0
  <2>1. PICK low, high \in Samples : low <= old /\ old <= high
    BY <1>3
  <2>2. PICK a \in Samples : a <= low /\ a <= rtt
    <3>1. low \in Nat /\ rtt \in Nat
      BY <1>1
    <3>2. low <= rtt \/ rtt <= low
      BY <3>1
    <3> QED
      BY <3>1, <3>2
  <2>3. PICK b \in Samples : high <= b /\ rtt <= b
    <3>1. high \in Nat /\ rtt \in Nat
      BY <1>1
    <3>2. high <= rtt \/ rtt <= high
      BY <3>1
    <3> QED
      BY <3>1, <3>2
  <2>4. a \in Nat /\ b \in Nat /\ rtt \in Nat /\ low \in Nat /\ high \in Nat
    BY <1>1
  <2>5. 8 * a <= 7 * old + rtt /\ 7 * old + rtt <= 8 * b
    BY <2>1, <2>2, <2>3, <2>4
  <2>6. a <= (7 * old + rtt) \div 8 /\ (7 * old + rtt) \div 8 <= b
    BY <2>4, <2>5
  <2> QED
    BY <1>3, <2>6 DEF Smooth
<1> QED
  BY <1>2, <1>3

LEMMA NextBetween == TypeOK /\ Between /\ [Next]_vars => Between'
<1> SUFFICES ASSUME TypeOK, Between, [Next]_vars PROVE Between'
  OBVIOUS
<1>1. CASE smoothed' = smoothed
  BY <1>1 DEF Between
<1>2. CASE Handle /\ smoothed' # smoothed
  <2>1. PICK rtt \in Samples : smoothed' = Smooth(smoothed, rtt)
    BY <1>2 DEF Handle, RecordPong, rttVars
  <2>2. \E low, high \in Samples : low <= Smooth(smoothed, rtt) /\ Smooth(smoothed, rtt) <= high
    BY SmoothBetween DEF TypeOK, Between
  <2> QED
    BY <2>1, <2>2 DEF Between
<1> QED
  BY <1>1, <1>2 DEF Next, SendLoop, SelectHigh, SelectNormal, SelectOne, SelectAny, Sent,
     SendLoopStops, Tick, Beat, BeatStops, Receive, HandlePut, CloseTransport, CloseCancel,
     AppSends, rttVars, vars

(* A longer time never asks for a smaller window. *)
LEMMA WindowMonotone ==
    ASSUME NEW a \in Nat \ {0}, NEW b \in Nat \ {0}, a <= b
    PROVE  WindowFor(a) <= WindowFor(b) /\ WindowFor(a) \in 32..256
<1> DEFINE x == BytesPerUnit * a
           y == BytesPerUnit * b
<1>1. BytesPerUnit \in Nat /\ ChunkSize \in Nat \ {0}
  BY ClientAssumption
<1>2. x \in Nat /\ y \in Nat /\ x <= y
  BY <1>1
<1> HIDE DEF x, y
<1>3. x \div ChunkSize <= y \div ChunkSize /\ x \div ChunkSize \in Int /\ y \div ChunkSize \in Int
  BY <1>1, <1>2
<1>4. \A m, n \in Int : m <= n => Clamp(m) <= Clamp(n) /\ Clamp(m) \in 32..256
  BY DEF Clamp
<1> QED
  BY <1>3, <1>4 DEF WindowFor, x, y

(* The window stays among those the measured times ask for. *)
THEOREM WindowWithinSamples == Spec => []WindowFollowsSamples
<1>1. Init => Between
  BY DEF Init, Between
<1>2. TypeOK /\ Between => WindowFollowsSamples
  <2> SUFFICES ASSUME TypeOK, Between, smoothed # 0
               PROVE  /\ WindowFor(smoothed) \in 32..256
                      /\ \E low, high \in Samples : WindowFor(low) <= WindowFor(smoothed)
                                                /\ WindowFor(smoothed) <= WindowFor(high)
    BY DEF WindowFollowsSamples
  <2>1. PICK low, high \in Samples : low <= smoothed /\ smoothed <= high
    BY DEF Between
  <2>2. low \in Nat \ {0} /\ high \in Nat \ {0} /\ smoothed \in Nat \ {0}
    BY ClientAssumption DEF TypeOK
  <2> QED
    BY <2>1, <2>2, WindowMonotone
<1> QED
  BY <1>1, <1>2, NextBetween, TypeCorrect, PTL DEF Spec

-----------------------------------------------------------------------------
(* The owner of a frame. *)

XQueued == \E p \in Prios : \E i \in DOMAIN queue[p] : queue[p][i] = "x"

XQueuedOnce ==
    \A p, q \in Prios : \A i \in DOMAIN queue[p], j \in DOMAIN queue[q] :
        queue[p][i] = "x" /\ queue[q][j] = "x" => p = q /\ i = j

(* OneOwner without the set of owners: each place excludes the others. *)
SoleOwner ==
    /\ XQueuedOnce
    /\ XQueued => sending # "x" /\ beatFrame # "x" /\ readFrame # "x" /\ pool = 0
    /\ sending = "x" => beatFrame # "x" /\ readFrame # "x" /\ pool = 0
    /\ beatFrame = "x" => readFrame # "x" /\ pool = 0
    /\ readFrame = "x" => pool = 0
    /\ pool <= 1

(* The owners, one kind after the other. *)
LEMMA OwnersAre ==
    \A a : a \in Owners <=>
        \/ \E p \in Prios : \E i \in DOMAIN queue[p] : a = <<"queue", p, i>> /\ queue[p][i] = "x"
        \/ a = <<"sendLoop", 0, 0>> /\ sending = "x"
        \/ a = <<"heartbeatLoop", 0, 0>> /\ beatFrame = "x"
        \/ a = <<"reader", 0, 0>> /\ readFrame = "x"
<1> SUFFICES ASSUME NEW a
             PROVE  a \in Owners <=>
                \/ \E p \in Prios : \E i \in DOMAIN queue[p] :
                       a = <<"queue", p, i>> /\ queue[p][i] = "x"
                \/ a = <<"sendLoop", 0, 0>> /\ sending = "x"
                \/ a = <<"heartbeatLoop", 0, 0>> /\ beatFrame = "x"
                \/ a = <<"reader", 0, 0>> /\ readFrame = "x"
  OBVIOUS
<1>1. a \in Owners <=>
         \/ \E p \in Prios : a \in Places(p)
         \/ a \in HeldBy("sendLoop", sending)
         \/ a \in HeldBy("heartbeatLoop", beatFrame)
         \/ a \in HeldBy("reader", readFrame)
  BY DEF Owners
<1>2. \A p \in Prios : a \in Places(p) <=>
          \E i \in DOMAIN queue[p] : a = <<"queue", p, i>> /\ queue[p][i] = "x"
  BY DEF Places
<1>3. \A who, f : a \in HeldBy(who, f) <=> a = <<who, 0, 0>> /\ f = "x"
  BY DEF HeldBy
<1> QED
  BY <1>1, <1>2, <1>3

(* x can only be allocated when no place refers to it. *)
LEMMA NobodyOwns ==
    Owners = {} => ~XQueued /\ sending # "x" /\ beatFrame # "x" /\ readFrame # "x"
<1> SUFFICES ASSUME Owners = {}
             PROVE  ~XQueued /\ sending # "x" /\ beatFrame # "x" /\ readFrame # "x"
  OBVIOUS
<1>1. ASSUME NEW p \in Prios, NEW i \in DOMAIN queue[p], queue[p][i] = "x" PROVE FALSE
  BY <1>1, OwnersAre
<1>2. sending # "x" /\ beatFrame # "x" /\ readFrame # "x"
  BY OwnersAre
<1> QED
  BY <1>1, <1>2 DEF XQueued

LEMMA SoleOwnerIsOne == TypeOK /\ SoleOwner => OneOwner
<1> SUFFICES ASSUME TypeOK, SoleOwner PROVE OneOwner
  OBVIOUS
<1>1. \A a \in Owners :
         \/ \E p \in Prios : \E i \in DOMAIN queue[p] :
                a = <<"queue", p, i>> /\ queue[p][i] = "x"
         \/ a = <<"sendLoop", 0, 0>> /\ sending = "x"
         \/ a = <<"heartbeatLoop", 0, 0>> /\ beatFrame = "x"
         \/ a = <<"reader", 0, 0>> /\ readFrame = "x"
  BY OwnersAre
<1>2. ASSUME NEW a \in Owners, NEW b \in Owners PROVE a = b
  <2>1. CASE XQueued
    <3>1. sending # "x" /\ beatFrame # "x" /\ readFrame # "x"
      BY <2>1 DEF SoleOwner
    <3>2. PICK p \in Prios : \E i \in DOMAIN queue[p] :
              a = <<"queue", p, i>> /\ queue[p][i] = "x"
      BY <1>1, <3>1
    <3>3. PICK i \in DOMAIN queue[p] : a = <<"queue", p, i>> /\ queue[p][i] = "x"
      BY <3>2
    <3>4. PICK q \in Prios : \E j \in DOMAIN queue[q] :
              b = <<"queue", q, j>> /\ queue[q][j] = "x"
      BY <1>1, <3>1
    <3>5. PICK j \in DOMAIN queue[q] : b = <<"queue", q, j>> /\ queue[q][j] = "x"
      BY <3>4
    <3>6. p = q /\ i = j
      BY <3>3, <3>5 DEF SoleOwner, XQueuedOnce
    <3> QED
      BY <3>3, <3>5, <3>6
  <2>2. CASE ~XQueued
    <3>1. \A c \in Owners :
             \/ c = <<"sendLoop", 0, 0>> /\ sending = "x"
             \/ c = <<"heartbeatLoop", 0, 0>> /\ beatFrame = "x"
             \/ c = <<"reader", 0, 0>> /\ readFrame = "x"
      BY <1>1, <2>2 DEF XQueued
    <3> QED
      BY <3>1 DEF SoleOwner
  <2> QED
    BY <2>1, <2>2
<1>3. Owners # {} => pool = 0
  <2> SUFFICES ASSUME NEW a \in Owners PROVE pool = 0
    OBVIOUS
  <2>1. XQueued \/ sending = "x" \/ beatFrame = "x" \/ readFrame = "x"
    BY <1>1 DEF XQueued
  <2> QED
    BY <2>1 DEF SoleOwner
<1>4. pool = 0 \/ pool = 1
  BY DEF TypeOK, SoleOwner
<1> QED
  BY <1>2, <1>3, <1>4 DEF OneOwner

(* Enqueue puts the frame in one place: the queue or the pool. *)
LEMMA EnqueueOwner ==
    ASSUME TypeOK, XQueuedOnce, NEW f \in Frames, NEW p \in Prios, Enqueue(f, p),
           f = "x" => ~XQueued /\ pool = 0
    PROVE  /\ XQueuedOnce'
           /\ f # "x" => (XQueued' => XQueued) /\ pool' = pool
           /\ f = "x" => pool' <= 1 /\ (XQueued' => pool' = 0)
<1>1. CASE Len(queue[p]) < Cap[p]
  <2>1. queue' = [queue EXCEPT ![p] = Append(@, f)] /\ pool' = pool
    BY <1>1 DEF Enqueue
  <2>2. queue[p] \in Seq(Frames) /\ queue \in [Prios -> Seq(Frames)]
    BY DEF TypeOK
  <2> DEFINE n == Len(queue[p])
  <2>3. /\ n \in Nat /\ DOMAIN queue[p] = 1..n /\ DOMAIN Append(queue[p], f) = 1..(n + 1)
        /\ \A i \in 1..n : Append(queue[p], f)[i] = queue[p][i]
        /\ Append(queue[p], f)[n + 1] = f
    BY <2>2
  <2>4. queue'[p] = Append(queue[p], f) /\ \A q \in Prios : q # p => queue'[q] = queue[q]
    BY <2>1, <2>2
  <2> HIDE DEF n
  <2>5. ASSUME NEW q \in Prios, NEW i \in DOMAIN queue'[q], queue'[q][i] = "x"
        PROVE  (i \in DOMAIN queue[q] /\ queue[q][i] = "x") \/ (q = p /\ i = n + 1 /\ f = "x")
    <3>1. CASE q = p
      <4>1. i \in 1..(n + 1) /\ Append(queue[p], f)[i] = "x"
        BY <2>3, <2>4, <2>5, <3>1
      <4>2. CASE i \in 1..n
        BY <2>3, <3>1, <4>1, <4>2
      <4>3. CASE i = n + 1
        BY <2>3, <3>1, <4>1, <4>3
      <4> QED
        BY <2>3, <4>1, <4>2, <4>3
    <3>2. CASE q # p
      BY <2>4, <2>5, <3>2
    <3> QED
      BY <3>1, <3>2
  <2>6. CASE f # "x"
    <3>1. XQueuedOnce'
      BY <2>5, <2>6 DEF XQueuedOnce
    <3>2. XQueued' => XQueued
      BY <2>5, <2>6 DEF XQueued
    <3> QED
      BY <2>1, <2>6, <3>1, <3>2
  <2>7. CASE f = "x"
    <3>1. \A q \in Prios : \A i \in DOMAIN queue'[q] : queue'[q][i] = "x" => q = p /\ i = n + 1
      BY <2>5, <2>7 DEF XQueued
    <3>2. XQueuedOnce'
      BY <3>1 DEF XQueuedOnce
    <3> QED
      BY <2>1, <2>7, <3>2
  <2> QED
    BY <2>6, <2>7
<1>2. CASE ~(Len(queue[p]) < Cap[p])
  <2>1. queue' = queue /\ PutFrame(f)
    BY <1>2 DEF Enqueue
  <2>2. XQueuedOnce' /\ (XQueued' <=> XQueued)
    BY <2>1 DEF XQueuedOnce, XQueued
  <2>3. (f # "x" => pool' = pool) /\ (f = "x" => pool' = 1)
    BY <2>1 DEF PutFrame
  <2> QED
    BY <2>2, <2>3
<1> QED
  BY <1>1, <1>2

(* sendLoop takes the frame out of the queue. *)
LEMMA TakeOwner ==
    ASSUME TypeOK, XQueuedOnce, NEW p \in Prios, Take(p)
    PROVE  /\ XQueuedOnce' /\ (XQueued' => XQueued)
           /\ sending' = "x" => XQueued /\ ~XQueued'
<1>1. /\ queue[p] # <<>> /\ sending' = Head(queue[p])
      /\ queue' = [queue EXCEPT ![p] = Tail(@)]
  BY DEF Take
<1>2. queue[p] \in Seq(Frames) /\ queue \in [Prios -> Seq(Frames)]
  BY DEF TypeOK
<1> DEFINE n == Len(queue[p])
<1>3. /\ n \in Nat \ {0} /\ DOMAIN queue[p] = 1..n /\ DOMAIN Tail(queue[p]) = 1..(n - 1)
      /\ \A i \in 1..(n - 1) : Tail(queue[p])[i] = queue[p][i + 1]
      /\ Head(queue[p]) = queue[p][1]
  BY <1>1, <1>2
<1>4. queue'[p] = Tail(queue[p]) /\ \A q \in Prios : q # p => queue'[q] = queue[q]
  BY <1>1, <1>2
<1> HIDE DEF n
<1>5. ASSUME NEW i \in DOMAIN queue'[p], queue'[p][i] = "x"
      PROVE  i \in Nat \ {0} /\ i + 1 \in DOMAIN queue[p] /\ queue[p][i + 1] = "x"
  BY <1>3, <1>4, <1>5
<1>6. ASSUME NEW q \in Prios, NEW i \in DOMAIN queue'[q], queue'[q][i] = "x", q # p
      PROVE  i \in DOMAIN queue[q] /\ queue[q][i] = "x"
  BY <1>4, <1>6
<1>7. XQueued' => XQueued
  BY <1>5, <1>6 DEF XQueued
<1>8. XQueuedOnce'
  <2> SUFFICES ASSUME NEW q \in Prios, NEW r \in Prios,
                      NEW i \in DOMAIN queue'[q], NEW j \in DOMAIN queue'[r],
                      queue'[q][i] = "x", queue'[r][j] = "x"
               PROVE  q = r /\ i = j
    BY DEF XQueuedOnce
  <2>1. CASE q = p /\ r = p
    <3>1. i + 1 = j + 1 /\ i \in Nat /\ j \in Nat
      BY <1>5, <2>1 DEF XQueuedOnce
    <3> QED
      BY <2>1, <3>1
  <2>2. CASE q = p /\ r # p
    BY <1>5, <1>6, <2>2 DEF XQueuedOnce
  <2>3. CASE q # p /\ r = p
    BY <1>5, <1>6, <2>3 DEF XQueuedOnce
  <2>4. CASE q # p /\ r # p
    BY <1>6, <2>4 DEF XQueuedOnce
  <2> QED
    BY <2>1, <2>2, <2>3, <2>4
<1>9. ASSUME sending' = "x" PROVE XQueued /\ ~XQueued'
  <2>1. queue[p][1] = "x" /\ 1 \in DOMAIN queue[p]
    BY <1>1, <1>3, <1>9
  <2>2. ASSUME NEW q \in Prios, NEW i \in DOMAIN queue'[q], queue'[q][i] = "x" PROVE FALSE
    <3>1. CASE q = p
      <4>1. i + 1 = 1 /\ i \in Nat \ {0}
        BY <1>5, <2>1, <2>2, <3>1 DEF XQueuedOnce
      <4> QED
        BY <4>1
    <3>2. CASE q # p
      BY <1>6, <2>1, <2>2, <3>2 DEF XQueuedOnce
    <3> QED
      BY <3>1, <3>2
  <2> QED
    BY <2>1, <2>2 DEF XQueued
<1> QED
  BY <1>7, <1>8, <1>9

LEMMA InitOwner == Init => SoleOwner
<1> SUFFICES ASSUME Init PROVE SoleOwner
  OBVIOUS
<1>1. \A p \in Prios : DOMAIN queue[p] = {}
  BY DEF Init
<1>2. XQueuedOnce /\ ~XQueued
  BY <1>1 DEF XQueuedOnce, XQueued
<1> QED
  BY <1>2 DEF Init, SoleOwner

(* Until a FileAck is handled, every step keeps the owner the only one. *)
LEMMA NextOwner ==
    TypeOK /\ BeatHolds /\ (ackSeen \/ SoleOwner) /\ [Next]_vars => (ackSeen \/ SoleOwner)'
<1> SUFFICES ASSUME TypeOK, BeatHolds, ackSeen \/ SoleOwner, [Next]_vars
             PROVE  (ackSeen \/ SoleOwner)'
  OBVIOUS
<1> SUFFICES ASSUME SoleOwner, ~ackSeen' PROVE SoleOwner'
  <2>1. UNCHANGED ackSeen \/ Handle
    <3>1. SendLoop \/ SendLoopStops => UNCHANGED ackSeen
      BY DEF SendLoop, SelectHigh, SelectNormal, SelectOne, SelectAny, Sent, SendLoopStops,
         readVars
    <3>2. Tick \/ Beat \/ BeatStops \/ Receive \/ HandlePut => UNCHANGED ackSeen
      BY DEF Tick, Beat, BeatStops, Receive, HandlePut, readVars
    <3>3. CloseTransport \/ CloseCancel \/ (\E p \in Prios : AppSends(p)) => UNCHANGED ackSeen
      BY DEF CloseTransport, CloseCancel, AppSends, readVars
    <3>4. UNCHANGED vars => UNCHANGED ackSeen
      BY DEF readVars, vars
    <3> QED
      BY <3>1, <3>2, <3>3, <3>4 DEF Next
  <2>2. ackSeen => ackSeen'
    BY <2>1 DEF Handle
  <2> QED
    BY <2>2
<1> USE DEF sendVars, beatVars, readVars
<1>1. ASSUME NEW p \in Prios, Take(p), UNCHANGED <<beatVars, readVars, pool>> PROVE SoleOwner'
  <2>1. /\ XQueuedOnce' /\ (XQueued' => XQueued)
        /\ sending' = "x" => XQueued /\ ~XQueued'
    BY <1>1, TakeOwner DEF SoleOwner
  <2>2. CASE sending' = "x"
    BY <1>1, <2>1, <2>2 DEF SoleOwner
  <2>3. CASE sending' # "x"
    BY <1>1, <2>1, <2>3 DEF SoleOwner
  <2> QED
    BY <2>2, <2>3
<1>2. CASE UNCHANGED <<queue, sending, beatFrame, readFrame, pool>>
  BY <1>2 DEF SoleOwner, XQueued, XQueuedOnce
<1>3. CASE Sent
  <2>1. /\ UNCHANGED <<queue, beatFrame, readFrame>> /\ sending' = "none"
        /\ pool' = pool \/ PutFrame(sending)
    BY <1>3 DEF Sent
  <2>2. XQueuedOnce' /\ (XQueued' <=> XQueued)
    BY <2>1 DEF SoleOwner, XQueued, XQueuedOnce
  <2>3. pool' = pool \/ (sending = "x" /\ pool' = pool + 1)
    BY <2>1 DEF PutFrame
  <2> QED
    BY <2>1, <2>2, <2>3 DEF SoleOwner
<1>4. CASE Tick
  <2>1. PICK f \in Frames : GetFrame(f) /\ beatFrame' = f
    BY <1>4 DEF Tick
  <2>2. UNCHANGED <<queue, sending, readFrame>>
    BY <1>4 DEF Tick
  <2>3. XQueuedOnce' /\ (XQueued' <=> XQueued)
    BY <2>2 DEF SoleOwner, XQueued, XQueuedOnce
  <2>4. f = "x" => pool' = 0 /\ ~XQueued /\ sending # "x" /\ readFrame # "x"
    BY <2>1, NobodyOwns DEF GetFrame, Allocated, SoleOwner, TypeOK
  <2>5. f # "x" => pool' = pool
    BY <2>1 DEF GetFrame
  <2> QED
    BY <2>1, <2>2, <2>3, <2>4, <2>5 DEF SoleOwner
<1>5. CASE Receive
  <2>1. PICK f \in Frames : GetFrame(f) /\ readFrame' = f
    BY <1>5 DEF Receive
  <2>2. UNCHANGED <<queue, sending, beatFrame>>
    BY <1>5 DEF Receive
  <2>3. XQueuedOnce' /\ (XQueued' <=> XQueued)
    BY <2>2 DEF SoleOwner, XQueued, XQueuedOnce
  <2>4. f = "x" => pool' = 0 /\ ~XQueued /\ sending # "x" /\ beatFrame # "x"
    BY <2>1, NobodyOwns DEF GetFrame, Allocated, SoleOwner, TypeOK
  <2>5. f # "x" => pool' = pool
    BY <2>1 DEF GetFrame
  <2> QED
    BY <2>1, <2>2, <2>3, <2>4, <2>5 DEF SoleOwner
<1>6. CASE Beat
  <2>1. /\ beatFrame \in Frames /\ 0 \in Prios /\ Enqueue(beatFrame, 0) /\ beatFrame' = "none"
        /\ UNCHANGED <<sending, readFrame>>
    BY <1>6 DEF Beat, BeatHolds, Prios
  <2>2. beatFrame = "x" => ~XQueued /\ pool = 0 /\ sending # "x" /\ readFrame # "x"
    BY DEF SoleOwner
  <2>3. /\ XQueuedOnce'
        /\ beatFrame # "x" => (XQueued' => XQueued) /\ pool' = pool
        /\ beatFrame = "x" => pool' <= 1 /\ (XQueued' => pool' = 0)
    BY <2>1, <2>2, EnqueueOwner DEF SoleOwner
  <2> QED
    BY <2>1, <2>2, <2>3 DEF SoleOwner
<1>7. ASSUME NEW p \in Prios, AppSends(p) PROVE SoleOwner'
  <2>1. PICK f \in Frames : Allocated(f) /\ Enqueue(f, p)
    BY <1>7 DEF AppSends
  <2>2. UNCHANGED <<sending, beatFrame, readFrame>>
    BY <1>7 DEF AppSends
  <2>3. f = "x" => ~XQueued /\ pool = 0 /\ sending # "x" /\ beatFrame # "x" /\ readFrame # "x"
    BY <2>1, NobodyOwns DEF Allocated
  <2>4. /\ XQueuedOnce'
        /\ f # "x" => (XQueued' => XQueued) /\ pool' = pool
        /\ f = "x" => pool' <= 1 /\ (XQueued' => pool' = 0)
    BY <2>1, <2>3, EnqueueOwner DEF SoleOwner
  <2> QED
    BY <2>2, <2>3, <2>4 DEF SoleOwner
<1>8. CASE Handle
  <2>1. kind # "fileAck" /\ UNCHANGED <<queue, sending, beatFrame, readFrame>>
    BY <1>8 DEF Handle
  <2>2. pool' = pool
    BY <1>8, <2>1 DEF Handle
  <2> QED
    BY <1>2, <2>1, <2>2
<1>9. CASE HandlePut
  <2>1. UNCHANGED <<queue, sending, beatFrame>> /\ readFrame' = "none" /\ PutFrame(readFrame)
    BY <1>9 DEF HandlePut
  <2>2. XQueuedOnce' /\ (XQueued' <=> XQueued)
    BY <2>1 DEF SoleOwner, XQueued, XQueuedOnce
  <2>3. pool' = pool \/ (readFrame = "x" /\ pool' = pool + 1)
    BY <2>1 DEF PutFrame
  <2> QED
    BY <2>1, <2>2, <2>3 DEF SoleOwner
<1>10. CASE SelectHigh \/ SelectNormal
  <2>1. PICK p \in Prios : Take(p) \/ UNCHANGED <<queue, sending>>
    BY <1>10 DEF SelectHigh, SelectNormal, SelectOne, Prios
  <2>2. UNCHANGED <<beatVars, readVars, pool>>
    BY <1>10 DEF SelectHigh, SelectNormal, SelectOne
  <2> QED
    BY <1>1, <1>2, <2>1, <2>2
<1>11. CASE SelectAny
  BY <1>1, <1>11 DEF SelectAny
<1>12. CASE SendLoopStops \/ BeatStops \/ CloseTransport \/ CloseCancel \/ UNCHANGED vars
  BY <1>2, <1>12 DEF SendLoopStops, BeatStops, CloseTransport, CloseCancel, vars
<1> QED
  BY <1>3, <1>4, <1>5, <1>6, <1>7, <1>8, <1>9, <1>10, <1>11, <1>12 DEF Next, SendLoop

(* A frame is never in two places, nor in the pool and in use, before a      *)
(* FileAck has been handled: a full queue, a failed send and the end of a    *)
(* handler each give it back once.                                           *)
THEOREM OwnedOnce == Spec => []OneOwner
<1>1. TypeOK /\ (ackSeen \/ SoleOwner) => OneOwner
  BY SoleOwnerIsOne DEF OneOwner
<1>2. Init => ackSeen \/ SoleOwner
  BY InitOwner
<1> QED
  BY <1>1, <1>2, TypeInvariant, NextOwner, PTL DEF Spec
=============================================================================
