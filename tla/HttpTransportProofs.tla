------------------------ MODULE HttpTransportProofs ------------------------
(***************************************************************************)
(* Proofs about HttpTransport, for any lanes, queue capacities and numbers *)
(* of calls, and that it implements FrameLane.                             *)
(***************************************************************************)
EXTENDS HttpTransport, TLAPS

(* A lane's queue holds its last frames, and the worker the one before them. *)
LaneOK(l) ==
    /\ Len(hq[l]) <= hgiven[l]
    /\ \A i \in 1..Len(hq[l]) : hq[l][i] = hgiven[l] - Len(hq[l]) + i
    /\ hworker[l] \in {"idle", "done"} <=> hhand[l] = 0
    /\ hhand[l] # 0 => hhand[l] = hgiven[l] - Len(hq[l])

LanesOK == \A l \in HLanes : LaneOK(l)

ClosedIsIdle == hclose = "closed" => \A l \in HLanes : hworker[l] = "done"

HttpIInv ==
    /\ HttpTypeOK /\ LanesOK /\ ClosedIsIdle /\ BuffersAccounted

hLaneVars == <<hq, hgiven, hworker, hhand, hstray, harrived, hbuffers>>

(* The invariant holds initially. *)
LEMMA HttpInitIInv == HttpInit => HttpIInv
<1> SUFFICES ASSUME HttpInit PROVE HttpIInv
  OBVIOUS
<1>1. HttpTypeOK
  <2>1. <<>> \in Seq(Nat) /\ <<>> \in Seq(Item) /\ Len(<<>>) = 0
    OBVIOUS
  <2>2. 1 \in 1..HMaxBackoff /\ 0 <= HRecvCap
    BY HttpAssumption
  <2>3. /\ hq \in [HLanes -> Seq(Nat)] /\ hgiven \in [HLanes -> Nat]
        /\ hworker \in [HLanes -> {"idle", "posting", "answered", "done"}]
        /\ hhand \in [HLanes -> Nat] /\ hstray \in [HLanes -> SUBSET Nat]
        /\ harrived \in [HLanes -> Seq(Nat)] /\ hbuffers \in [HLanes -> Int]
    BY <2>1 DEF HttpInit
  <2> QED
    BY <2>1, <2>2, <2>3 DEF HttpInit, HttpTypeOK
<1>2. LanesOK
  <2> SUFFICES ASSUME NEW l \in HLanes PROVE LaneOK(l)
    BY DEF LanesOK
  <2>1. hq[l] = <<>> /\ hgiven[l] = 0 /\ hworker[l] = "idle" /\ hhand[l] = 0
    BY DEF HttpInit
  <2>2. Len(<<>>) = 0
    OBVIOUS
  <2> QED
    BY <2>1, <2>2 DEF LaneOK
<1>3. ClosedIsIdle /\ BuffersAccounted
  <2>1. Len(<<>>) = 0
    OBVIOUS
  <2> QED
    BY <2>1 DEF HttpInit, ClosedIsIdle, BuffersAccounted
<1> QED
  BY <1>1, <1>2, <1>3 DEF HttpIInv

(* Steps that leave the lanes alone. *)
LEMMA HttpAsideIInv ==
    ASSUME HttpIInv, HttpTypeOK', ClosedIsIdle', UNCHANGED hLaneVars
    PROVE  HttpIInv'
BY DEF HttpIInv, LanesOK, LaneOK, BuffersAccounted, hLaneVars

(* A step of lane l. *)
LEMMA HttpLaneIInv ==
    ASSUME HttpIInv, NEW l \in HLanes, HttpTypeOK', ClosedIsIdle',
           \A m \in HLanes : m # l =>
               /\ hq'[m] = hq[m] /\ hgiven'[m] = hgiven[m] /\ hworker'[m] = hworker[m]
               /\ hhand'[m] = hhand[m] /\ hbuffers'[m] = hbuffers[m],
           LaneOK(l)',
           hbuffers'[l] = Len(hq'[l]) + (IF hhand'[l] # 0 THEN 1 ELSE 0)
    PROVE  HttpIInv'
<1>1. LanesOK'
  <2> SUFFICES ASSUME NEW m \in HLanes PROVE LaneOK(m)'
    BY DEF LanesOK
  <2>1. CASE m = l
    BY <2>1
  <2>2. CASE m # l
    BY <2>2 DEF HttpIInv, LanesOK, LaneOK
  <2> QED
    BY <2>1, <2>2
<1>2. BuffersAccounted'
  BY DEF HttpIInv, BuffersAccounted
<1> QED
  BY <1>1, <1>2 DEF HttpIInv

-----------------------------------------------------------------------------
(* The callers. *)

LEMMA HttpCallIInv ==
    ASSUME HttpIInv, NEW k \in HConnects,
           \/ HttpConnect(k) \/ HttpRefuse(k) \/ HttpSendPanics(k)
           \/ \E l \in HLanes : HttpCall(k, l)
    PROVE  HttpIInv'
<1>0. HttpTypeOK
  BY DEF HttpIInv
<1>1. UNCHANGED <<hclose, hLaneVars, hshake, hbackoff, hrecv, hloop>>
  BY DEF HttpConnect, HttpRefuse, HttpSendPanics, HttpCall, hLaneVars, hSendVars, hStreamVars
<1>2. hcall' \in [HConnects -> {"none", "idle", "stopped"} \cup HLanes]
  <2>1. hcall \in [HConnects -> {"none", "idle", "stopped"} \cup HLanes]
    BY <1>0 DEF HttpTypeOK
  <2>2. \/ hcall' = hcall
        \/ \E c \in {"none", "idle", "stopped"} \cup HLanes : hcall' = [hcall EXCEPT ![k] = c]
    BY DEF HttpConnect, HttpRefuse, HttpSendPanics, HttpCall, HttpRefused, hSendVars
  <2> QED
    BY <2>1, <2>2
<1>3. hcalls' \in [HConnects -> Nat]
  <2>1. hcalls \in [HConnects -> Nat]
    BY <1>0 DEF HttpTypeOK
  <2>2. hcalls' = hcalls \/ hcalls' = [hcalls EXCEPT ![k] = @ + 1]
    BY DEF HttpConnect, HttpRefuse, HttpSendPanics, HttpCall, hSendVars
  <2> QED
    BY <2>1, <2>2
<1>4. hsse' \in [HConnects -> {"none", "dial", "read", "event", "sleep", "done"}]
      /\ hpanic' \in BOOLEAN
  <2>1. \/ hsse' = hsse
        \/ \E c \in {"dial", "done"} : hsse' = [hsse EXCEPT ![k] = c]
    BY DEF HttpConnect, HttpRefuse, HttpSendPanics, HttpCall, hStreamVars
  <2>2. hpanic' = hpanic \/ hpanic' = TRUE
    BY DEF HttpConnect, HttpRefuse, HttpSendPanics, HttpCall
  <2> QED
    BY <1>0, <2>1, <2>2 DEF HttpTypeOK
<1>5. HttpTypeOK'
  BY <1>0, <1>1, <1>2, <1>3, <1>4 DEF HttpTypeOK, hLaneVars
<1>6. ClosedIsIdle'
  BY <1>1 DEF HttpIInv, ClosedIsIdle, hLaneVars
<1> QED
  BY <1>1, <1>5, <1>6, HttpAsideIInv

LEMMA HttpEnqueueIInv ==
    ASSUME HttpIInv, NEW k \in HConnects, HttpEnqueue(k) PROVE HttpIInv'
<1>0. PICK l \in HLanes : l = hcall[k]
  BY DEF HttpEnqueue
<1> DEFINE g == hgiven[l] + 1
<1>1. HttpTypeOK
  BY DEF HttpIInv
<1>2. /\ hq' = [hq EXCEPT ![l] = Append(@, g)] /\ hgiven' = [hgiven EXCEPT ![l] = @ + 1]
      /\ hbuffers' = [hbuffers EXCEPT ![l] = @ + 1]
      /\ hcall' = [hcall EXCEPT ![k] = "idle"] /\ ~hchClosed
      /\ UNCHANGED <<hclose, hcalls, hworker, hhand, hstray, harrived, hsse, hbackoff, hrecv,
                     hloop, hpanic>>
  BY <1>0 DEF HttpEnqueue, hStreamVars
<1>3. /\ hq[l] \in Seq(Nat) /\ hgiven[l] \in Nat /\ hhand[l] \in Nat /\ hbuffers[l] \in Int
      /\ g \in Nat
  BY <1>1 DEF HttpTypeOK
<1>4. /\ Append(hq[l], g) \in Seq(Nat) /\ Len(Append(hq[l], g)) = Len(hq[l]) + 1
      /\ \A i \in 1..Len(hq[l]) : Append(hq[l], g)[i] = hq[l][i]
      /\ Append(hq[l], g)[Len(hq[l]) + 1] = g /\ Len(hq[l]) \in Nat
  BY <1>3
<1>5. HttpTypeOK'
  <2>1. /\ hq' \in [HLanes -> Seq(Nat)] /\ hgiven' \in [HLanes -> Nat]
        /\ hbuffers' \in [HLanes -> Int]
    BY <1>1, <1>2, <1>3, <1>4 DEF HttpTypeOK
  <2>2. hcall' \in [HConnects -> {"none", "idle", "stopped"} \cup HLanes]
    BY <1>1, <1>2 DEF HttpTypeOK
  <2>3. hshake' \in [hello : SUBSET Nat, auth : SUBSET Nat]
    <3>1. hshake.hello \in SUBSET Nat /\ hshake.auth \in SUBSET Nat
      BY <1>1 DEF HttpTypeOK
    <3>2. \E H \in {hshake.hello, hshake.hello \cup {g}}, A \in {hshake.auth, hshake.auth \cup {g}} :
              hshake' = [hello |-> H, auth |-> A]
      BY <1>0 DEF HttpEnqueue
    <3> HIDE DEF g
    <3> QED
      BY <1>3, <3>1, <3>2
  <2> QED
    BY <1>1, <1>2, <2>1, <2>2, <2>3 DEF HttpTypeOK
<1>6. /\ hq'[l] = Append(hq[l], g) /\ hgiven'[l] = g /\ hbuffers'[l] = hbuffers[l] + 1
      /\ \A m \in HLanes : m # l => /\ hq'[m] = hq[m] /\ hgiven'[m] = hgiven[m]
                                    /\ hbuffers'[m] = hbuffers[m]
  BY <1>1, <1>2 DEF HttpTypeOK
<1>7. LaneOK(l)'
  <2>1. LaneOK(l)
    BY <1>1 DEF HttpIInv, LanesOK
  <2>2. hgiven'[l] - Len(hq'[l]) = hgiven[l] - Len(hq[l]) /\ Len(hq'[l]) <= hgiven'[l]
    BY <1>3, <1>4, <1>6, <2>1 DEF LaneOK
  <2>3. ASSUME NEW i \in 1..Len(hq'[l]) PROVE hq'[l][i] = hgiven'[l] - Len(hq'[l]) + i
    <3>1. CASE i \in 1..Len(hq[l])
      BY <1>4, <1>6, <2>1, <2>2, <3>1 DEF LaneOK
    <3>2. CASE i = Len(hq[l]) + 1
      BY <1>3, <1>4, <1>6, <2>2, <3>2
    <3> QED
      BY <1>4, <1>6, <3>1, <3>2
  <2> QED
    <3>1. /\ hworker'[l] = hworker[l] /\ hhand'[l] = hhand[l]
      BY <1>2
    <3>2. hhand'[l] # 0 => hhand'[l] = hgiven'[l] - Len(hq'[l])
      BY <2>1, <2>2, <3>1 DEF LaneOK
    <3> QED
      BY <2>1, <2>2, <2>3, <3>1, <3>2 DEF LaneOK
<1>8. hbuffers'[l] = Len(hq'[l]) + (IF hhand'[l] # 0 THEN 1 ELSE 0)
  <2>1. hbuffers[l] = Len(hq[l]) + (IF hhand[l] # 0 THEN 1 ELSE 0)
    BY DEF HttpIInv, BuffersAccounted
  <2>2. Len(hq'[l]) = Len(hq[l]) + 1 /\ hhand'[l] = hhand[l]
    BY <1>2, <1>4, <1>6
  <2>3. CASE hhand[l] # 0
    <3>1. hbuffers[l] = Len(hq[l]) + 1 /\ hbuffers'[l] = hbuffers[l] + 1
      BY <1>6, <2>1, <2>3
    <3>2. hbuffers'[l] = Len(hq[l]) + 1 + 1
      BY <3>1
    <3> QED
      BY <2>2, <2>3, <3>2
  <2>4. CASE hhand[l] = 0
    <3>1. hbuffers[l] = Len(hq[l]) + 0 /\ hbuffers'[l] = hbuffers[l] + 1 /\ Len(hq[l]) \in Nat
      BY <1>4, <1>6, <2>1, <2>4
    <3>2. hbuffers'[l] = Len(hq[l]) + 1 + 0
      BY <3>1
    <3> QED
      BY <2>2, <2>4, <3>2
  <2> QED
    BY <2>3, <2>4
<1>9. ClosedIsIdle'
  BY <1>2 DEF HttpIInv, ClosedIsIdle
<1> QED
  BY <1>1, <1>2, <1>5, <1>6, <1>7, <1>8, <1>9, HttpLaneIInv

-----------------------------------------------------------------------------
(* The workers. *)

LEMMA HttpTakeIInv == ASSUME HttpIInv, NEW l \in HLanes, HttpTake(l) PROVE HttpIInv'
<1>1. HttpTypeOK /\ LaneOK(l)
  BY DEF HttpIInv, LanesOK
<1>2. /\ hworker[l] = "idle" /\ hq[l] # <<>>
      /\ hhand' = [hhand EXCEPT ![l] = Head(hq[l])] /\ hq' = [hq EXCEPT ![l] = Tail(@)]
      /\ hworker' = [hworker EXCEPT ![l] = "posting"]
      /\ UNCHANGED <<hclose, hcall, hcalls, hgiven, hshake, hstray, harrived, hbuffers,
                     hsse, hbackoff, hrecv, hloop, hpanic>>
  BY DEF HttpTake, hStreamVars
<1>3. hq[l] \in Seq(Nat) /\ hgiven[l] \in Nat /\ hbuffers[l] \in Int /\ hhand[l] = 0
  BY <1>1, <1>2 DEF HttpTypeOK, LaneOK
<1>4. /\ Len(hq[l]) \in Nat \ {0} /\ Tail(hq[l]) \in Seq(Nat)
      /\ Len(Tail(hq[l])) = Len(hq[l]) - 1 /\ Head(hq[l]) = hq[l][1]
      /\ \A i \in 1..(Len(hq[l]) - 1) : Tail(hq[l])[i] = hq[l][i + 1]
  BY <1>2, <1>3
<1>5. Head(hq[l]) = hgiven[l] - Len(hq[l]) + 1 /\ Head(hq[l]) \in Nat \ {0}
  BY <1>1, <1>3, <1>4 DEF LaneOK
<1>6. HttpTypeOK'
  <2>1. /\ hq' \in [HLanes -> Seq(Nat)] /\ hhand' \in [HLanes -> Nat]
        /\ hworker' \in [HLanes -> {"idle", "posting", "answered", "done"}]
    BY <1>1, <1>2, <1>4, <1>5 DEF HttpTypeOK
  <2> QED
    BY <1>1, <1>2, <2>1 DEF HttpTypeOK
<1>7. /\ hq'[l] = Tail(hq[l]) /\ hhand'[l] = Head(hq[l]) /\ hworker'[l] = "posting"
      /\ \A m \in HLanes : m # l => /\ hq'[m] = hq[m] /\ hhand'[m] = hhand[m]
                                    /\ hworker'[m] = hworker[m]
  BY <1>1, <1>2 DEF HttpTypeOK
<1>8. LaneOK(l)'
  <2>1. /\ hgiven'[l] - Len(hq'[l]) = hgiven[l] - Len(hq[l]) + 1
        /\ Len(hq'[l]) <= hgiven'[l] /\ hhand'[l] = hgiven'[l] - Len(hq'[l])
    <3>1. hgiven'[l] = hgiven[l] /\ Len(hq'[l]) = Len(hq[l]) - 1 /\ Len(hq[l]) <= hgiven[l]
      BY <1>1, <1>2, <1>4, <1>7 DEF LaneOK
    <3>2. hgiven'[l] - Len(hq'[l]) = hgiven[l] - Len(hq[l]) + 1 /\ Len(hq'[l]) <= hgiven'[l]
      BY <1>3, <1>4, <3>1
    <3> QED
      BY <1>5, <1>7, <3>2
  <2>2. ASSUME NEW i \in 1..Len(hq'[l]) PROVE hq'[l][i] = hgiven'[l] - Len(hq'[l]) + i
    <3>1. i \in 1..(Len(hq[l]) - 1) /\ i + 1 \in 1..Len(hq[l])
      BY <1>4, <1>7
    <3>2. hq'[l][i] = hgiven[l] - Len(hq[l]) + (i + 1)
      BY <1>1, <1>4, <1>7, <3>1 DEF LaneOK
    <3>3. PICK d \in Int : d = hgiven[l] - Len(hq[l])
      BY <1>3, <1>4
    <3>4. hq'[l][i] = d + (i + 1) /\ hgiven'[l] - Len(hq'[l]) = d + 1 /\ i \in Int
      BY <2>1, <3>1, <3>2, <3>3
    <3> QED
      BY <3>4
  <2> QED
    BY <1>5, <1>7, <2>1, <2>2 DEF LaneOK
<1>9. hbuffers'[l] = Len(hq'[l]) + (IF hhand'[l] # 0 THEN 1 ELSE 0)
  <2>1. hbuffers[l] = Len(hq[l])
    <3>1. hbuffers[l] = Len(hq[l]) + 0
      BY <1>3 DEF HttpIInv, BuffersAccounted
    <3> QED
      BY <1>4, <3>1
  <2>2. hbuffers'[l] = Len(hq[l]) /\ Len(hq'[l]) = Len(hq[l]) - 1 /\ hhand'[l] # 0
    BY <1>2, <1>4, <1>5, <1>7, <2>1
  <2> QED
    BY <1>4, <2>2
<1>10. ClosedIsIdle'
  BY <1>2 DEF HttpIInv, ClosedIsIdle
<1> QED
  BY <1>2, <1>6, <1>7, <1>8, <1>9, <1>10, HttpLaneIInv

LEMMA HttpWorkerStopsIInv ==
    ASSUME HttpIInv, NEW l \in HLanes, HttpWorkerStops(l) PROVE HttpIInv'
<1>1. HttpTypeOK /\ LaneOK(l)
  BY DEF HttpIInv, LanesOK
<1>2. /\ hworker[l] = "idle" /\ hworker' = [hworker EXCEPT ![l] = "done"]
      /\ UNCHANGED <<hclose, hcall, hcalls, hq, hgiven, hshake, hhand, hstray, harrived,
                     hbuffers, hsse, hbackoff, hrecv, hloop, hpanic>>
  BY DEF HttpWorkerStops, hStreamVars
<1>3. /\ hworker'[l] = "done"
      /\ \A m \in HLanes : m # l => hworker'[m] = hworker[m]
      /\ HttpTypeOK'
  BY <1>1, <1>2 DEF HttpTypeOK
<1>4. LaneOK(l)'
  BY <1>1, <1>2, <1>3 DEF LaneOK
<1>5. ClosedIsIdle'
  BY <1>2, <1>3 DEF HttpIInv, ClosedIsIdle
<1>6. hbuffers'[l] = Len(hq'[l]) + (IF hhand'[l] # 0 THEN 1 ELSE 0)
  BY <1>2 DEF HttpIInv, BuffersAccounted
<1> QED
  BY <1>2, <1>3, <1>4, <1>5, <1>6, HttpLaneIInv

LEMMA HttpPostIInv == ASSUME HttpIInv, NEW l \in HLanes, HttpPost(l) PROVE HttpIInv'
<1>1. HttpTypeOK /\ LaneOK(l)
  BY DEF HttpIInv, LanesOK
<1>2. /\ hworker[l] = "posting" /\ hworker' = [hworker EXCEPT ![l] = "answered"]
      /\ harrived' = [harrived EXCEPT ![l] = Append(@, hhand[l])]
      /\ UNCHANGED <<hclose, hcall, hcalls, hq, hgiven, hshake, hhand, hstray, hbuffers,
                     hsse, hbackoff, hrecv, hloop, hpanic>>
  BY DEF HttpPost, hStreamVars
<1>3. Append(harrived[l], hhand[l]) \in Seq(Nat)
  BY <1>1 DEF HttpTypeOK
<1>4. /\ hworker'[l] = "answered"
      /\ \A m \in HLanes : m # l => hworker'[m] = hworker[m]
      /\ hworker' \in [HLanes -> {"idle", "posting", "answered", "done"}]
      /\ harrived' \in [HLanes -> Seq(Nat)]
  BY <1>1, <1>2, <1>3 DEF HttpTypeOK
<1>5. HttpTypeOK'
  BY <1>1, <1>2, <1>4 DEF HttpTypeOK
<1>6. LaneOK(l)'
  BY <1>1, <1>2, <1>4 DEF LaneOK
<1>7. ClosedIsIdle'
  BY <1>2 DEF HttpIInv, ClosedIsIdle
<1>8. hbuffers'[l] = Len(hq'[l]) + (IF hhand'[l] # 0 THEN 1 ELSE 0)
  BY <1>2 DEF HttpIInv, BuffersAccounted
<1> QED
  BY <1>2, <1>4, <1>5, <1>6, <1>7, <1>8, HttpLaneIInv

(* What a request left behind arrives; the transport does not notice. *)
LEMMA HttpStrayIInv == ASSUME HttpIInv, NEW l \in HLanes, HttpStrayArrives(l) PROVE HttpIInv'
<1>1. HttpTypeOK
  BY DEF HttpIInv
<1>2. PICK n \in hstray[l] : /\ hstray' = [hstray EXCEPT ![l] = @ \ {n}]
                             /\ harrived' = [harrived EXCEPT ![l] = Append(@, n)]
  BY DEF HttpStrayArrives
<1>3. UNCHANGED <<hclose, hcall, hcalls, hq, hgiven, hshake, hworker, hhand, hbuffers,
                  hsse, hbackoff, hrecv, hloop, hpanic>>
  BY DEF HttpStrayArrives, hStreamVars
<1>4. hstray[l] \in SUBSET Nat /\ n \in Nat /\ Append(harrived[l], n) \in Seq(Nat)
  BY <1>1, <1>2 DEF HttpTypeOK
<1>5. hstray' \in [HLanes -> SUBSET Nat] /\ harrived' \in [HLanes -> Seq(Nat)]
  BY <1>1, <1>2, <1>4 DEF HttpTypeOK
<1>6. HttpTypeOK'
  BY <1>1, <1>3, <1>5 DEF HttpTypeOK
<1>7. (LanesOK /\ ClosedIsIdle /\ BuffersAccounted)'
  BY <1>3 DEF HttpIInv, LanesOK, LaneOK, ClosedIsIdle, BuffersAccounted
<1> QED
  BY <1>6, <1>7 DEF HttpIInv

(* The worker is free again, whatever became of recvCh. *)
LEMMA HttpFreeIInv ==
    ASSUME HttpIInv, NEW l \in HLanes, hworker[l] \in {"posting", "answered"},
           HttpWorkerFree(l),
           hrecv' \in Seq(Item) /\ Len(hrecv') <= HRecvCap,
           hstray' \in [HLanes -> SUBSET Nat],
           UNCHANGED <<hclose, hcall, hcalls, hq, hgiven, hshake, harrived, hStreamVars,
                       hloop, hpanic>>
    PROVE  HttpIInv'
<1>1. HttpTypeOK /\ LaneOK(l)
  BY DEF HttpIInv, LanesOK
<1>2. /\ hworker' = [hworker EXCEPT ![l] = "idle"] /\ hhand' = [hhand EXCEPT ![l] = 0]
      /\ hbuffers' = [hbuffers EXCEPT ![l] = @ - 1]
  BY DEF HttpWorkerFree
<1>3. /\ hworker'[l] = "idle" /\ hhand'[l] = 0 /\ hbuffers'[l] = hbuffers[l] - 1
      /\ \A m \in HLanes : m # l => /\ hworker'[m] = hworker[m] /\ hhand'[m] = hhand[m]
                                    /\ hbuffers'[m] = hbuffers[m]
      /\ hworker' \in [HLanes -> {"idle", "posting", "answered", "done"}]
      /\ hhand' \in [HLanes -> Nat] /\ hbuffers' \in [HLanes -> Int]
  BY <1>1, <1>2 DEF HttpTypeOK
<1>4. HttpTypeOK'
  BY <1>1, <1>3 DEF HttpTypeOK, hStreamVars
<1>5. LaneOK(l)'
  BY <1>1, <1>3 DEF LaneOK
<1>6. hbuffers'[l] = Len(hq'[l]) + (IF hhand'[l] # 0 THEN 1 ELSE 0)
  <2>1. hhand[l] # 0
    BY <1>1 DEF LaneOK
  <2>2. hbuffers[l] = Len(hq[l]) + 1 /\ Len(hq[l]) \in Nat
    BY <1>1, <2>1 DEF HttpIInv, BuffersAccounted, HttpTypeOK
  <2> QED
    BY <1>3, <2>2
<1>7. ClosedIsIdle'
  BY DEF HttpIInv, ClosedIsIdle
<1> QED
  BY <1>3, <1>4, <1>5, <1>6, <1>7, HttpLaneIInv

(* A non-blocking send to recvCh. *)
LEMMA HttpPushType ==
    ASSUME HttpTypeOK, NEW item \in Item, HttpPush(item)
    PROVE  hrecv' \in Seq(Item) /\ Len(hrecv') <= HRecvCap
<1>1. hrecv \in Seq(Item) /\ Len(hrecv) <= HRecvCap /\ HRecvCap \in Nat
  BY HttpAssumption DEF HttpTypeOK
<1>2. Append(hrecv, item) \in Seq(Item) /\ Len(Append(hrecv, item)) = Len(hrecv) + 1
      /\ Len(hrecv) \in Nat
  BY <1>1
<1> QED
  BY <1>1, <1>2 DEF HttpPush

LEMMA HttpPostEndsIInv ==
    ASSUME HttpIInv, NEW l \in HLanes, HttpPostEnds(l) PROVE HttpIInv'
<1>1. /\ hworker[l] \in {"posting", "answered"} /\ HttpWorkerFree(l) /\ hrecv' = hrecv
      /\ UNCHANGED <<hclose, hcall, hcalls, hq, hgiven, hshake, harrived, hStreamVars,
                     hloop, hpanic>>
  BY DEF HttpPostEnds
<1>2. hrecv' \in Seq(Item) /\ Len(hrecv') <= HRecvCap
  BY <1>1 DEF HttpIInv, HttpTypeOK
<1>3. hstray' \in [HLanes -> SUBSET Nat]
  <2>1. hstray \in [HLanes -> SUBSET Nat] /\ hhand[l] \in Nat
    BY DEF HttpIInv, HttpTypeOK
  <2>2. hstray' = hstray \/ hstray' = [hstray EXCEPT ![l] = @ \cup {hhand[l]}]
    BY DEF HttpPostEnds, HttpStrays
  <2> QED
    BY <2>1, <2>2
<1> QED
  BY <1>1, <1>2, <1>3, HttpFreeIInv

LEMMA HttpAnswerIInv == ASSUME HttpIInv, NEW l \in HLanes, HttpAnswer(l) PROVE HttpIInv'
<1>1. /\ hworker[l] \in {"posting", "answered"}
      /\ UNCHANGED <<hclose, hcall, hcalls, hq, hgiven, hshake, hstray, harrived,
                     hStreamVars, hloop>>
  BY DEF HttpAnswer
<1>2. HttpTypeOK
  BY DEF HttpIInv
<1>3. CASE hchClosed
  <2>1. hpanic' = TRUE /\ UNCHANGED <<hworker, hhand, hbuffers, hrecv>>
    BY <1>3 DEF HttpAnswer
  <2>2. HttpTypeOK' /\ ClosedIsIdle'
    BY <1>1, <1>2, <2>1 DEF HttpTypeOK, HttpIInv, ClosedIsIdle, hStreamVars
  <2> QED
    BY <1>1, <2>1, <2>2, HttpAsideIInv DEF hLaneVars
<1>4. CASE ~hchClosed
  <2>1. PICK item \in Item : HttpPush(item)
    BY <1>4 DEF HttpAnswer, Item
  <2>2. HttpWorkerFree(l) /\ hpanic' = hpanic
    BY <1>4 DEF HttpAnswer
  <2>3. hrecv' \in Seq(Item) /\ Len(hrecv') <= HRecvCap
    BY <1>2, <2>1, HttpPushType
  <2>4. hstray' \in [HLanes -> SUBSET Nat]
    BY <1>1, <1>2 DEF HttpTypeOK
  <2> QED
    BY <1>1, <2>2, <2>3, <2>4, HttpFreeIInv
<1> QED
  BY <1>3, <1>4

-----------------------------------------------------------------------------
(* The sseLoops, receiveLoop and Close. *)

LEMMA HttpStreamIInv ==
    ASSUME HttpIInv, NEW k \in HConnects,
           \/ HttpStreamOpens(k) \/ HttpStreamFails(k) \/ HttpStreamWakes(k)
           \/ HttpEvent(k) \/ HttpEventPush(k)
    PROVE  HttpIInv'
<1>1. HttpTypeOK
  BY DEF HttpIInv
<1>2. UNCHANGED <<hclose, hSendVars, hloop>>
  BY DEF HttpStreamOpens, HttpStreamFails, HttpStreamWakes, HttpEvent, HttpEventPush
<1>3. hsse' \in [HConnects -> {"none", "dial", "read", "event", "sleep", "done"}]
      /\ hpanic' \in BOOLEAN
  <2>1. \/ hsse' = hsse
        \/ \E c \in {"dial", "read", "event", "sleep", "done"} : hsse' = [hsse EXCEPT ![k] = c]
    BY DEF HttpStreamOpens, HttpStreamFails, HttpStreamWakes, HttpEvent, HttpEventPush
  <2>2. hpanic' = hpanic \/ hpanic' = TRUE
    BY DEF HttpStreamOpens, HttpStreamFails, HttpStreamWakes, HttpEvent, HttpEventPush
  <2> QED
    BY <1>1, <2>1, <2>2 DEF HttpTypeOK
<1>4. hbackoff' \in 1..HMaxBackoff
  <2>1. hbackoff' \in {hbackoff, 1, Doubled(hbackoff)}
    BY DEF HttpStreamOpens, HttpStreamFails, HttpStreamWakes, HttpEvent, HttpEventPush
  <2> QED
    BY <1>1, <2>1, HttpAssumption DEF HttpTypeOK, Doubled
<1>5. hrecv' \in Seq(Item) /\ Len(hrecv') <= HRecvCap
  <2>1. CASE hrecv' = hrecv
    BY <1>1, <2>1 DEF HttpTypeOK
  <2>2. CASE HttpPush("event")
    BY <1>1, <2>2, HttpPushType DEF Item
  <2> QED
    BY <2>1, <2>2 DEF HttpStreamOpens, HttpStreamFails, HttpStreamWakes, HttpEvent,
       HttpEventPush
<1>6. HttpTypeOK' /\ ClosedIsIdle'
  BY <1>1, <1>2, <1>3, <1>4, <1>5 DEF HttpTypeOK, HttpIInv, ClosedIsIdle, hSendVars
<1> QED
  BY <1>2, <1>6, HttpAsideIInv DEF hSendVars, hLaneVars

LEMMA HttpReceiverIInv == HttpIInv /\ HttpReceiver => HttpIInv'
<1> SUFFICES ASSUME HttpIInv, HttpReceiver PROVE HttpIInv'
  OBVIOUS
<1>1. HttpTypeOK
  BY DEF HttpIInv
<1>2. /\ UNCHANGED <<hclose, hSendVars, hStreamVars, hpanic>> /\ hloop' \in {"loop", "done"}
      /\ hrecv' = hrecv \/ (hrecv # <<>> /\ hrecv' = Tail(hrecv))
  BY <1>1 DEF HttpReceiver, HttpReceive, HttpReceiveStops, HttpTypeOK
<1>3. hrecv' \in Seq(Item) /\ Len(hrecv') <= HRecvCap
  <2>1. hrecv \in Seq(Item) /\ Len(hrecv) <= HRecvCap /\ HRecvCap \in Nat
    BY <1>1, HttpAssumption DEF HttpTypeOK
  <2>2. hrecv # <<>> => Tail(hrecv) \in Seq(Item) /\ Len(Tail(hrecv)) = Len(hrecv) - 1
                          /\ Len(hrecv) \in Nat
    BY <2>1
  <2> QED
    BY <1>2, <2>1, <2>2
<1>4. HttpTypeOK' /\ ClosedIsIdle'
  BY <1>1, <1>2, <1>3 DEF HttpTypeOK, HttpIInv, ClosedIsIdle, hSendVars, hStreamVars
<1> QED
  BY <1>2, <1>4, HttpAsideIInv DEF hSendVars, hLaneVars

LEMMA HttpCloseIInv ==
    ASSUME HttpIInv, HttpCloseStart \/ HttpCloser PROVE HttpIInv'
<1>1. /\ UNCHANGED <<hSendVars, hStreamVars, hrecv, hloop, hpanic>>
      /\ hclose' \in {"cancelled", "waiting", "closed"}
      /\ hclose' = "closed" => \A l \in HLanes : hworker[l] = "done"
  BY DEF HttpCloseStart, HttpCloser, HttpCloseChannels, HttpCloseFinish
<1>2. HttpTypeOK' /\ ClosedIsIdle'
  BY <1>1 DEF HttpIInv, HttpTypeOK, ClosedIsIdle, hSendVars, hStreamVars
<1> QED
  BY <1>1, <1>2, HttpAsideIInv DEF hSendVars, hLaneVars

LEMMA HttpNextIInv == HttpIInv /\ [HttpNext]_httpVars => HttpIInv'
<1> SUFFICES ASSUME HttpIInv, [HttpNext]_httpVars PROVE HttpIInv'
  OBVIOUS
<1>1. CASE UNCHANGED httpVars
  <2>1. UNCHANGED hLaneVars /\ HttpTypeOK' /\ ClosedIsIdle'
    BY <1>1 DEF httpVars, hSendVars, hStreamVars, hLaneVars, HttpIInv, HttpTypeOK, ClosedIsIdle
  <2> QED
    BY <2>1, HttpAsideIInv
<1>2. CASE HttpNext
  BY <1>2, HttpCallIInv, HttpEnqueueIInv, HttpTakeIInv, HttpWorkerStopsIInv, HttpPostIInv,
     HttpPostEndsIInv, HttpStrayIInv, HttpAnswerIInv, HttpStreamIInv, HttpReceiverIInv, HttpCloseIInv
     DEF HttpNext, HttpSender
<1> QED
  BY <1>1, <1>2

-----------------------------------------------------------------------------
(* The refinement of FrameLane. *)

LEMMA HttpLaneInit == HttpInit => Lanes!Init
BY DEF HttpInit, Lanes!Init

(* A step of the transport is a step of its lanes, or none. *)
LEMMA HttpLaneNext ==
    ASSUME HttpIInv, [HttpNext]_httpVars PROVE [Lanes!Next]_(Lanes!vars)
<1> DEFINE P(l) == hgiven[l] - Len(hq[l]) - (IF hworker[l] = "posting" THEN 1 ELSE 0)
           past == [l \in HLanes |-> P(l)]
<1>1. HttpTypeOK /\ LanesOK
  BY DEF HttpIInv
<1>a. \A l \in HLanes : /\ hq[l] \in Seq(Nat) /\ Len(hq[l]) \in Nat /\ hgiven[l] \in Nat
                         /\ hhand[l] \in Nat /\ LaneOK(l) /\ P(l) \in Int
  <2> SUFFICES ASSUME NEW l \in HLanes
               PROVE  /\ hq[l] \in Seq(Nat) /\ Len(hq[l]) \in Nat /\ hgiven[l] \in Nat
                      /\ hhand[l] \in Nat /\ LaneOK(l) /\ P(l) \in Int
    OBVIOUS
  <2>1. hq[l] \in Seq(Nat) /\ hgiven[l] \in Nat /\ hhand[l] \in Nat /\ LaneOK(l)
    BY <1>1 DEF HttpTypeOK, LanesOK
  <2>2. Len(hq[l]) \in Nat
    BY <2>1
  <2> QED
    BY <2>1, <2>2
<1>2. CASE UNCHANGED <<hgiven, hq, hworker, harrived, hstray, hclose>>
  BY <1>2 DEF Lanes!vars
<1>3. ASSUME NEW k \in HConnects, HttpEnqueue(k) PROVE [Lanes!Next]_(Lanes!vars)
  <2>1. PICK l \in HLanes : l = hcall[k]
    BY <1>3 DEF HttpEnqueue
  <2>2. /\ hq' = [hq EXCEPT ![l] = Append(@, hgiven[l] + 1)]
        /\ hgiven' = [hgiven EXCEPT ![l] = @ + 1]
        /\ hworker' = hworker /\ harrived' = harrived /\ hstray' = hstray
        /\ hclose' = hclose /\ hclose # "closed"
    BY <1>3, <2>1 DEF HttpEnqueue, hchClosed
  <2>3. ASSUME NEW m \in HLanes PROVE P(m)' = P(m)
    <3>1. CASE m = l
      <4>1. hgiven'[m] = hgiven[m] + 1 /\ hq'[m] = Append(hq[m], hgiven[m] + 1)
        BY <1>1, <2>2, <3>1 DEF HttpTypeOK
      <4>2. Len(hq'[m]) = Len(hq[m]) + 1
        BY <1>a, <4>1
      <4>3. hgiven'[m] - Len(hq'[m]) = hgiven[m] - Len(hq[m])
        <5>1. PICK a \in Int, b \in Int : a = hgiven[m] /\ b = Len(hq[m])
          BY <1>a
        <5>2. hgiven'[m] = a + 1 /\ Len(hq'[m]) = b + 1
          BY <4>1, <4>2, <5>1
        <5>3. (a + 1) - (b + 1) = a - b
          OBVIOUS
        <5> QED
          BY <5>1, <5>2, <5>3
      <4> QED
        BY <2>2, <4>3
    <3>2. CASE m # l
      <4>1. hgiven'[m] = hgiven[m] /\ hq'[m] = hq[m]
        BY <1>1, <2>2, <3>2 DEF HttpTypeOK
      <4> QED
        BY <2>2, <4>1
    <3> QED
      BY <3>1, <3>2
  <2>4. past' = past
    <3> HIDE DEF P
    <3> QED
      BY <2>3
  <2>5. Lanes!Take(l)
    BY <2>2, <2>4 DEF Lanes!Take
  <2> QED
    BY <2>5 DEF Lanes!Next
<1>4. ASSUME NEW l \in HLanes, HttpTake(l) PROVE [Lanes!Next]_(Lanes!vars)
  <2>1. /\ hq' = [hq EXCEPT ![l] = Tail(@)] /\ hq[l] # <<>> /\ hworker[l] = "idle"
        /\ hworker' = [hworker EXCEPT ![l] = "posting"]
        /\ UNCHANGED <<hgiven, harrived, hstray, hclose>>
    BY <1>4 DEF HttpTake
  <2>2. ASSUME NEW m \in HLanes PROVE P(m)' = P(m)
    <3>1. CASE m = l
      <4>1. hq'[m] = Tail(hq[m]) /\ hworker'[m] = "posting" /\ hq[m] # <<>> /\ hworker[m] = "idle"
        BY <1>1, <2>1, <3>1 DEF HttpTypeOK
      <4>2. Len(hq'[m]) = Len(hq[m]) - 1
        BY <1>a, <4>1
      <4>3. hgiven[m] - Len(hq'[m]) - 1 = hgiven[m] - Len(hq[m]) - 0
        BY <1>a, <4>2
      <4> QED
        BY <2>1, <4>1, <4>3
    <3>2. CASE m # l
      <4>1. hworker'[m] = hworker[m] /\ hq'[m] = hq[m]
        BY <1>1, <2>1, <3>2 DEF HttpTypeOK
      <4> QED
        BY <2>1, <4>1
    <3> QED
      BY <3>1, <3>2
  <2>3. past' = past
    <3> HIDE DEF P
    <3> QED
      BY <2>2
  <2> QED
    BY <2>1, <2>3 DEF Lanes!vars
<1>5. ASSUME NEW l \in HLanes, hworker[l] = "posting", NEW w,
             hworker' = [hworker EXCEPT ![l] = w], w # "posting",
             UNCHANGED <<hgiven, hq, hclose>>
      PROVE  Lanes!Settle(l) /\ past[l] + 1 = hhand[l]
  <2>1. hclose # "closed"
    BY <1>5 DEF HttpIInv, ClosedIsIdle
  <2>2. P(l) = hgiven[l] - Len(hq[l]) - 1 /\ hhand[l] = hgiven[l] - Len(hq[l])
        /\ Len(hq[l]) <= hgiven[l]
    BY <1>5, <1>a DEF LaneOK
  <2>3. P(l) + 1 = hhand[l] /\ P(l) < hgiven[l]
    BY <1>a, <2>2
  <2>4. ASSUME NEW m \in HLanes PROVE P(m)' = IF m = l THEN P(l) + 1 ELSE P(m)
    <3>1. CASE m = l
      <4>1. hworker'[m] # "posting"
        BY <1>1, <1>5, <3>1 DEF HttpTypeOK
      <4>2. P(m)' = hgiven[m] - Len(hq[m]) - 0
        BY <1>5, <4>1
      <4> QED
        BY <1>a, <2>2, <3>1, <4>2
    <3>2. CASE m # l
      <4>1. hworker'[m] = hworker[m]
        BY <1>1, <1>5, <3>2 DEF HttpTypeOK
      <4> QED
        BY <1>5, <3>2, <4>1
    <3> QED
      BY <3>1, <3>2
  <2>5. past' = [past EXCEPT ![l] = @ + 1] /\ past[l] = P(l)
    <3> HIDE DEF P
    <3> QED
      BY <2>4
  <2>6. Lanes!Settle(l)
    BY <1>5, <2>1, <2>3, <2>5 DEF Lanes!Settle
  <2> QED
    BY <2>3, <2>5, <2>6
<1>6. ASSUME NEW l \in HLanes, HttpPost(l) PROVE [Lanes!Next]_(Lanes!vars)
  <2>1. /\ harrived' = [harrived EXCEPT ![l] = Append(@, hhand[l])] /\ hworker[l] = "posting"
        /\ hworker' = [hworker EXCEPT ![l] = "answered"]
        /\ UNCHANGED <<hgiven, hq, hclose>> /\ hstray' = hstray
    BY <1>6 DEF HttpPost
  <2>2. Lanes!Settle(l) /\ past[l] + 1 = hhand[l]
    BY <1>5, <2>1
  <2>3. Lanes!Pass(l)
    BY <2>1, <2>2 DEF Lanes!Pass
  <2> QED
    BY <2>3 DEF Lanes!Next
<1>7. ASSUME NEW l \in HLanes, HttpPostEnds(l) PROVE [Lanes!Next]_(Lanes!vars)
  <2>1. /\ hworker[l] \in {"posting", "answered"} /\ hworker' = [hworker EXCEPT ![l] = "idle"]
        /\ UNCHANGED <<hgiven, hq, hclose>> /\ harrived' = harrived /\ HttpStrays(l)
    BY <1>7 DEF HttpPostEnds, HttpWorkerFree
  <2>2. CASE hworker[l] = "posting"
    <3>1. hstray' = [hstray EXCEPT ![l] = @ \cup {hhand[l]}]
      BY <2>1, <2>2 DEF HttpStrays
    <3>2. Lanes!Settle(l) /\ past[l] + 1 = hhand[l]
      BY <1>5, <2>1, <2>2
    <3>3. Lanes!GiveUp(l)
      BY <2>1, <3>1, <3>2 DEF Lanes!GiveUp
    <3> QED
      BY <3>3 DEF Lanes!Next
  <2>3. CASE hworker[l] = "answered"
    <3>1. hstray' = hstray
      BY <2>1, <2>3 DEF HttpStrays
    <3>2. \A m \in HLanes : P(m)' = P(m)
      <4>1. \A m \in HLanes : hworker'[m] = "posting" <=> hworker[m] = "posting"
        BY <1>1, <2>1, <2>3 DEF HttpTypeOK
      <4> QED
        BY <2>1, <4>1
    <3>3. past' = past
      <4> HIDE DEF P
      <4> QED
        BY <3>2
    <3> QED
      BY <2>1, <3>1, <3>3 DEF Lanes!vars
  <2> QED
    BY <2>1, <2>2, <2>3
<1>8. ASSUME NEW l \in HLanes, HttpWorkerStops(l) \/ HttpAnswer(l)
      PROVE  [Lanes!Next]_(Lanes!vars)
  <2>1. /\ UNCHANGED <<hgiven, hq, hclose, harrived, hstray>> /\ hworker[l] # "posting"
        /\ hworker' = hworker \/ \E w \in {"idle", "done"} : hworker' = [hworker EXCEPT ![l] = w]
    BY <1>8 DEF HttpWorkerStops, HttpAnswer, HttpWorkerFree
  <2>2. \A m \in HLanes : P(m)' = P(m)
    <3>1. \A m \in HLanes : hworker'[m] = "posting" <=> hworker[m] = "posting"
      BY <1>1, <2>1 DEF HttpTypeOK
    <3> QED
      BY <2>1, <3>1
  <2>3. past' = past
    <3> HIDE DEF P
    <3> QED
      BY <2>2
  <2> QED
    BY <2>1, <2>3 DEF Lanes!vars
<1>9. ASSUME NEW l \in HLanes, HttpStrayArrives(l) PROVE [Lanes!Next]_(Lanes!vars)
  <2>1. Lanes!Drift(l)
    BY <1>9 DEF HttpStrayArrives, Lanes!Drift
  <2> QED
    BY <2>1 DEF Lanes!Next
<1>10. CASE HttpCloseStart \/ HttpCloser
  <2>1. UNCHANGED <<hgiven, hq, hworker, harrived, hstray>> /\ hclose # "closed"
    BY <1>10 DEF HttpCloseStart, HttpCloser, HttpCloseChannels, HttpCloseFinish, hSendVars
  <2>2. CASE hclose' = "closed"
    <3>1. Lanes!Shut
      BY <2>1, <2>2 DEF Lanes!Shut
    <3> QED
      BY <3>1 DEF Lanes!Next
  <2>3. CASE hclose' # "closed"
    BY <2>1, <2>3 DEF Lanes!vars
  <2> QED
    BY <2>2, <2>3
<1>11. ASSUME NEW k \in HConnects,
              \/ HttpConnect(k) \/ HttpRefuse(k) \/ HttpSendPanics(k)
              \/ \E l \in HLanes : HttpCall(k, l)
              \/ HttpStreamOpens(k) \/ HttpStreamFails(k) \/ HttpStreamWakes(k)
              \/ HttpEvent(k) \/ HttpEventPush(k)
       PROVE  UNCHANGED <<hgiven, hq, hworker, harrived, hstray, hclose>>
  BY <1>11 DEF HttpConnect, HttpRefuse, HttpSendPanics, HttpCall, HttpStreamOpens,
     HttpStreamFails, HttpStreamWakes, HttpEvent, HttpEventPush, hSendVars
<1>12. HttpReceiver \/ UNCHANGED httpVars =>
           UNCHANGED <<hgiven, hq, hworker, harrived, hstray, hclose>>
  BY DEF HttpReceiver, HttpReceive, HttpReceiveStops, httpVars, hSendVars
<1> QED
  BY <1>2, <1>3, <1>4, <1>6, <1>7, <1>8, <1>9, <1>10, <1>11, <1>12 DEF HttpNext, HttpSender
=============================================================================
