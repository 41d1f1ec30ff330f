------------------------- MODULE SimpleMemobjProofs -------------------------
(***************************************************************************)
(* Proofs about SimpleMemobj, for every bound and whichever ports refuse.  *)
(***************************************************************************)
EXTENDS SimpleMemobj, FiniteSetTheorems, TLAPS

-----------------------------------------------------------------------------
(* The calls handleResponse has left: a suffix of the three it makes.      *)
retryInst == [fn |-> "trySendRetry", port |-> "inst_port"]
retryData == [fn |-> "trySendRetry", port |-> "data_port"]
CallsLeft ==
  {<<>>, <<retryData>>, <<retryInst, retryData>>}
    \cup {afterResponse(p) : p \in Port}

(* Whether port p is about to be sent its response.                        *)
Sending(p) == Calling("sendPacket", p)

(* RequestsAccounted, with the response in "calls" found at its head.      *)
AtMostOneAtMemory ==
  OnMemorySide("inst_port") + OnMemorySide("data_port")
    = IF blocked THEN 1 ELSE 0
UnansweredFound ==
  \A p \in Port :
    unanswered[p] = OnMemorySide(p) + (IF Sending(p) THEN 1 ELSE 0)
                      + (IF blockedPacket[p] # None THEN 1 ELSE 0)

(* A CPU port that waits for a retry still has room for its request.       *)
RoomForRetry == \A p \in Port : refused[p] => unanswered[p] < MaxUnanswered

(* Only a port that may refuse leaves a response with the object.          *)
OnlyRefusedKept == \A p \in Port : blockedPacket[p] # None => p \in Refusing

MemobjInv ==
  /\ TypeOK
  /\ calls \in CallsLeft
  /\ AtMostOneAtMemory
  /\ UnansweredFound
  /\ RetryOwed
  /\ RoomForRetry
  /\ OnlyRefusedKept
  /\ OnlyRefusingPortsPanic

-----------------------------------------------------------------------------
(* The calls left are made one by one, the response first.                 *)
LEMMA CallsLeftShrink ==
  ASSUME NEW c \in CallsLeft
  PROVE  /\ c \in Seq(Call)
         /\ c # <<>> =>
              /\ Tail(c) \in CallsLeft
              /\ Tail(c) # <<>> => Head(Tail(c)).fn = "trySendRetry"
<1>1. /\ retryInst \in Call /\ retryInst.fn = "trySendRetry"
      /\ retryData \in Call /\ retryData.fn = "trySendRetry"
  BY DEF retryInst, retryData, Call, Port
<1>2. CASE c = <<>>
  BY <1>2
<1>3. CASE c = <<retryData>>
  <2>1. Tail(c) = <<>>
    BY <1>3
  <2> QED
    BY <1>1, <1>3, <2>1 DEF CallsLeft
<1>4. CASE c = <<retryInst, retryData>>
  <2>1. Tail(c) = <<retryData>> /\ Head(Tail(c)) = retryData
    BY <1>4
  <2> QED
    BY <1>1, <1>4, <2>1 DEF CallsLeft
<1>5. ASSUME NEW p \in Port, c = afterResponse(p)
      PROVE  /\ c \in Seq(Call)
             /\ Tail(c) \in CallsLeft
             /\ Head(Tail(c)).fn = "trySendRetry"
  <2>1. c = <<[fn |-> "sendPacket", port |-> p], retryInst, retryData>>
    BY <1>5 DEF afterResponse, retryInst, retryData
  <2>2. [fn |-> "sendPacket", port |-> p] \in Call
    BY DEF Call
  <2>3. Tail(c) = <<retryInst, retryData>> /\ Head(Tail(c)) = retryInst
    BY <2>1
  <2> QED
    BY <1>1, <2>1, <2>2, <2>3 DEF CallsLeft
<1> QED
  BY <1>2, <1>3, <1>4, <1>5 DEF CallsLeft

(* Only the first of the calls left can be the response.                   *)
LEMMA ResponseFirst ==
  ASSUME NEW c \in CallsLeft, NEW p \in Port
  PROVE  Cardinality({i \in DOMAIN c :
                        c[i] = [fn |-> "sendPacket", port |-> p]})
           = IF c # <<>> /\ Head(c) = [fn |-> "sendPacket", port |-> p]
               THEN 1 ELSE 0
<1> DEFINE Found == {i \in DOMAIN c : c[i] = [fn |-> "sendPacket", port |-> p]}
<1>1. CASE c \in {<<>>, <<retryData>>, <<retryInst, retryData>>}
  <2>1. Found = {}
    BY <1>1 DEF retryData, retryInst
  <2>2. ~(c # <<>> /\ Head(c) = [fn |-> "sendPacket", port |-> p])
    BY <1>1 DEF retryData, retryInst
  <2> QED
    BY <2>1, <2>2, FS_EmptySet
<1>2. ASSUME NEW q \in Port, c = afterResponse(q)
      PROVE  Cardinality(Found)
               = IF c # <<>> /\ Head(c) = [fn |-> "sendPacket", port |-> p]
                   THEN 1 ELSE 0
  <2>1. c # <<>> /\ Head(c) = [fn |-> "sendPacket", port |-> q]
    BY <1>2 DEF afterResponse
  <2>2. CASE p = q
    <3>1. Found = {1}
      BY <1>2, <2>2 DEF afterResponse
    <3> QED
      BY <2>1, <2>2, <3>1, FS_Singleton
  <2>3. CASE p # q
    <3>1. Found = {}
      BY <1>2, <2>3 DEF afterResponse
    <3>2. [fn |-> "sendPacket", port |-> q] # [fn |-> "sendPacket", port |-> p]
      BY <2>3
    <3> QED
      BY <2>1, <3>1, <3>2, FS_EmptySet
  <2> QED
    BY <2>2, <2>3
<1> QED
  BY <1>1, <1>2 DEF CallsLeft

-----------------------------------------------------------------------------
(* What is at memory is counted by natural numbers.                        *)
LEMMA OnMemorySideNat ==
  ASSUME TypeOK, NEW p \in Port
  PROVE  OnMemorySide(p) \in Nat
<1>1. atMemory[p] \in Nat
  BY DEF TypeOK
<1> QED
  BY <1>1 DEF OnMemorySide

(* The invariant holds at start.                                           *)
LEMMA MemobjInit == Init => MemobjInv
<1> SUFFICES ASSUME Init PROVE MemobjInv
  OBVIOUS
<1>1. TypeOK
  <2>1. 0 \in 0..MaxUnanswered
    BY MemobjConstants
  <2>2. calls \in Seq(Call)
    BY DEF Init
  <2> QED
    BY <2>1, <2>2 DEF Init, TypeOK
<1>2. calls \in CallsLeft
  BY DEF Init, CallsLeft
<1>3. AtMostOneAtMemory /\ UnansweredFound
  BY DEF Init, AtMostOneAtMemory, UnansweredFound, OnMemorySide, Sending,
         Calling, None, Port
<1>4. RetryOwed /\ RoomForRetry /\ OnlyRefusedKept /\ OnlyRefusingPortsPanic
  BY DEF Init, RetryOwed, RoomForRetry, OnlyRefusedKept,
         OnlyRefusingPortsPanic
<1> QED
  BY <1>1, <1>2, <1>3, <1>4 DEF MemobjInv

(* A request that comes: taken if the object is free, and otherwise left   *)
(* with its port, which is then owed a retry.                              *)
LEMMA RequestStep ==
  ASSUME MemobjInv, NEW p \in Port, NEW accepted \in BOOLEAN,
         NEW flags \in [Port -> BOOLEAN],
         \A q \in Port \ {p} : flags[q] = needRetry[q],
         flags[p] = FALSE,
         unanswered[p] < MaxUnanswered,
         recvTimingReq(p, flags, accepted),
         calls' \in CallsLeft, calls' \in Seq(Call),
         \A q \in Port : Sending(q)' <=> Sending(q),
         UNCHANGED <<blockedPacket, panicked>>
  PROVE  MemobjInv'
<1> USE DEF MemobjInv
<1>1. OnlyRefusedKept' /\ OnlyRefusingPortsPanic'
  BY DEF OnlyRefusedKept, OnlyRefusingPortsPanic
<1>2. CASE /\ handleRequest(p, accepted)
           /\ needRetry' = flags
           /\ refused' = [refused EXCEPT ![p] = FALSE]
           /\ unanswered' = [unanswered EXCEPT ![p] = @ + 1]
  <2>1. unanswered' \in [Port -> 0..MaxUnanswered]
    BY <1>2, MemobjConstants DEF TypeOK
  <2>2. memBlockedPacket' \in Packet \cup {None}
    BY <1>2 DEF handleRequest, memSendPacket, Packet
  <2>3. atMemory' \in [Port -> Nat]
    BY <1>2 DEF handleRequest, memSendPacket, TypeOK
  <2>4. TypeOK'
    BY <1>2, <2>1, <2>2, <2>3 DEF TypeOK, handleRequest
  <2>5. /\ \A q \in Port : OnMemorySide(q) = 0
        /\ \A q \in Port : OnMemorySide(q)' = IF q = p THEN 1 ELSE 0
    <3>1. OnMemorySide("inst_port") = 0 /\ OnMemorySide("data_port") = 0
      BY <1>2, OnMemorySideNat DEF handleRequest, AtMostOneAtMemory, Port
    <3>2. memBlockedPacket = None
      BY <1>2 DEF handleRequest
    <3>3. \A q \in Port : atMemory[q] = 0 /\ memBlockedPacket # q
      BY <3>1, <3>2 DEF TypeOK, OnMemorySide, Port, None
    <3> QED
      BY <1>2, <3>3 DEF TypeOK, handleRequest, memSendPacket, OnMemorySide,
                        Port, None
  <2>6. AtMostOneAtMemory'
    BY <1>2, <2>5 DEF AtMostOneAtMemory, handleRequest, Port
  <2>7. UnansweredFound'
    BY <1>2, <2>5 DEF UnansweredFound, TypeOK
  <2>8. RetryOwed' /\ RoomForRetry'
    BY <1>2 DEF TypeOK, RetryOwed, RoomForRetry
  <2> QED
    BY <1>1, <2>4, <2>6, <2>7, <2>8
<1>3. CASE /\ blocked
           /\ needRetry' = [flags EXCEPT ![p] = TRUE]
           /\ refused' = [refused EXCEPT ![p] = TRUE]
           /\ UNCHANGED <<blocked, memBlockedPacket, unanswered, atMemory>>
  <2>1. TypeOK'
    BY <1>3 DEF TypeOK
  <2>2. AtMostOneAtMemory' /\ UnansweredFound'
    BY <1>3 DEF AtMostOneAtMemory, UnansweredFound, OnMemorySide
  <2>3. RetryOwed' /\ RoomForRetry'
    BY <1>3 DEF TypeOK, RetryOwed, RoomForRetry
  <2> QED
    BY <1>1, <2>1, <2>2, <2>3
<1> QED
  BY <1>2, <1>3 DEF recvTimingReq

(* A CPU port sends a request.                                             *)
LEMMA SendTimingReqStep ==
  ASSUME MemobjInv, NEW p \in Port, NEW accepted \in BOOLEAN,
         SendTimingReq(p, accepted)
  PROVE  MemobjInv'
<1>1. needRetry \in [Port -> BOOLEAN] /\ needRetry[p] = FALSE
  BY DEF MemobjInv, TypeOK, RetryOwed, SendTimingReq
<1>2. calls' \in CallsLeft /\ calls' \in Seq(Call)
  BY DEF MemobjInv, TypeOK, SendTimingReq
<1>3. \A q \in Port : Sending(q)' <=> Sending(q)
  BY DEF SendTimingReq, Sending, Calling
<1> QED
  BY <1>1, <1>2, <1>3, RequestStep DEF SendTimingReq

(* A call back to the CPU, once made, leaves no response among the rest.   *)
LEMMA CallMade ==
  ASSUME MemobjInv, calls # <<>>, calls' = Tail(calls)
  PROVE  /\ calls' \in CallsLeft /\ calls' \in Seq(Call)
         /\ \A q \in Port : ~Sending(q)'
<1>1. /\ calls' \in CallsLeft
      /\ calls' # <<>> => Head(calls').fn = "trySendRetry"
  BY CallsLeftShrink DEF MemobjInv
<1>2. calls' \in Seq(Call)
  BY <1>1, CallsLeftShrink
<1>3. ASSUME NEW q \in Port, Sending(q)' PROVE FALSE
  <2>1. calls' # <<>> /\ Head(calls') = [fn |-> "sendPacket", port |-> q]
    BY <1>3 DEF Sending, Calling
  <2> QED
    BY <1>1, <2>1
<1> QED
  BY <1>1, <1>2, <1>3

(* trySendRetry lets a port send its request again.                        *)
LEMMA SendRetryReqStep ==
  ASSUME MemobjInv, NEW p \in Port, NEW accepted \in BOOLEAN,
         SendRetryReq(p, accepted)
  PROVE  MemobjInv'
<1> DEFINE flags == [needRetry EXCEPT ![p] = FALSE]
<1>1. /\ flags \in [Port -> BOOLEAN] /\ flags[p] = FALSE
      /\ \A q \in Port \ {p} : flags[q] = needRetry[q]
  BY DEF MemobjInv, TypeOK
<1>2. calls' \in CallsLeft /\ calls' \in Seq(Call)
  BY CallMade DEF SendRetryReq, Calling
<1>3. \A q \in Port : Sending(q)' <=> Sending(q)
  <2>1. \A q \in Port : ~Sending(q)
    BY DEF SendRetryReq, Sending, Calling
  <2> QED
    BY <2>1, CallMade DEF SendRetryReq, Calling
<1>4. unanswered[p] < MaxUnanswered
  BY DEF MemobjInv, RetryOwed, RoomForRetry, SendRetryReq, MayRetry
<1>5. recvTimingReq(p, flags, accepted) /\ UNCHANGED <<blockedPacket, panicked>>
  BY DEF SendRetryReq
<1> HIDE DEF flags
<1> QED
  BY <1>1, <1>2, <1>3, <1>4, <1>5, RequestStep

(* trySendRetry finds nobody to retry.                                     *)
LEMMA NoRetryReqStep ==
  ASSUME MemobjInv, NEW p \in Port, NoRetryReq(p)
  PROVE  MemobjInv'
<1> USE DEF MemobjInv, NoRetryReq, objectVars, peerVars
<1>1. calls' \in CallsLeft /\ calls' \in Seq(Call)
  BY CallMade DEF Calling
<1>2. \A q \in Port : Sending(q)' <=> Sending(q)
  <2>1. \A q \in Port : ~Sending(q)
    BY DEF Sending, Calling
  <2> QED
    BY <2>1, CallMade DEF Calling
<1>3. TypeOK' /\ AtMostOneAtMemory'
  BY <1>1 DEF TypeOK, AtMostOneAtMemory, OnMemorySide
<1>4. UnansweredFound'
  BY <1>2 DEF UnansweredFound, OnMemorySide
<1>5. RetryOwed' /\ RoomForRetry' /\ OnlyRefusedKept' /\ OnlyRefusingPortsPanic'
  BY DEF RetryOwed, RoomForRetry, OnlyRefusedKept, OnlyRefusingPortsPanic
<1> QED
  BY <1>1, <1>3, <1>4, <1>5

(* Memory asks for the packet it refused.                                  *)
LEMMA RecvReqRetryStep ==
  ASSUME MemobjInv, NEW accepted \in BOOLEAN, RecvReqRetry(accepted)
  PROVE  MemobjInv'
<1> USE DEF MemobjInv, RecvReqRetry, memSendPacket
<1>1. memBlockedPacket \in Port
  BY DEF TypeOK, Packet
<1>2. TypeOK'
  BY <1>1 DEF TypeOK, Packet
<1>3. \A q \in Port : OnMemorySide(q)' = OnMemorySide(q)
  BY <1>1 DEF TypeOK, OnMemorySide, Port, None
<1>4. AtMostOneAtMemory'
  BY <1>3 DEF AtMostOneAtMemory, Port
<1>5. UnansweredFound'
  BY <1>3 DEF UnansweredFound, Sending, Calling
<1>6. RetryOwed' /\ RoomForRetry' /\ OnlyRefusedKept' /\ OnlyRefusingPortsPanic'
  BY DEF RetryOwed, RoomForRetry, OnlyRefusedKept, OnlyRefusingPortsPanic
<1> QED
  BY <1>2, <1>4, <1>5, <1>6

(* Memory answers, and the object is free before it calls the CPU.         *)
LEMMA HandleResponseStep ==
  ASSUME MemobjInv, NEW p \in Port, HandleResponse(p)
  PROVE  MemobjInv'
<1> USE DEF MemobjInv, HandleResponse
<1>1. calls' \in CallsLeft /\ calls' \in Seq(Call)
  BY CallsLeftShrink DEF CallsLeft
<1>2. \A q \in Port : ~Sending(q) /\ (Sending(q)' <=> q = p)
  BY DEF afterResponse, Sending, Calling
<1>3. TypeOK'
  <2>1. atMemory[p] - 1 \in Nat
    BY DEF TypeOK
  <2> QED
    BY <1>1, <2>1 DEF TypeOK
<1>4. AtMostOneAtMemory'
  BY DEF TypeOK, AtMostOneAtMemory, OnMemorySide, Port, None
<1>5. UnansweredFound'
  BY <1>2 DEF TypeOK, UnansweredFound, OnMemorySide
<1>6. RetryOwed' /\ RoomForRetry' /\ OnlyRefusedKept' /\ OnlyRefusingPortsPanic'
  BY DEF RetryOwed, RoomForRetry, OnlyRefusedKept, OnlyRefusingPortsPanic
<1> QED
  BY <1>1, <1>3, <1>4, <1>5, <1>6

(* The CPU is sent its response, and takes it or leaves it.                *)
LEMMA SendResponseStep ==
  ASSUME MemobjInv, NEW p \in Port, NEW accepted \in BOOLEAN,
         SendResponse(p, accepted)
  PROVE  MemobjInv'
<1> USE DEF MemobjInv, SendResponse, cpuSendPacket
<1>1. /\ calls' \in CallsLeft /\ calls' \in Seq(Call)
      /\ \A q \in Port : ~Sending(q)'
  BY CallMade DEF Calling
<1>2. \A q \in Port : Sending(q) <=> q = p
  BY DEF Sending, Calling
<1>3. unanswered[p] >= 1
  BY <1>2, OnMemorySideNat DEF UnansweredFound
<1>4. TypeOK'
  BY <1>1, <1>3, MemobjConstants DEF TypeOK, Packet
<1>5. AtMostOneAtMemory'
  BY DEF AtMostOneAtMemory, OnMemorySide
<1>6. UnansweredFound'
  BY <1>1, <1>2 DEF TypeOK, UnansweredFound, OnMemorySide, Packet, Port, None
<1>7. RetryOwed' /\ RoomForRetry'
  BY MemobjConstants DEF TypeOK, RetryOwed, RoomForRetry
<1>8. OnlyRefusedKept' /\ OnlyRefusingPortsPanic'
  BY DEF TypeOK, OnlyRefusedKept, OnlyRefusingPortsPanic
<1> QED
  BY <1>1, <1>4, <1>5, <1>6, <1>7, <1>8

(* The CPU asks for the response it refused.                               *)
LEMMA RecvRespRetryStep ==
  ASSUME MemobjInv, NEW p \in Port, NEW accepted \in BOOLEAN,
         RecvRespRetry(p, accepted)
  PROVE  MemobjInv'
<1> USE DEF MemobjInv, RecvRespRetry, cpuSendPacket
<1>1. \A q \in Port : ~Sending(q) /\ ~Sending(q)'
  BY DEF Sending, Calling
<1>2. unanswered[p] >= 1
  BY <1>1, OnMemorySideNat DEF UnansweredFound
<1>3. TypeOK'
  BY <1>2, MemobjConstants DEF TypeOK, Packet
<1>4. AtMostOneAtMemory'
  BY DEF AtMostOneAtMemory, OnMemorySide
<1>5. UnansweredFound'
  BY <1>1 DEF TypeOK, UnansweredFound, OnMemorySide, Packet, Port, None
<1>6. RetryOwed' /\ RoomForRetry'
  BY MemobjConstants DEF TypeOK, RetryOwed, RoomForRetry
<1>7. OnlyRefusedKept' /\ OnlyRefusingPortsPanic'
  BY DEF TypeOK, OnlyRefusedKept, OnlyRefusingPortsPanic
<1> QED
  BY <1>3, <1>4, <1>5, <1>6, <1>7

(* Of the three faults only a second response to a port can occur, and     *)
(* only at one that has refused the first.                                 *)
LEMMA PanicStep ==
  ASSUME MemobjInv, Panic
  PROVE  MemobjInv'
<1> USE DEF MemobjInv
<1>1. PICK fault \in Faults : panicked' = fault
  BY DEF Panic
<1>2. UNCHANGED <<objectVars, calls, peerVars>>
  BY DEF Panic
<1>3. \E p \in Port : /\ fault = <<"sendPacket to the CPU", p>>
                      /\ blockedPacket[p] # None
  <2>1. ASSUME NEW p \in Port, ~blocked, memBlockedPacket # None
        PROVE  FALSE
    BY <2>1 DEF TypeOK, AtMostOneAtMemory, OnMemorySide, Packet, Port
  <2>2. ASSUME NEW p \in Port, atMemory[p] > 0, ~blocked
        PROVE  FALSE
    BY <2>2 DEF TypeOK, AtMostOneAtMemory, OnMemorySide, Port
  <2> QED
    BY <2>1, <2>2 DEF Faults
<1>4. TypeOK'
  <2>1. \A p \in Port : <<"sendPacket to the CPU", p>> \in Fault
    BY DEF Fault
  <2>2. panicked' \in Fault
    BY <1>1, <1>3, <2>1
  <2> QED
    BY <1>2, <2>2 DEF TypeOK, objectVars, peerVars
<1>5. AtMostOneAtMemory' /\ UnansweredFound'
  BY <1>2 DEF AtMostOneAtMemory, UnansweredFound, OnMemorySide, Sending,
              Calling, objectVars, peerVars
<1>6. RetryOwed' /\ RoomForRetry' /\ OnlyRefusedKept'
  BY <1>2 DEF RetryOwed, RoomForRetry, OnlyRefusedKept, objectVars, peerVars
<1>7. OnlyRefusingPortsPanic'
  <2>1. PICK p \in Port : /\ fault = <<"sendPacket to the CPU", p>>
                         /\ p \in Refusing
    BY <1>3 DEF OnlyRefusedKept
  <2>2. panicked'[1] = "sendPacket to the CPU" /\ panicked'[2] = p
    BY <1>1, <2>1
  <2> QED
    BY <2>1, <2>2 DEF OnlyRefusingPortsPanic
<1> QED
  BY <1>2, <1>4, <1>5, <1>6, <1>7

(* Every step keeps the invariant.                                         *)
LEMMA MemobjNext == MemobjInv /\ [Next]_vars => MemobjInv'
<1> SUFFICES ASSUME MemobjInv, [Next]_vars PROVE MemobjInv'
  OBVIOUS
<1>1. ASSUME NEW p \in Port, NEW accepted \in BOOLEAN, PortStep(p, accepted)
      PROVE  MemobjInv'
  BY <1>1, SendTimingReqStep, SendResponseStep, SendRetryReqStep,
     RecvRespRetryStep DEF PortStep
<1>2. ASSUME NEW accepted \in BOOLEAN, RecvReqRetry(accepted)
      PROVE  MemobjInv'
  BY <1>2, RecvReqRetryStep
<1>3. ASSUME NEW p \in Port, HandleResponse(p) \/ NoRetryReq(p)
      PROVE  MemobjInv'
  BY <1>3, HandleResponseStep, NoRetryReqStep
<1>4. CASE Panic
  BY <1>4, PanicStep
<1>5. CASE UNCHANGED vars
  BY <1>5 DEF MemobjInv, vars, objectVars, peerVars, TypeOK, AtMostOneAtMemory,
              UnansweredFound, OnMemorySide, Sending, Calling, RetryOwed,
              RoomForRetry, OnlyRefusedKept, OnlyRefusingPortsPanic
<1> QED
  BY <1>1, <1>2, <1>3, <1>4, <1>5 DEF Next

LEMMA MemobjInvariant == Spec => []MemobjInv
  BY MemobjInit, MemobjNext, PTL DEF Spec

-----------------------------------------------------------------------------
(* Type correctness; in particular no port has more requests unanswered    *)
(* than it may, its retries included.                                      *)
THEOREM MemobjTypeCorrect == Spec => []TypeOK
<1>1. MemobjInv => TypeOK
  BY DEF MemobjInv
<1> QED
  BY <1>1, MemobjInvariant, PTL

(* The object is blocked exactly while one request is on the memory side,  *)
(* and no request or response is lost or sent twice: recvTimingReq,        *)
(* sendPacket and recvReqRetry, and the calls handleResponse makes.        *)
THEOREM MemobjRequestsAccounted == Spec => []RequestsAccounted
<1>1. ASSUME MemobjInv PROVE RequestsAccounted
  <2>1. ASSUME NEW p \in Port
        PROVE  OnCPUSide(p) = (IF Sending(p) THEN 1 ELSE 0)
                                + (IF blockedPacket[p] # None THEN 1 ELSE 0)
    BY <1>1, ResponseFirst DEF MemobjInv, OnCPUSide, Sending, Calling
  <2>2. ASSUME NEW p \in Port
        PROVE  unanswered[p] = OnMemorySide(p) + OnCPUSide(p)
    BY <1>1, <2>1, OnMemorySideNat DEF MemobjInv, UnansweredFound
  <2> QED
    BY <1>1, <2>2 DEF MemobjInv, AtMostOneAtMemory, RequestsAccounted
<1> QED
  BY <1>1, MemobjInvariant, PTL

(* CPUSidePort::needRetry is set exactly for the ports that wait for a     *)
(* retry.                                                                  *)
THEOREM MemobjRetryOwed == Spec => []RetryOwed
<1>1. MemobjInv => RetryOwed
  BY DEF MemobjInv
<1> QED
  BY <1>1, MemobjInvariant, PTL

(* The only panic is that of CPUSidePort::sendPacket, at a port that has   *)
(* refused a response.                                                     *)
THEOREM MemobjOnlyRefusingPortsPanic == Spec => []OnlyRefusingPortsPanic
<1>1. MemobjInv => OnlyRefusingPortsPanic
  BY DEF MemobjInv
<1> QED
  BY <1>1, MemobjInvariant, PTL

=============================================================================
