------------------------- MODULE SimpleCacheProofs -------------------------
(***************************************************************************)
(* Proofs about SimpleCache, for any ports, addresses, blocks, contents    *)
(* and capacity, and whoever refuses what.                                 *)
(***************************************************************************)
EXTENDS SimpleCache, FiniteSetTheorems, SequenceTheorems, TLAPS

-----------------------------------------------------------------------------
(* The stages of a request.  None is under way, or it waits for its        *)
(* access, or a read or write of a whole block is on the memory side.      *)
Idle ==
  /\ ~blocked /\ waitingPortId = -1
  /\ accessEvent = None /\ outstandingPacket = None
  /\ memBlockedPacket = None /\ atMemory = {}

Accessing ==
  /\ blocked
  /\ accessEvent # None /\ accessEvent \in Request(waitingPortId)
  /\ waitingPortId \in Port
  /\ outstandingPacket = None
  /\ memBlockedPacket = None /\ atMemory = {}

AtMemorySide(pkt) ==
  /\ blocked
  /\ accessEvent = None
  /\ \/ memBlockedPacket = pkt /\ atMemory = {}
     \/ memBlockedPacket = None /\ atMemory = {pkt}
  /\ waitingPortId \in Port /\ pkt.port = waitingPortId
  /\ pkt.words = Word
  /\ pkt.addr \notin Cached(cacheStore)

(* The packet is the one the port sent, or reads the block which the one   *)
(* that waits needs.  A write that memory has accepted is in memory.       *)
Forwarded(pkt) ==
  /\ AtMemorySide(pkt)
  /\ outstandingPacket = None
  /\ pkt \in Request(waitingPortId)
  /\ pkt \in atMemory /\ pkt.cmd = "WriteReq" => memory[pkt.addr] = pkt.data

Waiting(pkt) ==
  /\ AtMemorySide(pkt)
  /\ outstandingPacket # None /\ outstandingPacket \in Request(waitingPortId)
  /\ pkt = Upgraded(outstandingPacket)

OneStage ==
  Idle \/ Accessing \/ \E pkt \in Packet : Forwarded(pkt) \/ Waiting(pkt)

(* Only the first of the calls left can be the response, and its port is   *)
(* free for it; so is the port of the request under way.                   *)
ResponseFirst ==
  \A i \in DOMAIN calls : i # 1 => calls[i].fn = "trySendRetry"

PortsFree ==
  \A p \in Port :
    /\ waitingPortId = p => blockedPacket[p] = None /\ ~Calling("sendPacket", p)
    /\ Calling("sendPacket", p) => blockedPacket[p] = None

(* Memory owes a retry for the packet kept, unless for a lost writeback.   *)
RetryDueFor ==
  memRetryDue /\ memBlockedPacket = None => "WritebackDirty" \in MemRefuses

StoreFits == IsFiniteSet(Cached(cacheStore)) /\ CapacityKept

CacheInv ==
  /\ TypeOK
  /\ OneStage
  /\ ResponseFirst
  /\ PortsFree
  /\ RetryDueFor
  /\ StoreFits
  /\ OnlyLostWritebackPanics

-----------------------------------------------------------------------------
(* Packets and blocks.                                                     *)

LEMMA NoPortIsNone == -1 \notin Port
  BY CacheConstants DEF Port, CacheConstants

(* A port's requests are packets of that port, and no packet is None.      *)
LEMMA RequestType ==
  ASSUME NEW p \in Port, NEW pkt \in Request(p)
  PROVE  /\ pkt \in Packet
         /\ pkt.port = p
         /\ pkt # None
<1>1. \A d \in Data : Uniform(d) \in Block
  BY DEF Uniform, Block
<1>2. pkt \in Packet /\ pkt.port = p
  BY <1>1, CacheConstants DEF CacheConstants, Request, Requests, Packet
<1> QED
  BY <1>2, NoPortIsNone DEF None

LEMMA PacketNotNone ==
  ASSUME NEW pkt \in Packet
  PROVE  pkt # None /\ pkt.port # -1
  BY NoPortIsNone DEF Packet, None

(* Words of a packet written to a block, or of a block read into a packet. *)
LEMMA DataType ==
  ASSUME NEW pkt \in Packet, NEW block \in Block
  PROVE  /\ writeDataToBlock(pkt, block) \in Block
         /\ setDataFromBlock(pkt, block) \in Packet
         /\ Upgraded(pkt) \in Packet
<1>1. pkt.data \in Block
  BY DEF Packet
<1>2. writeDataToBlock(pkt, block) \in Block
  BY <1>1 DEF writeDataToBlock, Block
<1>3. [w \in Word |-> IF w \in pkt.words THEN block[w] ELSE pkt.data[w]] \in Block
  BY <1>1 DEF Block
<1>4. setDataFromBlock(pkt, block) \in Packet
  BY <1>3 DEF setDataFromBlock, Packet
<1>5. Uniform(ZeroData) \in Block
  BY CacheConstants DEF CacheConstants, Uniform, Block
<1>6. Upgraded(pkt) \in Packet
  BY <1>5 DEF Upgraded, Packet
<1> QED
  BY <1>2, <1>4, <1>6

(* An access to a block in the store keeps its blocks where they are.      *)
LEMMA AccessedType ==
  ASSUME NEW store \in [Addr -> Block \cup {None}], NEW pkt \in Packet,
         pkt.addr \in Cached(store)
  PROVE  /\ accessed(store, pkt).store \in [Addr -> Block \cup {None}]
         /\ accessed(store, pkt).pkt \in Packet
         /\ Cached(accessed(store, pkt).store) = Cached(store)
         /\ \A a \in Addr : a # pkt.addr =>
              accessed(store, pkt).store[a] = store[a]
<1>1. pkt.addr \in Addr /\ store[pkt.addr] \in Block
  BY DEF Packet, Cached
<1>2. /\ writeDataToBlock(pkt, store[pkt.addr]) \in Block
      /\ setDataFromBlock(pkt, store[pkt.addr]) \in Packet
  BY <1>1, DataType
<1>3. CASE pkt.cmd = "WriteReq"
  <2> DEFINE s == [store EXCEPT ![pkt.addr] = writeDataToBlock(pkt, @)]
  <2>1. accessed(store, pkt).store = s /\ accessed(store, pkt).pkt = pkt
    BY <1>3 DEF accessed
  <2>2. /\ s \in [Addr -> Block \cup {None}]
        /\ s[pkt.addr] \in Block
        /\ \A a \in Addr : a # pkt.addr => s[a] = store[a]
    BY <1>1, <1>2
  <2>3. Cached(s) = Cached(store)
    BY <1>1, <2>2, NoneIsNoBlock DEF Cached
  <2> QED
    BY <2>1, <2>2, <2>3
<1>4. CASE pkt.cmd # "WriteReq"
  BY <1>2, <1>4 DEF accessed
<1> QED
  BY <1>3, <1>4

(* sendResponse leaves the response and a retry for each port to call.     *)
LEMMA SendResponseCalls ==
  ASSUME NEW pkt \in Packet, waitingPortId \in Port, sendResponse(pkt)
  PROVE  /\ calls' \in Seq(Call) /\ ResponseFirst'
         /\ calls' # <<>>
         /\ Head(calls') =
              [fn |-> "sendPacket", port |-> waitingPortId, pkt |-> pkt]
         /\ \A q \in Port : Calling("sendPacket", q)' => q = waitingPortId
<1> DEFINE first == [fn |-> "sendPacket", port |-> waitingPortId, pkt |-> pkt]
<1>1. /\ first \in Call /\ first.port = waitingPortId
      /\ \A q \in Port : [fn |-> "trySendRetry", port |-> q] \in Call
  BY DEF Call
<1>2. /\ tryRetries \in Seq(Call)
      /\ \A i \in 1..NumPorts : tryRetries[i].fn = "trySendRetry"
      /\ Len(tryRetries) = NumPorts
  <2>1. tryRetries \in [1..NumPorts -> Call]
    BY <1>1 DEF tryRetries, Port
  <2> QED
    BY <2>1, CacheConstants DEF CacheConstants, tryRetries, Port
<1>3. calls' = <<first>> \o tryRetries
  BY DEF sendResponse
<1> HIDE DEF first
<1>4. /\ <<first>> \in Seq(Call) /\ Len(<<first>>) = 1 /\ <<first>>[1] = first
  BY <1>1
<1>5. /\ calls' \in Seq(Call) /\ Len(calls') = 1 + NumPorts
      /\ \A i \in 1..(1 + NumPorts) :
           calls'[i] = IF i <= 1 THEN <<first>>[i] ELSE tryRetries[i - 1]
  BY <1>2, <1>3, <1>4, ConcatProperties
<1>6. calls'[1] = first /\ calls' # <<>> /\ Head(calls') = first
  BY <1>4, <1>5, CacheConstants DEF CacheConstants
<1>7. ASSUME NEW i \in DOMAIN calls', i # 1 PROVE calls'[i].fn = "trySendRetry"
  <2>1. i \in 2..(1 + NumPorts)
    BY <1>5, <1>7, CacheConstants DEF CacheConstants
  <2>2. i - 1 \in 1..NumPorts /\ ~(i <= 1) /\ i \in 1..(1 + NumPorts)
    BY <2>1, CacheConstants DEF CacheConstants
  <2> QED
    BY <1>2, <1>5, <2>2
<1>8. \A q \in Port : Calling("sendPacket", q)' => q = waitingPortId
  BY <1>1, <1>6 DEF Calling
<1> QED
  BY <1>5, <1>6, <1>7, <1>8 DEF ResponseFirst, first

(* Once the first of the calls is made, no response is left among them.    *)
LEMMA CallMade ==
  ASSUME TypeOK, ResponseFirst, calls # <<>>, calls' = Tail(calls)
  PROVE  /\ calls' \in Seq(Call)
         /\ ResponseFirst'
         /\ \A p \in Port : ~Calling("sendPacket", p)'
<1>1. calls \in Seq(Call)
  BY DEF TypeOK
<1>2. /\ calls' \in Seq(Call) /\ Len(calls') = Len(calls) - 1
      /\ \A i \in 1..Len(calls') : calls'[i] = calls[i + 1]
  BY <1>1, HeadTailProperties
<1>3. Len(calls) \in Nat /\ DOMAIN calls = 1..Len(calls)
      /\ DOMAIN calls' = 1..Len(calls')
  BY <1>1, <1>2, LenProperties
<1>4. ASSUME NEW i \in DOMAIN calls' PROVE calls'[i].fn = "trySendRetry"
  <2>1. i + 1 \in DOMAIN calls /\ i + 1 # 1 /\ calls'[i] = calls[i + 1]
    BY <1>2, <1>3
  <2> QED
    BY <2>1 DEF ResponseFirst
<1>5. calls' # <<>> => Head(calls') = calls'[1] /\ 1 \in DOMAIN calls'
  BY <1>2, <1>3
<1> QED
  BY <1>2, <1>4, <1>5 DEF ResponseFirst, Calling

-----------------------------------------------------------------------------
(* The invariant holds at start.                                           *)
LEMMA CacheInit == Init => CacheInv
<1> SUFFICES ASSUME Init PROVE CacheInv
  OBVIOUS
<1>1. Uniform(ZeroData) \in Block
  BY CacheConstants DEF CacheConstants, Uniform, Block
<1>2. calls = <<>> /\ calls \in Seq(Call)
  BY DEF Init
<1>3. TypeOK
  BY <1>1, <1>2 DEF Init, TypeOK
<1>4. OneStage
  BY DEF Init, OneStage, Idle
<1>5. ResponseFirst /\ PortsFree
  BY <1>2 DEF Init, ResponseFirst, PortsFree, Calling
<1>6. RetryDueFor /\ OnlyLostWritebackPanics
  BY DEF Init, RetryDueFor, OnlyLostWritebackPanics
<1>7. Cached(cacheStore) = {}
  BY DEF Init, Cached
<1>8. StoreFits
  BY <1>7, FS_EmptySet, CacheConstants DEF StoreFits, CapacityKept, CacheConstants
<1> QED
  BY <1>3, <1>4, <1>5, <1>6, <1>8 DEF CacheInv

(* A stage lasts while what it speaks of is unchanged.                     *)
stageVars ==
  <<blocked, waitingPortId, accessEvent, outstandingPacket, memBlockedPacket,
    atMemory, cacheStore, memory>>

LEMMA SameStage ==
  ASSUME OneStage, UNCHANGED stageVars
  PROVE  OneStage'
<1> USE DEF stageVars
<1>1. CASE Idle
  BY <1>1 DEF Idle, OneStage
<1>2. CASE Accessing
  BY <1>2 DEF Accessing, OneStage
<1>3. ASSUME NEW pkt \in Packet, Forwarded(pkt) PROVE OneStage'
  <2>1. Forwarded(pkt)'
    BY <1>3 DEF Forwarded, AtMemorySide
  <2> QED
    BY <2>1 DEF OneStage
<1>4. ASSUME NEW pkt \in Packet, Waiting(pkt) PROVE OneStage'
  <2>1. Waiting(pkt)'
    BY <1>4 DEF Waiting, AtMemorySide
  <2> QED
    BY <2>1 DEF OneStage
<1> QED
  BY <1>1, <1>2, <1>3, <1>4 DEF OneStage

(* A request that comes: taken if the cache and the port are free.         *)
LEMMA RequestStep ==
  ASSUME CacheInv, NEW p \in Port, NEW pkt \in Request(p),
         NEW flags \in [Port -> BOOLEAN],
         recvTimingReq(p, pkt, flags),
         ~Calling("sendPacket", p),
         calls' \in Seq(Call), ResponseFirst',
         \A q \in Port : Calling("sendPacket", q)' => Calling("sendPacket", q),
         UNCHANGED <<outstandingPacket, cacheStore, blockedPacket, memSideVars,
                     panicked>>
  PROVE  CacheInv'
<1> USE DEF CacheInv, memSideVars
<1>1. StoreFits' /\ RetryDueFor' /\ OnlyLostWritebackPanics'
  BY DEF StoreFits, CapacityKept, RetryDueFor, OnlyLostWritebackPanics
<1>2. pkt \in Packet /\ pkt # None
  BY RequestType
<1>3. CASE /\ ~portBusy(p, flags)
           /\ handleRequest(p, pkt)
           /\ needRetry' = flags
           /\ refused' = [refused EXCEPT ![p] = FALSE]
  <2>1. TypeOK'
    BY <1>2, <1>3 DEF TypeOK, handleRequest
  <2>2. Idle
    BY <1>3 DEF OneStage, Accessing, Forwarded, Waiting, AtMemorySide,
                handleRequest
  <2>3. Accessing'
    BY <1>2, <1>3, <2>2 DEF Idle, Accessing, handleRequest
  <2>4. PortsFree'
    BY <1>3 DEF PortsFree, handleRequest, portBusy
  <2> QED
    BY <1>1, <2>1, <2>3, <2>4 DEF OneStage
<1>4. CASE /\ needRetry' = [flags EXCEPT ![p] = TRUE]
           /\ refused' = [refused EXCEPT ![p] = TRUE]
           /\ UNCHANGED <<blocked, waitingPortId, accessEvent>>
  <2>1. TypeOK'
    BY <1>4 DEF TypeOK
  <2>2. OneStage'
    BY <1>4, SameStage DEF stageVars
  <2>3. PortsFree'
    BY <1>4 DEF PortsFree
  <2> QED
    BY <1>1, <2>1, <2>2, <2>3
<1> QED
  BY <1>3, <1>4 DEF recvTimingReq

LEMMA SendTimingReqStep ==
  ASSUME CacheInv, NEW p \in Port, NEW pkt \in Request(p), SendTimingReq(p, pkt)
  PROVE  CacheInv'
<1>1. /\ needRetry \in [Port -> BOOLEAN]
      /\ calls' \in Seq(Call) /\ ResponseFirst'
  BY DEF CacheInv, TypeOK, ResponseFirst, SendTimingReq
<1>2. \A q \in Port : Calling("sendPacket", q)' => Calling("sendPacket", q)
  BY DEF SendTimingReq, Calling
<1> QED
  BY <1>1, <1>2, RequestStep DEF SendTimingReq

LEMMA SendRetryReqStep ==
  ASSUME CacheInv, NEW p \in Port, NEW pkt \in Request(p), SendRetryReq(p, pkt)
  PROVE  CacheInv'
<1> DEFINE flags == [needRetry EXCEPT ![p] = FALSE]
<1>1. flags \in [Port -> BOOLEAN]
  BY DEF CacheInv, TypeOK
<1>2. /\ calls' \in Seq(Call) /\ ResponseFirst'
      /\ \A q \in Port : ~Calling("sendPacket", q)'
  BY CallMade DEF CacheInv, SendRetryReq, Calling
<1>3. ~Calling("sendPacket", p)
  BY DEF SendRetryReq, Calling
<1>4. /\ recvTimingReq(p, pkt, flags)
      /\ UNCHANGED <<outstandingPacket, cacheStore, blockedPacket, memSideVars,
                     panicked>>
  BY DEF SendRetryReq
<1> HIDE DEF flags
<1> QED
  BY <1>1, <1>2, <1>3, <1>4, RequestStep

LEMMA NoRetryReqStep ==
  ASSUME CacheInv, NEW p \in Port, NoRetryReq(p)
  PROVE  CacheInv'
<1> USE DEF CacheInv, NoRetryReq, missVars, cpuSideVars, memSideVars
<1>1. /\ calls' \in Seq(Call) /\ ResponseFirst'
      /\ \A q \in Port : ~Calling("sendPacket", q)'
  BY CallMade DEF Calling
<1>2. TypeOK'
  BY <1>1 DEF TypeOK
<1>3. OneStage'
  BY SameStage DEF stageVars
<1>4. PortsFree'
  BY <1>1 DEF PortsFree
<1>5. StoreFits' /\ RetryDueFor' /\ OnlyLostWritebackPanics'
  BY DEF StoreFits, CapacityKept, RetryDueFor, OnlyLostWritebackPanics
<1> QED
  BY <1>1, <1>2, <1>3, <1>4, <1>5

(* The CPU is sent its response, and takes it or leaves it.                *)
LEMMA SendResponseStep ==
  ASSUME CacheInv, NEW p \in Port, NEW accepted \in BOOLEAN,
         SendResponse(p, accepted)
  PROVE  CacheInv'
<1> USE DEF CacheInv, SendResponse, missVars, memSideVars
<1>1. /\ calls' \in Seq(Call) /\ ResponseFirst'
      /\ \A q \in Port : ~Calling("sendPacket", q)'
  BY CallMade DEF Calling
<1>2. Head(calls).pkt \in Packet
  <2>1. Head(calls) \in Call /\ Head(calls).fn = "sendPacket"
    BY DEF TypeOK, Calling
  <2> QED
    BY <2>1 DEF Call
<1>3. TypeOK'
  BY <1>1, <1>2 DEF TypeOK, cpuSendPacket
<1>4. OneStage'
  BY SameStage DEF stageVars
<1>5. PortsFree'
  BY <1>1 DEF TypeOK, PortsFree, cpuSendPacket
<1>6. StoreFits' /\ RetryDueFor' /\ OnlyLostWritebackPanics'
  BY DEF StoreFits, CapacityKept, RetryDueFor, OnlyLostWritebackPanics
<1> QED
  BY <1>1, <1>3, <1>4, <1>5, <1>6

(* The CPU asks for the response it refused.                               *)
LEMMA RecvRespRetryStep ==
  ASSUME CacheInv, NEW p \in Port, NEW accepted \in BOOLEAN,
         RecvRespRetry(p, accepted)
  PROVE  CacheInv'
<1> USE DEF CacheInv, RecvRespRetry, missVars, memSideVars
<1> DEFINE retry == [fn |-> "trySendRetry", port |-> p]
<1>1. retry \in Call /\ retry.fn = "trySendRetry" /\ calls' = <<retry>>
  BY DEF Call, afterRespRetry
<1> HIDE DEF retry
<1>2. /\ calls' \in Seq(Call) /\ Head(calls') = retry
      /\ DOMAIN calls' = {1}
  BY <1>1
<1>3. ResponseFirst' /\ \A q \in Port : ~Calling("sendPacket", q)'
  BY <1>1, <1>2 DEF ResponseFirst, Calling
<1>4. TypeOK'
  BY <1>2 DEF TypeOK, cpuSendPacket
<1>5. OneStage'
  BY SameStage DEF stageVars
<1>6. PortsFree'
  BY <1>3 DEF TypeOK, PortsFree, cpuSendPacket
<1>7. StoreFits' /\ RetryDueFor' /\ OnlyLostWritebackPanics'
  BY DEF StoreFits, CapacityKept, RetryDueFor, OnlyLostWritebackPanics
<1> QED
  BY <1>2, <1>3, <1>4, <1>5, <1>6, <1>7

-----------------------------------------------------------------------------
(* The access of a packet finds its block.                                 *)
LEMMA AccessHitStep ==
  ASSUME CacheInv, AccessHit
  PROVE  CacheInv'
<1> DEFINE pkt == accessEvent
           result == accessed(cacheStore, pkt)
<1> USE DEF CacheInv
<1>1. Accessing
  BY DEF AccessHit, OneStage, Idle, Forwarded, Waiting, AtMemorySide
<1>2. pkt \in Packet /\ waitingPortId \in Port
  BY <1>1, RequestType DEF Accessing
<1>3. /\ result.store \in [Addr -> Block \cup {None}]
      /\ result.pkt \in Packet
      /\ Cached(result.store) = Cached(cacheStore)
  BY <1>2, AccessedType DEF AccessHit, TypeOK
<1>4. /\ cacheStore' = result.store /\ accessEvent' = None
      /\ sendResponse(result.pkt)
      /\ UNCHANGED <<outstandingPacket, cpuSideVars, memSideVars, panicked>>
  BY DEF AccessHit
<1> HIDE DEF result
<1>5. /\ calls' \in Seq(Call) /\ ResponseFirst'
      /\ \A q \in Port : Calling("sendPacket", q)' => q = waitingPortId
  BY <1>2, <1>3, <1>4, SendResponseCalls
<1>6. TypeOK'
  BY <1>3, <1>4, <1>5 DEF TypeOK, sendResponse, cpuSideVars, memSideVars
<1>7. Idle'
  BY <1>1, <1>4 DEF Accessing, Idle, sendResponse, memSideVars
<1>8. PortsFree'
  BY <1>4, <1>5, NoPortIsNone DEF PortsFree, sendResponse, cpuSideVars
<1>9. StoreFits' /\ RetryDueFor' /\ OnlyLostWritebackPanics'
  BY <1>3, <1>4 DEF StoreFits, CapacityKept, RetryDueFor,
                    OnlyLostWritebackPanics, memSideVars
<1> QED
  BY <1>5, <1>6, <1>7, <1>8, <1>9 DEF OneStage

(* What memory accepts, it has; a whole block it accepts is in memory.     *)
LEMMA MemSendPacketStep ==
  ASSUME TypeOK, NEW pkt \in Packet, NEW accepted \in BOOLEAN,
         memSendPacket(pkt, accepted)
  PROVE  /\ memBlockedPacket' \in Packet \cup {None}
         /\ atMemory' \in SUBSET Packet
         /\ memory' \in [Addr -> Block]
         /\ accepted => memBlockedPacket' = None /\ atMemory' = atMemory \cup {pkt}
         /\ ~accepted => memBlockedPacket' = pkt /\ atMemory' = atMemory
         /\ accepted /\ pkt.cmd = "WriteReq" /\ pkt.words = Word =>
              memory'[pkt.addr] = pkt.data
<1>1. pkt.addr \in Addr /\ pkt.data \in Block /\ memory[pkt.addr] \in Block
  BY DEF Packet, TypeOK
<1>2. writeDataToBlock(pkt, memory[pkt.addr]) \in Block
  BY <1>1, DataType
<1>3. pkt.words = Word => writeDataToBlock(pkt, memory[pkt.addr]) = pkt.data
  BY <1>1 DEF writeDataToBlock, Block
<1>4. memory' \in [Addr -> Block]
  BY <1>2 DEF TypeOK, memSendPacket, memAccepts
<1>5. accepted /\ pkt.cmd = "WriteReq" /\ pkt.words = Word =>
        memory'[pkt.addr] = pkt.data
  BY <1>1, <1>3 DEF TypeOK, memSendPacket, memAccepts
<1> QED
  BY <1>4, <1>5 DEF TypeOK, memSendPacket, memAccepts

(* The access of a packet misses: the packet or an upgraded read of its    *)
(* block goes to memory.                                                   *)
LEMMA AccessMissStep ==
  ASSUME CacheInv, NEW accepted \in BOOLEAN, AccessMiss(accepted)
  PROVE  CacheInv'
<1> DEFINE pkt == accessEvent
           sent == IF pkt.words = Word THEN pkt ELSE Upgraded(pkt)
<1> USE DEF CacheInv, AccessMiss
<1>1. Accessing
  BY DEF OneStage, Idle, Forwarded, Waiting, AtMemorySide
<1>2. /\ pkt \in Request(waitingPortId) /\ waitingPortId \in Port
      /\ pkt \in Packet /\ pkt # None /\ pkt.port = waitingPortId
      /\ outstandingPacket = None /\ blocked
      /\ memBlockedPacket = None /\ atMemory = {}
  BY <1>1, RequestType DEF Accessing
<1>3. Uniform(ZeroData) \in Block
  BY CacheConstants DEF CacheConstants, Uniform, Block
<1>4. Upgraded(pkt) \in Packet
  BY <1>2, <1>3, DataType
<1>5. /\ sent \in Packet /\ sent.words = Word
      /\ sent.port = pkt.port /\ sent.addr = pkt.addr
  BY <1>2, <1>4 DEF Upgraded, Packet
<1>6. /\ memSendPacket(sent, accepted)
      /\ outstandingPacket' = IF pkt.words = Word THEN None ELSE pkt
      /\ memRetryDue' = (memRetryDue \/ ~accepted)
      /\ accessEvent' = None
      /\ pkt.addr \notin Cached(cacheStore)
      /\ UNCHANGED <<blocked, waitingPortId, cacheStore, calls, cpuSideVars,
                     panicked>>
  BY <1>2
<1>7. /\ memBlockedPacket' \in Packet \cup {None}
      /\ atMemory' \in SUBSET Packet
      /\ memory' \in [Addr -> Block]
      /\ accepted => memBlockedPacket' = None /\ atMemory' = {sent}
      /\ ~accepted => memBlockedPacket' = sent /\ atMemory' = {}
      /\ accepted /\ sent.cmd = "WriteReq" => memory'[sent.addr] = sent.data
  BY <1>2, <1>5, <1>6, MemSendPacketStep
<1>8. TypeOK'
  BY <1>2, <1>6, <1>7 DEF TypeOK, cpuSideVars
<1>9. PICK q : q = sent
  OBVIOUS
<1>10. OneStage'
  <2>1. AtMemorySide(q)'
    BY <1>2, <1>5, <1>6, <1>7, <1>9 DEF AtMemorySide
  <2>2. CASE pkt.words = Word
    <3>1. Forwarded(q)'
      BY <1>2, <1>6, <1>7, <1>9, <2>1, <2>2 DEF Forwarded
    <3> QED
      BY <1>5, <1>9, <3>1 DEF OneStage
  <2>3. CASE pkt.words # Word
    <3>1. Waiting(q)'
      BY <1>2, <1>6, <1>9, <2>1, <2>3 DEF Waiting
    <3> QED
      BY <1>5, <1>9, <3>1 DEF OneStage
  <2> QED
    BY <2>2, <2>3
<1>11. ResponseFirst' /\ PortsFree'
  BY <1>6 DEF ResponseFirst, PortsFree, Calling, cpuSideVars
<1>12. RetryDueFor'
  BY <1>2, <1>5, <1>6, <1>7, PacketNotNone DEF RetryDueFor
<1>13. StoreFits' /\ OnlyLostWritebackPanics'
  BY <1>6 DEF StoreFits, CapacityKept, OnlyLostWritebackPanics
<1> QED
  BY <1>8, <1>10, <1>11, <1>12, <1>13

(* Memory asks for the packet it refused.                                  *)
LEMMA RecvReqRetryStep ==
  ASSUME CacheInv, NEW accepted \in BOOLEAN, RecvReqRetry(accepted)
  PROVE  CacheInv'
<1> DEFINE pkt == memBlockedPacket
<1> USE DEF CacheInv
<1>1. /\ pkt \in Packet /\ pkt # None
      /\ memSendPacket(pkt, accepted)
      /\ memRetryDue' = ~accepted
      /\ UNCHANGED <<blocked, waitingPortId, missVars, calls, cpuSideVars,
                     panicked>>
  BY DEF RecvReqRetry, TypeOK
<1>2. /\ atMemory = {} /\ AtMemorySide(pkt)
      /\ Forwarded(pkt) \/ Waiting(pkt)
  BY <1>1 DEF OneStage, Idle, Accessing, Forwarded, Waiting, AtMemorySide
<1>3. /\ memBlockedPacket' \in Packet \cup {None}
      /\ atMemory' \in SUBSET Packet
      /\ memory' \in [Addr -> Block]
      /\ accepted => memBlockedPacket' = None /\ atMemory' = {pkt}
      /\ ~accepted => memBlockedPacket' = pkt /\ atMemory' = {}
      /\ accepted /\ pkt.cmd = "WriteReq" => memory'[pkt.addr] = pkt.data
  BY <1>1, <1>2, MemSendPacketStep DEF AtMemorySide
<1>4. TypeOK'
  BY <1>1, <1>3 DEF TypeOK, cpuSideVars, missVars
<1>5. PICK q : q = pkt
  OBVIOUS
<1>6. AtMemorySide(q)'
  BY <1>1, <1>2, <1>3, <1>5 DEF AtMemorySide, missVars
<1>7. Forwarded(q)' \/ Waiting(q)'
  BY <1>1, <1>2, <1>3, <1>5, <1>6 DEF Forwarded, Waiting, missVars
<1>8. OneStage'
  BY <1>1, <1>5, <1>7 DEF OneStage
<1>9. ResponseFirst' /\ PortsFree'
  BY <1>1 DEF ResponseFirst, PortsFree, Calling, cpuSideVars
<1>10. RetryDueFor'
  BY <1>1, <1>3 DEF RetryDueFor
<1>11. StoreFits' /\ OnlyLostWritebackPanics'
  BY <1>1 DEF StoreFits, CapacityKept, OnlyLostWritebackPanics, missVars
<1> QED
  BY <1>4, <1>8, <1>9, <1>10, <1>11

(* Memory's answer to a packet of a whole block is that block; the store   *)
(* gets it in place of its victim.                                         *)
LEMMA InsertedType ==
  ASSUME TypeOK, NEW pkt \in Packet, NEW victim \in SUBSET Cached(cacheStore)
  PROVE  /\ Response(pkt) \in Packet
         /\ Response(pkt).addr = pkt.addr
         /\ Response(pkt).data \in Block
         /\ inserted(victim, Response(pkt)) \in [Addr -> Block \cup {None}]
         /\ Cached(inserted(victim, Response(pkt)))
              = (Cached(cacheStore) \ victim) \cup {pkt.addr}
<1>1. pkt.addr \in Addr /\ memory[pkt.addr] \in Block
  BY DEF Packet, TypeOK
<1>2. Response(pkt) \in Packet
  BY <1>1, DataType DEF Response
<1>3. Response(pkt).addr = pkt.addr
  BY DEF Response, setDataFromBlock, Packet
<1>4. Response(pkt).data \in Block
  BY <1>2 DEF Packet
<1> DEFINE resp == Response(pkt)
<1> HIDE DEF resp
<1>5. inserted(victim, resp) \in [Addr -> Block \cup {None}]
  BY <1>4 DEF inserted, TypeOK, resp
<1>6. Cached(inserted(victim, resp)) = (Cached(cacheStore) \ victim) \cup {pkt.addr}
  BY <1>1, <1>3, <1>4, NoneIsNoBlock DEF inserted, Cached, resp
<1> QED
  BY <1>2, <1>3, <1>4, <1>5, <1>6 DEF resp

LEMMA WrittenBackType ==
  ASSUME TypeOK, NEW victim \in SUBSET Cached(cacheStore)
  PROVE  writtenBack(victim) \in [Addr -> Block]
  BY DEF TypeOK, Cached, writtenBack

(* What is answered comes of a packet of the port, and the store has the   *)
(* blocks that insert gave it.                                             *)
LEMMA CompletedType ==
  ASSUME CacheInv, NEW pkt \in Packet, NEW victim \in SUBSET Cached(cacheStore),
         Forwarded(pkt) \/ Waiting(pkt)
  PROVE  LET store == inserted(victim, Response(pkt))
             result == completed(store, Response(pkt)) IN
           /\ result.store \in [Addr -> Block \cup {None}]
           /\ result.pkt \in Packet
           /\ Cached(result.store) = (Cached(cacheStore) \ victim) \cup {pkt.addr}
           /\ \A a \in Addr : a # pkt.addr => result.store[a] = store[a]
<1> DEFINE store == inserted(victim, Response(pkt))
<1>1. /\ Response(pkt) \in Packet
      /\ store \in [Addr -> Block \cup {None}]
      /\ Cached(store) = (Cached(cacheStore) \ victim) \cup {pkt.addr}
  BY InsertedType DEF CacheInv
<1> HIDE DEF store
<1>2. CASE outstandingPacket = None
  BY <1>1, <1>2 DEF completed, store
<1>3. CASE outstandingPacket # None
  <2>1. /\ outstandingPacket \in Packet
        /\ outstandingPacket.addr = pkt.addr
    <3>1. Waiting(pkt)
      BY <1>3 DEF Forwarded
    <3>2. outstandingPacket \in Packet /\ pkt = Upgraded(outstandingPacket)
      BY <1>3, <3>1 DEF Waiting, CacheInv, TypeOK
    <3> QED
      BY <3>2 DEF Upgraded, Packet
  <2>2. completed(store, Response(pkt)) = accessed(store, outstandingPacket)
    BY <1>3 DEF completed
  <2> QED
    BY <1>1, <2>1, <2>2, AccessedType DEF store
<1> QED
  BY <1>2, <1>3

(* A full store gives up one block for the one it gets.                    *)
LEMMA RoomForBlock ==
  ASSUME StoreFits, NEW victim \in Victims, NEW a, NEW S,
         S = (Cached(cacheStore) \ victim) \cup {a}
  PROVE  IsFiniteSet(S) /\ Cardinality(S) <= Capacity
<1> DEFINE C == Cached(cacheStore)
<1>1. /\ IsFiniteSet(C) /\ Cardinality(C) \in Nat /\ Cardinality(C) <= Capacity
      /\ Capacity \in Nat \ {0}
  BY FS_CardinalityType, CacheConstants DEF StoreFits, CapacityKept, CacheConstants
<1>2. victim \subseteq C /\ IsFiniteSet(victim)
  BY <1>1, FS_Subset DEF Victims
<1>3. IsFiniteSet(C \ victim) /\ Cardinality(C \ victim) \in Nat
      /\ Cardinality(C \ victim) < Capacity
  <2>1. CASE Cardinality(C) >= Capacity
    <3>1. Cardinality(victim) = 1
      BY <2>1 DEF Victims
    <3>2. PICK v : victim = {v}
      BY <1>2, <3>1, FS_Singleton
    <3>3. v \in C
      BY <1>2, <3>2
    <3>4. IsFiniteSet(C \ {v}) /\ Cardinality(C \ {v}) = Cardinality(C) - 1
      BY <1>1, <3>3, FS_RemoveElement
    <3>5. Cardinality(C \ {v}) \in Nat
      BY <3>4, FS_CardinalityType
    <3> QED
      BY <1>1, <3>2, <3>4, <3>5
  <2>2. CASE ~(Cardinality(C) >= Capacity)
    <3>1. Cardinality(victim) = 0
      BY <2>2 DEF Victims
    <3>2. victim = {}
      BY <1>2, <3>1, FS_EmptySet
    <3>3. C \ victim = C
      BY <3>2
    <3> QED
      BY <1>1, <2>2, <3>3
  <2> QED
    BY <2>1, <2>2
<1>4. /\ IsFiniteSet((C \ victim) \cup {a})
      /\ Cardinality((C \ victim) \cup {a}) <= Cardinality(C \ victim) + 1
  BY <1>3, FS_AddElement
<1>5. Cardinality((C \ victim) \cup {a}) \in Nat
  BY <1>4, FS_CardinalityType
<1> QED
  BY <1>1, <1>3, <1>4, <1>5

(* Memory answers: the store takes the block, the cache is free, and the   *)
(* port gets its response.                                                 *)
LEMMA HandleResponseStep ==
  ASSUME CacheInv, NEW pkt \in atMemory, NEW victim \in Victims,
         NEW accepted \in BOOLEAN, HandleResponse(pkt, victim, accepted)
  PROVE  CacheInv'
<1> DEFINE result == completed(inserted(victim, Response(pkt)), Response(pkt))
<1> USE DEF CacheInv
<1>1. /\ pkt \in Packet /\ atMemory = {pkt} /\ memBlockedPacket = None
      /\ accessEvent = None /\ waitingPortId \in Port
      /\ Forwarded(pkt) \/ Waiting(pkt)
  <2>1. PICK q \in Packet : Forwarded(q) \/ Waiting(q)
    BY DEF OneStage, Idle, Accessing
  <2>2. /\ atMemory = {q} /\ memBlockedPacket = None /\ q = pkt
        /\ accessEvent = None /\ waitingPortId \in Port
    BY <2>1 DEF Forwarded, Waiting, AtMemorySide
  <2> QED
    BY <2>1, <2>2
<1>2. victim \in SUBSET Cached(cacheStore)
  BY DEF Victims
<1>3. /\ result.store \in [Addr -> Block \cup {None}]
      /\ result.pkt \in Packet
      /\ Cached(result.store) = (Cached(cacheStore) \ victim) \cup {pkt.addr}
  BY <1>1, <1>2, CompletedType
<1>4. /\ accepted \/ "WritebackDirty" \in MemRefuses
      /\ atMemory' = {}
      /\ memory' = IF accepted THEN writtenBack(victim) ELSE memory
      /\ memRetryDue' = (memRetryDue \/ ~accepted)
      /\ cacheStore' = result.store
      /\ outstandingPacket' = None
      /\ sendResponse(result.pkt)
      /\ UNCHANGED <<accessEvent, memBlockedPacket, cpuSideVars, panicked>>
  BY <1>1 DEF HandleResponse
<1> HIDE DEF result
<1>5. /\ calls' \in Seq(Call) /\ ResponseFirst'
      /\ \A q \in Port : Calling("sendPacket", q)' => q = waitingPortId
  BY <1>1, <1>3, <1>4, SendResponseCalls
<1>6. memory' \in [Addr -> Block]
  BY <1>2, <1>4, WrittenBackType DEF TypeOK
<1>7. TypeOK'
  BY <1>3, <1>4, <1>5, <1>6 DEF TypeOK, sendResponse, cpuSideVars
<1>8. Idle'
  BY <1>1, <1>4 DEF Idle, sendResponse
<1>9. PortsFree'
  BY <1>4, <1>5, NoPortIsNone DEF PortsFree, sendResponse, cpuSideVars
<1>10. RetryDueFor'
  BY <1>4 DEF RetryDueFor
<1>11. StoreFits'
  BY <1>3, <1>4, RoomForBlock DEF StoreFits, CapacityKept
<1>12. OnlyLostWritebackPanics'
  BY <1>4 DEF OnlyLostWritebackPanics
<1> QED
  BY <1>5, <1>7, <1>8, <1>9, <1>10, <1>11, <1>12 DEF OneStage

(* A functional write takes place while no request is under way.           *)
LEMMA HandleFunctionalStep ==
  ASSUME CacheInv, NEW p \in Port, NEW pkt \in Request(p), HandleFunctional(pkt)
  PROVE  CacheInv'
<1> USE DEF CacheInv, HandleFunctional, cpuSideVars
<1>1. pkt \in Packet /\ pkt.addr \in Addr
  BY RequestType DEF Packet
<1>2. /\ cacheStore' \in [Addr -> Block \cup {None}]
      /\ Cached(cacheStore)' = Cached(cacheStore)
  BY <1>1, AccessedType DEF TypeOK, Cached
<1>3. memory' \in [Addr -> Block]
  <2>1. writeDataToBlock(pkt, memory[pkt.addr]) \in Block
    BY <1>1, DataType DEF TypeOK
  <2> QED
    BY <2>1 DEF TypeOK
<1>4. TypeOK'
  BY <1>2, <1>3 DEF TypeOK
<1>5. Idle /\ Idle'
  BY DEF OneStage, Idle, Accessing, Forwarded, Waiting, AtMemorySide
<1>6. ResponseFirst' /\ PortsFree'
  BY DEF ResponseFirst, PortsFree, Calling
<1>7. StoreFits' /\ RetryDueFor' /\ OnlyLostWritebackPanics'
  BY <1>2 DEF StoreFits, CapacityKept, RetryDueFor, OnlyLostWritebackPanics
<1> QED
  BY <1>4, <1>5, <1>6, <1>7 DEF OneStage

(* Of the faults only that of recvReqRetry can occur.                      *)
LEMMA PanicStep ==
  ASSUME CacheInv, Panic
  PROVE  CacheInv'
<1> USE DEF CacheInv, missVars, cpuSideVars, memSideVars
<1>1. PICK fault \in Faults : panicked' = fault
  BY DEF Panic
<1>2. UNCHANGED <<blocked, waitingPortId, missVars, calls, cpuSideVars,
                  memSideVars>>
  BY DEF Panic
<1>3. ~ \E p \in Port : Calling("sendPacket", p) /\ blockedPacket[p] # None
  BY DEF PortsFree
<1>4. ~(~blocked /\ waitingPortId # -1)
  BY DEF OneStage, Idle, Accessing, Forwarded, Waiting, AtMemorySide
<1>5. accessEvent # None => blocked /\ memBlockedPacket = None
  BY DEF OneStage, Idle, Accessing, Forwarded, Waiting, AtMemorySide
<1>6. \A pkt \in atMemory : blocked /\ pkt.addr \notin Cached(cacheStore)
  <2>1. ASSUME NEW pkt \in atMemory, NEW q \in Packet, Forwarded(q) \/ Waiting(q)
        PROVE  blocked /\ pkt.addr \notin Cached(cacheStore)
    BY <2>1 DEF Forwarded, Waiting, AtMemorySide
  <2> QED
    BY <2>1 DEF OneStage, Idle, Accessing
<1>7. /\ fault = "recvReqRetry without a blocked packet"
      /\ memRetryDue /\ memBlockedPacket = None
  BY <1>3, <1>4, <1>5, <1>6 DEF Faults
<1>8. OnlyLostWritebackPanics'
  BY <1>1, <1>7 DEF OnlyLostWritebackPanics, RetryDueFor
<1>9. TypeOK'
  BY <1>1, <1>2, <1>7 DEF TypeOK, Fault
<1>10. OneStage'
  BY <1>2, SameStage DEF stageVars
<1>11. ResponseFirst' /\ PortsFree' /\ RetryDueFor' /\ StoreFits'
  BY <1>2 DEF ResponseFirst, PortsFree, Calling, RetryDueFor, StoreFits,
              CapacityKept
<1> QED
  BY <1>8, <1>9, <1>10, <1>11

(* Every step keeps the invariant.                                         *)
LEMMA CacheNext == CacheInv /\ [Next]_vars => CacheInv'
<1> SUFFICES ASSUME CacheInv, [Next]_vars PROVE CacheInv'
  OBVIOUS
<1>1. ASSUME NEW p \in Port, PortStep(p) PROVE CacheInv'
  BY <1>1, SendTimingReqStep, SendRetryReqStep, SendResponseStep,
     RecvRespRetryStep, NoRetryReqStep DEF PortStep
<1>2. CASE AccessHit
  BY <1>2, AccessHitStep
<1>3. ASSUME NEW accepted \in BOOLEAN, MemoryStep(accepted) PROVE CacheInv'
  BY <1>3, AccessMissStep, RecvReqRetryStep, HandleResponseStep DEF MemoryStep
<1>4. ASSUME NEW p \in Port, NEW pkt \in Request(p), HandleFunctional(pkt)
      PROVE  CacheInv'
  BY <1>4, HandleFunctionalStep
<1>5. CASE Panic
  BY <1>5, PanicStep
<1>6. CASE UNCHANGED vars
  <2> USE <1>6 DEF vars, missVars, cpuSideVars, memSideVars
  <2>1. TypeOK' /\ ResponseFirst' /\ PortsFree'
    BY DEF CacheInv, TypeOK, ResponseFirst, PortsFree, Calling
  <2>2. OneStage'
    BY SameStage DEF CacheInv, stageVars
  <2>3. RetryDueFor' /\ StoreFits' /\ OnlyLostWritebackPanics'
    BY DEF CacheInv, RetryDueFor, StoreFits, CapacityKept,
           OnlyLostWritebackPanics
  <2> QED
    BY <2>1, <2>2, <2>3 DEF CacheInv
<1> QED
  BY <1>1, <1>2, <1>3, <1>4, <1>5, <1>6 DEF Next

LEMMA CacheInvariant == Spec => []CacheInv
  BY CacheInit, CacheNext, PTL DEF Spec

-----------------------------------------------------------------------------
(* Type correctness.                                                       *)
THEOREM CacheTypeCorrect == Spec => []TypeOK
<1>1. CacheInv => TypeOK
  BY DEF CacheInv
<1> QED
  BY <1>1, CacheInvariant, PTL

(* A blocked cache is at work on one packet, which waits for accessTiming, *)
(* in the memory port, or for memory; an upgraded read is of the block its *)
(* packet needs; and the response will go to its port.                     *)
THEOREM CacheOnePacketAtWork == Spec => []OnePacketAtWork
<1> DEFINE working == MemoryPackets \cup ({accessEvent} \ {None})
<1>1. ASSUME CacheInv PROVE OnePacketAtWork
  <2>1. CASE Idle
    <3>1. working = {} /\ waitingPortId = -1 /\ outstandingPacket = None /\ ~blocked
      BY <2>1 DEF Idle, MemoryPackets
    <3> QED
      BY <3>1, FS_EmptySet DEF OnePacketAtWork
  <2>2. CASE Accessing
    <3>1. /\ working = {accessEvent} /\ outstandingPacket = None /\ blocked
          /\ accessEvent.port = waitingPortId /\ waitingPortId # -1
      BY <2>2, RequestType, NoPortIsNone DEF Accessing, MemoryPackets
    <3> QED
      BY <3>1, FS_Singleton DEF OnePacketAtWork
  <2>3. ASSUME NEW pkt \in Packet, Forwarded(pkt) \/ Waiting(pkt)
        PROVE  OnePacketAtWork
    <3>1. /\ working = {pkt} /\ MemoryPackets = {pkt} /\ blocked
          /\ pkt.port = waitingPortId /\ waitingPortId # -1
      BY <2>3, PacketNotNone, NoPortIsNone
         DEF Forwarded, Waiting, AtMemorySide, MemoryPackets
    <3>2. outstandingPacket # None => pkt = Upgraded(outstandingPacket)
      BY <2>3 DEF Forwarded, Waiting
    <3> QED
      BY <3>1, <3>2, FS_Singleton DEF OnePacketAtWork
  <2> QED
    BY <1>1, <2>1, <2>2, <2>3 DEF CacheInv, OneStage
<1> QED
  BY <1>1, CacheInvariant, PTL

(* insert makes room for each block: the cache keeps to its capacity.      *)
THEOREM CacheCapacityKept == Spec => []CapacityKept
<1>1. CacheInv => CapacityKept
  BY DEF CacheInv, StoreFits
<1> QED
  BY <1>1, CacheInvariant, PTL

(* The only assertion that can fail is that of recvReqRetry, and only      *)
(* where memory refuses writebacks.                                        *)
THEOREM CacheOnlyLostWritebackPanics == Spec => []OnlyLostWritebackPanics
<1>1. CacheInv => OnlyLostWritebackPanics
  BY DEF CacheInv
<1> QED
  BY <1>1, CacheInvariant, PTL

(* Behind a memory that takes writebacks no assertion fails.               *)
THEOREM CachePanicFree ==
  ASSUME "WritebackDirty" \notin MemRefuses
  PROVE  Spec => []PanicFree
<1>1. CacheInv => PanicFree
  BY DEF CacheInv, OnlyLostWritebackPanics, PanicFree
<1> QED
  BY <1>1, CacheInvariant, PTL

(* Behind such a memory, what insert evicts is in memory.                  *)
THEOREM CacheEvictedWrittenBack ==
  ASSUME "WritebackDirty" \notin MemRefuses
  PROVE  Spec => EvictedWrittenBack
<1> DEFINE Kept == \A a \in Addr :
                     cacheStore[a] # None /\ cacheStore'[a] = None =>
                       memory'[a] = cacheStore[a]
<1>1. ASSUME CacheInv, Next PROVE Kept
  <2>1. CASE UNCHANGED cacheStore
    BY <2>1
  <2>2. CASE AccessHit
    <3>1. accessEvent \in Packet
      BY <1>1, <2>2 DEF AccessHit, CacheInv, TypeOK
    <3>2. Cached(cacheStore') = Cached(cacheStore)
      BY <1>1, <2>2, <3>1, AccessedType DEF AccessHit, CacheInv, TypeOK
    <3> QED
      BY <3>2 DEF Cached
  <2>3. ASSUME NEW pkt \in atMemory, NEW victim \in Victims,
               NEW accepted \in BOOLEAN, HandleResponse(pkt, victim, accepted)
        PROVE  Kept
    <3>1. /\ pkt \in Packet
          /\ Forwarded(pkt) \/ Waiting(pkt)
          /\ victim \in SUBSET Cached(cacheStore)
      <4>1. PICK q \in Packet : Forwarded(q) \/ Waiting(q)
        BY <1>1 DEF CacheInv, OneStage, Idle, Accessing
      <4>2. q = pkt
        BY <4>1 DEF Forwarded, Waiting, AtMemorySide
      <4> QED
        BY <4>1, <4>2 DEF Victims
    <3>2. Cached(cacheStore') = (Cached(cacheStore) \ victim) \cup {pkt.addr}
      <4> DEFINE result == completed(inserted(victim, Response(pkt)), Response(pkt))
      <4>1. Cached(result.store) = (Cached(cacheStore) \ victim) \cup {pkt.addr}
        BY <1>1, <3>1, CompletedType
      <4>2. cacheStore' = result.store
        BY <2>3 DEF HandleResponse
      <4> HIDE DEF result
      <4> QED
        BY <4>1, <4>2
    <3>3. memory' = writtenBack(victim)
      BY <2>3 DEF HandleResponse
    <3>4. ASSUME NEW a \in Addr, cacheStore[a] # None, cacheStore'[a] = None
          PROVE  memory'[a] = cacheStore[a]
      <4>1. a \in victim
        BY <3>2, <3>4 DEF Cached
      <4> QED
        BY <3>3, <4>1 DEF writtenBack
    <3> QED
      BY <3>4
  <2>4. ASSUME NEW p \in Port, NEW pkt \in Request(p), HandleFunctional(pkt)
        PROVE  Kept
    <3>1. pkt \in Packet
      BY RequestType
    <3>2. Cached(cacheStore') = Cached(cacheStore)
      BY <1>1, <2>4, <3>1, AccessedType DEF HandleFunctional, CacheInv, TypeOK
    <3> QED
      BY <3>2 DEF Cached
  <2> QED
    BY <1>1, <2>1, <2>2, <2>3, <2>4 DEF Next, PortStep, MemoryStep,
       SendTimingReq, SendRetryReq, SendResponse, RecvRespRetry, NoRetryReq,
       AccessMiss, RecvReqRetry, Panic, missVars
<1>2. ASSUME CacheInv, UNCHANGED vars PROVE Kept
  BY <1>2 DEF vars, missVars
<1>3. CacheInv /\ [Next]_vars => [Kept]_vars
  BY <1>1, <1>2
<1> QED
  BY <1>3, CacheInvariant, PTL DEF Spec, EvictedWrittenBack

-----------------------------------------------------------------------------
(* Before a memory that takes its writebacks the cache implements          *)
(* AtomicMemory.                                                           *)

(* What port p has under way, with no search: the request at which the     *)
(* cache is at work, and the response that is sent or was refused.         *)
Access(pkt, done) == [pkt |-> pkt, done |-> done]

Work(p) ==
  IF waitingPortId # p THEN {}
  ELSE IF accessEvent # None THEN {Access(accessEvent, FALSE)}
  ELSE IF outstandingPacket # None THEN {Access(outstandingPacket, FALSE)}
  ELSE {Access(pkt, pkt \in atMemory /\ pkt.cmd = "WriteReq") :
          pkt \in MemoryPackets}

Answers(p) ==
  (IF blockedPacket[p] # None THEN {Access(blockedPacket[p], TRUE)} ELSE {})
    \cup (IF Calling("sendPacket", p) THEN {Access(Head(calls).pkt, TRUE)}
                                      ELSE {})

(* Of the calls left only the first is a response.                         *)
LEMMA CallsResponse ==
  ASSUME TypeOK, ResponseFirst, NEW p \in Port
  PROVE  {calls[i].pkt : i \in {i \in DOMAIN calls :
            calls[i].fn = "sendPacket" /\ calls[i].port = p}}
           = IF Calling("sendPacket", p) THEN {Head(calls).pkt} ELSE {}
<1> DEFINE Found == {i \in DOMAIN calls :
                       calls[i].fn = "sendPacket" /\ calls[i].port = p}
<1>1. /\ DOMAIN calls = 1..Len(calls) /\ Len(calls) \in Nat
      /\ calls # <<>> => Head(calls) = calls[1] /\ 1 \in DOMAIN calls
      /\ calls = <<>> => DOMAIN calls = {}
  BY DEF TypeOK
<1>2. \A i \in Found : i = 1
  BY DEF ResponseFirst
<1>3. CASE Calling("sendPacket", p)
  <2>1. Found = {1} /\ calls[1] = Head(calls)
    BY <1>1, <1>2, <1>3 DEF Calling
  <2> QED
    BY <1>3, <2>1
<1>4. CASE ~Calling("sendPacket", p)
  <2>1. Found = {}
    BY <1>1, <1>2, <1>4 DEF Calling
  <2> QED
    BY <1>4, <2>1
<1> QED
  BY <1>3, <1>4

(* What the refinement mapping finds under way is what there is.           *)
LEMMA UnderWayIs ==
  CacheInv => \A p \in Port : UnderWay[p] = Work(p) \cup Answers(p)
<1> SUFFICES ASSUME CacheInv, NEW p \in Port
             PROVE  UnderWay[p] = Work(p) \cup Answers(p)
  OBVIOUS
<1> DEFINE InMemory == {pkt \in atMemory : /\ pkt.port = p
                                          /\ outstandingPacket = None
                                          /\ pkt.cmd = "WriteReq"}
           Answered == ({blockedPacket[p]} \ {None})
              \cup (IF Calling("sendPacket", p) THEN {Head(calls).pkt} ELSE {})
<1>1. Performed(p) = InMemory \cup Answered
  BY CallsResponse DEF CacheInv, Performed
<1>2. Answers(p) = {Access(pkt, TRUE) : pkt \in Answered}
  BY DEF Answers
<1>3. p # -1
  BY NoPortIsNone
<1>4. Work(p) = {Access(pkt, FALSE) : pkt \in ToPerform(p)}
                  \cup {Access(pkt, TRUE) : pkt \in InMemory}
  <2>1. CASE Idle
    <3>1. ToPerform(p) = {} /\ InMemory = {} /\ Work(p) = {}
      BY <1>3, <2>1 DEF Idle, ToPerform, MemoryPackets, Work, None
    <3> QED
      BY <3>1
  <2>2. CASE Accessing
    <3>1. accessEvent.port = waitingPortId
      BY <2>2, RequestType DEF Accessing
    <3>2. /\ ToPerform(p) = IF p = waitingPortId THEN {accessEvent} ELSE {}
          /\ InMemory = {}
      BY <1>3, <2>2, <3>1 DEF Accessing, ToPerform, MemoryPackets, None
    <3> QED
      BY <2>2, <3>2 DEF Work, Accessing
  <2>3. ASSUME NEW pkt \in Packet, Forwarded(pkt)
        PROVE  Work(p) = {Access(q, FALSE) : q \in ToPerform(p)}
                           \cup {Access(q, TRUE) : q \in InMemory}
    <3>1. /\ MemoryPackets = {pkt} /\ pkt.port = waitingPortId
          /\ accessEvent = None /\ outstandingPacket = None
          /\ pkt.cmd \in {"ReadReq", "WriteReq"}
          /\ atMemory \subseteq {pkt}
      BY <2>3, PacketNotNone DEF Forwarded, AtMemorySide, MemoryPackets, Packet
    <3>2. ToPerform(p) = {q \in {pkt} : /\ q.port = p
                                        /\ q \in atMemory => q.cmd = "ReadReq"}
      BY <1>3, <3>1 DEF ToPerform, None
    <3>3. CASE p # waitingPortId
      BY <3>1, <3>2, <3>3 DEF Work
    <3>4. CASE p = waitingPortId /\ pkt \in atMemory /\ pkt.cmd = "WriteReq"
      <4>1. ToPerform(p) = {} /\ InMemory = {pkt}
        BY <3>1, <3>2, <3>4
      <4>2. Work(p) = {Access(pkt, TRUE)}
        BY <3>1, <3>4 DEF Work
      <4> QED
        BY <4>1, <4>2
    <3>5. CASE p = waitingPortId /\ ~(pkt \in atMemory /\ pkt.cmd = "WriteReq")
      <4>1. ToPerform(p) = {pkt} /\ InMemory = {}
        BY <3>1, <3>2, <3>5
      <4>2. Work(p) = {Access(pkt, FALSE)}
        BY <3>1, <3>5 DEF Work
      <4> QED
        BY <4>1, <4>2
    <3> QED
      BY <3>3, <3>4, <3>5
  <2>4. ASSUME NEW pkt \in Packet, Waiting(pkt)
        PROVE  Work(p) = {Access(q, FALSE) : q \in ToPerform(p)}
                           \cup {Access(q, TRUE) : q \in InMemory}
    <3>1. /\ outstandingPacket.port = waitingPortId
          /\ accessEvent = None /\ outstandingPacket # None
      BY <2>4, RequestType DEF Waiting, AtMemorySide
    <3>2. /\ ToPerform(p) = IF p = waitingPortId THEN {outstandingPacket} ELSE {}
          /\ InMemory = {}
      BY <1>3, <3>1 DEF ToPerform, None
    <3> QED
      BY <3>1, <3>2 DEF Work
  <2> QED
    BY <2>1, <2>2, <2>3, <2>4 DEF CacheInv, OneStage
<1>5. UnderWay[p] = {Access(pkt, FALSE) : pkt \in ToPerform(p)}
                      \cup {Access(pkt, TRUE) : pkt \in Performed(p)}
  BY DEF UnderWay, Access
<1> HIDE DEF InMemory, Answered
<1> QED
  BY <1>1, <1>2, <1>4, <1>5

LEMMA UnderWayNextIs ==
  CacheInv' => \A p \in Port : UnderWay'[p] = Work(p)' \cup Answers(p)'
<1>1. (CacheInv => \A p \in Port : UnderWay[p] = Work(p) \cup Answers(p))'
  BY UnderWayIs, PTL
<1> QED
  BY <1>1

(* A step changes what is under way where work or answers change.          *)
LEMMA UnderWayKept ==
  ASSUME CacheInv, CacheInv',
         \A q \in Port : Work(q)' \cup Answers(q)' = Work(q) \cup Answers(q)
  PROVE  UnderWay' = UnderWay
<1>1. \A q \in Port : UnderWay'[q] = UnderWay[q]
  BY UnderWayIs, UnderWayNextIs
<1> DEFINE f(q) == {[pkt |-> pkt, done |-> FALSE] : pkt \in ToPerform(q)}
                     \cup {[pkt |-> pkt, done |-> TRUE] : pkt \in Performed(q)}
<1>2. UnderWay = [q \in Port |-> f(q)] /\ UnderWay' = [q \in Port |-> f(q)']
  BY DEF UnderWay
<1> HIDE DEF f
<1> QED
  BY <1>1, <1>2

LEMMA UnderWayChanged ==
  ASSUME CacheInv, CacheInv', NEW p \in Port, NEW S,
         S = Work(p)' \cup Answers(p)',
         \A q \in Port \ {p} :
           Work(q)' \cup Answers(q)' = Work(q) \cup Answers(q)
  PROVE  UnderWay' = [UnderWay EXCEPT ![p] = S]
<1>1. /\ UnderWay'[p] = S
      /\ \A q \in Port \ {p} : UnderWay'[q] = UnderWay[q]
  BY UnderWayIs, UnderWayNextIs
<1> DEFINE f(q) == {[pkt |-> pkt, done |-> FALSE] : pkt \in ToPerform(q)}
                     \cup {[pkt |-> pkt, done |-> TRUE] : pkt \in Performed(q)}
<1>2. UnderWay = [q \in Port |-> f(q)] /\ UnderWay' = [q \in Port |-> f(q)']
  BY DEF UnderWay
<1> HIDE DEF f
<1> QED
  BY <1>1, <1>2

-----------------------------------------------------------------------------
(* Steps of the CPU's side.                                                *)

LEMMA AnswersKept ==
  ASSUME NEW p \in Port, blockedPacket' = blockedPacket,
         Calling("sendPacket", p)' <=> Calling("sendPacket", p),
         Calling("sendPacket", p) => Head(calls)' = Head(calls)
  PROVE  Answers(p)' = Answers(p)
  BY DEF Answers

(* A request that comes is accepted, or changes nothing.                   *)
LEMMA RequestMaps ==
  ASSUME CacheInv, CacheInv', NEW p \in Port, NEW pkt \in Request(p), NEW flags,
         recvTimingReq(p, pkt, flags),
         ~Calling("sendPacket", p),
         \A q \in Port : Answers(q)' = Answers(q),
         UNCHANGED <<outstandingPacket, cacheStore, blockedPacket, memSideVars>>
  PROVE  Atomic!Next \/ UNCHANGED Atomic!vars
<1>1. Contents' = Contents
  BY DEF Contents, memSideVars
<1>2. CASE ~portBusy(p, flags) /\ handleRequest(p, pkt)
  <2>1. Answers(p) = {}
    BY <1>2 DEF Answers, portBusy
  <2>2. \A q \in Port : Work(q) = {}
    BY <1>2, NoPortIsNone DEF Work, handleRequest
  <2>3. \A q \in Port : Work(q)' = IF q = p THEN {Access(pkt, FALSE)} ELSE {}
    BY <1>2, RequestType DEF Work, handleRequest
  <2>4. UnderWay[p] = {}
    BY <2>1, <2>2, UnderWayIs
  <2>5. UnderWay' = [UnderWay EXCEPT ![p] = {Access(pkt, FALSE)}]
    <3>1. {Access(pkt, FALSE)} = Work(p)' \cup Answers(p)'
      BY <2>1, <2>3
    <3>2. \A q \in Port \ {p} : Work(q)' = Work(q)
      BY <2>2, <2>3
    <3> QED
      BY <3>1, <3>2, UnderWayChanged
  <2>6. pkt \in UNION {Request(q) : q \in Port} /\ pkt.port = p
    BY RequestType
  <2>7. Atomic!Accept(p)
    BY <1>1, <2>4, <2>5, <2>6 DEF Atomic!Accept, Atomic!Access, Access
  <2> QED
    BY <2>7 DEF Atomic!Next
<1>3. CASE UNCHANGED <<blocked, waitingPortId, accessEvent>>
  <2>1. \A q \in Port : Work(q)' = Work(q)
    BY <1>3 DEF Work, MemoryPackets, memSideVars
  <2>2. UnderWay' = UnderWay
    BY <2>1, UnderWayKept
  <2> QED
    BY <1>1, <2>2 DEF Atomic!vars
<1> QED
  BY <1>2, <1>3 DEF recvTimingReq

LEMMA SendTimingReqMaps ==
  ASSUME CacheInv, CacheInv', NEW p \in Port, NEW pkt \in Request(p),
         SendTimingReq(p, pkt)
  PROVE  Atomic!Next \/ UNCHANGED Atomic!vars
<1>1. \A q \in Port : Answers(q)' = Answers(q)
  BY DEF SendTimingReq, Answers, Calling
<1> QED
  BY <1>1, RequestMaps DEF SendTimingReq

(* A call to retry, made or not, answers nobody.                           *)
LEMMA RetryAnswersNobody ==
  ASSUME CacheInv, NEW p \in Port, Calling("trySendRetry", p),
         calls' = Tail(calls), blockedPacket' = blockedPacket
  PROVE  \A q \in Port : Answers(q)' = Answers(q)
<1>1. calls # <<>> /\ \A q \in Port : ~Calling("sendPacket", q)
  BY DEF Calling
<1>2. \A q \in Port : ~Calling("sendPacket", q)'
  BY <1>1, CallMade DEF CacheInv
<1> QED
  BY <1>1, <1>2 DEF Answers

LEMMA SendRetryReqMaps ==
  ASSUME CacheInv, CacheInv', NEW p \in Port, NEW pkt \in Request(p),
         SendRetryReq(p, pkt)
  PROVE  Atomic!Next \/ UNCHANGED Atomic!vars
<1>1. \A q \in Port : Answers(q)' = Answers(q)
  BY RetryAnswersNobody DEF SendRetryReq
<1>2. ~Calling("sendPacket", p)
  BY DEF SendRetryReq, Calling
<1> QED
  BY <1>1, <1>2, RequestMaps DEF SendRetryReq

LEMMA NoRetryReqMaps ==
  ASSUME CacheInv, CacheInv', NEW p \in Port, NoRetryReq(p)
  PROVE  UNCHANGED Atomic!vars
<1> USE DEF NoRetryReq, missVars, cpuSideVars, memSideVars
<1>1. \A q \in Port : Answers(q)' = Answers(q)
  BY RetryAnswersNobody
<1>2. \A q \in Port : Work(q)' = Work(q)
  BY DEF Work, MemoryPackets
<1>3. UnderWay' = UnderWay
  BY <1>1, <1>2, UnderWayKept
<1> QED
  BY <1>3 DEF Contents, Atomic!vars

(* A response taken answers the access; one refused waits as it is.        *)
LEMMA AnswerMaps ==
  ASSUME CacheInv, CacheInv', NEW p \in Port, NEW pkt, NEW accepted \in BOOLEAN,
         waitingPortId # p, Answers(p) = {Access(pkt, TRUE)},
         Answers(p)' = IF accepted THEN {} ELSE {Access(pkt, TRUE)},
         \A q \in Port \ {p} : Answers(q)' = Answers(q),
         UNCHANGED <<waitingPortId, missVars, memSideVars>>
  PROVE  Atomic!Next \/ UNCHANGED Atomic!vars
<1>1. Contents' = Contents
  BY DEF Contents, missVars, memSideVars
<1>2. \A q \in Port : Work(q)' = Work(q)
  BY DEF Work, MemoryPackets, missVars, memSideVars
<1>3. Work(p) = {}
  BY DEF Work
<1>4. CASE accepted
  <2>1. UnderWay' = [UnderWay EXCEPT ![p] = {}]
    BY <1>2, <1>3, <1>4, UnderWayChanged
  <2>2. UnderWay[p] = {Access(pkt, TRUE)}
    BY <1>3, UnderWayIs
  <2>3. Access(pkt, TRUE).done
    BY DEF Access
  <2>4. Atomic!Answer(p)
    BY <1>1, <2>1, <2>2, <2>3 DEF Atomic!Answer
  <2> QED
    BY <2>4 DEF Atomic!Next
<1>5. CASE ~accepted
  <2>1. UnderWay' = UnderWay
    BY <1>2, <1>5, UnderWayKept
  <2> QED
    BY <1>1, <2>1 DEF Atomic!vars
<1> QED
  BY <1>4, <1>5

LEMMA SendResponseMaps ==
  ASSUME CacheInv, CacheInv', NEW p \in Port, NEW accepted \in BOOLEAN,
         SendResponse(p, accepted)
  PROVE  Atomic!Next \/ UNCHANGED Atomic!vars
<1> DEFINE pkt == Head(calls).pkt
<1>1. /\ waitingPortId # p /\ blockedPacket[p] = None
      /\ Calling("sendPacket", p)
      /\ \A q \in Port \ {p} : ~Calling("sendPacket", q)
  BY DEF CacheInv, PortsFree, SendResponse, Calling
<1>2. \A q \in Port : ~Calling("sendPacket", q)'
  BY CallMade DEF CacheInv, SendResponse, Calling
<1>3. pkt \in Packet /\ pkt # None
  <2>1. Head(calls) \in Call /\ Head(calls).fn = "sendPacket"
    BY DEF CacheInv, TypeOK, SendResponse, Calling
  <2> QED
    BY <2>1, PacketNotNone DEF Call
<1>4. blockedPacket' = [blockedPacket EXCEPT ![p] = IF accepted THEN None ELSE pkt]
  BY DEF SendResponse, cpuSendPacket
<1>5. Answers(p) = {Access(pkt, TRUE)}
  BY <1>1 DEF Answers
<1> HIDE DEF pkt
<1>6. Answers(p)' = IF accepted THEN {} ELSE {Access(pkt, TRUE)}
  BY <1>2, <1>3, <1>4 DEF Answers, CacheInv, TypeOK
<1>7. \A q \in Port \ {p} : Answers(q)' = Answers(q)
  BY <1>1, <1>2, <1>4 DEF Answers, CacheInv, TypeOK
<1> QED
  BY <1>1, <1>5, <1>6, <1>7, AnswerMaps DEF SendResponse

LEMMA RecvRespRetryMaps ==
  ASSUME CacheInv, CacheInv', NEW p \in Port, NEW accepted \in BOOLEAN,
         RecvRespRetry(p, accepted)
  PROVE  Atomic!Next \/ UNCHANGED Atomic!vars
<1> DEFINE pkt == blockedPacket[p]
<1>1. waitingPortId # p /\ pkt # None
  BY DEF CacheInv, PortsFree, RecvRespRetry
<1>2. \A q \in Port : ~Calling("sendPacket", q) /\ ~Calling("sendPacket", q)'
  BY DEF RecvRespRetry, afterRespRetry, Calling
<1>3. blockedPacket' = [blockedPacket EXCEPT ![p] = IF accepted THEN None ELSE pkt]
  BY DEF RecvRespRetry, cpuSendPacket
<1>4. Answers(p) = {Access(pkt, TRUE)}
  BY <1>1, <1>2 DEF Answers
<1>5. Answers(p)' = IF accepted THEN {} ELSE {Access(pkt, TRUE)}
  BY <1>1, <1>2, <1>3 DEF Answers, CacheInv, TypeOK
<1>6. \A q \in Port \ {p} : Answers(q)' = Answers(q)
  BY <1>2, <1>3 DEF Answers, CacheInv, TypeOK
<1> HIDE DEF pkt
<1> QED
  BY <1>1, <1>4, <1>5, <1>6, AnswerMaps DEF RecvRespRetry

-----------------------------------------------------------------------------
(* Steps of the cache and of memory.                                       *)

(* An access that takes effect: a write on the contents, a read of them.   *)
LEMMA PerformMaps ==
  ASSUME NEW p \in Port, NEW pkt \in Packet, UnderWay[p] = {Access(pkt, FALSE)},
         \/ /\ pkt.cmd = "WriteReq"
            /\ Contents' = [Contents EXCEPT ![pkt.addr] = writeDataToBlock(pkt, @)]
            /\ UnderWay' = [UnderWay EXCEPT ![p] = {Access(pkt, TRUE)}]
         \/ /\ pkt.cmd = "ReadReq"
            /\ Contents' = Contents
            /\ UnderWay' = [UnderWay EXCEPT ![p] =
                  {Access(setDataFromBlock(pkt, Contents[pkt.addr]), TRUE)}]
  PROVE  Atomic!Next
<1> DEFINE x == Access(pkt, FALSE)
<1>1. x \in UnderWay[p] /\ ~x.done /\ x.pkt = pkt
  BY DEF Access
<1>2. \A block : /\ Atomic!Written(pkt, block) = writeDataToBlock(pkt, block)
                 /\ Atomic!Read(pkt, block) = setDataFromBlock(pkt, block)
  BY DEF Atomic!Written, Atomic!Read, writeDataToBlock, setDataFromBlock
<1> HIDE DEF x
<1>3. Atomic!Perform(p)
  BY <1>1, <1>2 DEF Atomic!Perform, Atomic!Access, Access
<1> QED
  BY <1>3 DEF Atomic!Next

(* sendResponse ends the work of the cache with a response.                *)
LEMMA ResponseMaps ==
  ASSUME CacheInv, CacheInv', NEW pkt \in Packet, waitingPortId \in Port,
         calls = <<>>, sendResponse(pkt), blockedPacket' = blockedPacket
  PROVE  /\ UnderWay' = [UnderWay EXCEPT ![waitingPortId] = {Access(pkt, TRUE)}]
         /\ UnderWay[waitingPortId] = Work(waitingPortId)
<1> DEFINE response == [fn |-> "sendPacket", port |-> waitingPortId, pkt |-> pkt]
<1>1. PICK p \in Port : p = waitingPortId
  OBVIOUS
<1>2. /\ calls' # <<>> /\ Head(calls') = response
      /\ waitingPortId' = -1
  BY SendResponseCalls DEF sendResponse
<1>3. response.fn = "sendPacket" /\ response.port = p /\ response.pkt = pkt
  BY <1>1
<1> HIDE DEF response
<1>4. \A q \in Port : ~Calling("sendPacket", q) /\ (Calling("sendPacket", q)' <=> q = p)
  BY <1>2, <1>3 DEF Calling
<1>5. Answers(p) = {} /\ Answers(p)' = {Access(pkt, TRUE)}
  BY <1>1, <1>2, <1>3, <1>4 DEF Answers, CacheInv, PortsFree
<1>6. \A q \in Port \ {p} : Answers(q)' = Answers(q)
  BY <1>4 DEF Answers
<1>7. /\ \A q \in Port : Work(q)' = {}
      /\ \A q \in Port \ {p} : Work(q) = {}
  BY <1>1, <1>2, NoPortIsNone DEF Work
<1>8. {Access(pkt, TRUE)} = Work(p)' \cup Answers(p)'
  BY <1>5, <1>7
<1>9. UnderWay' = [UnderWay EXCEPT ![p] = {Access(pkt, TRUE)}]
  BY <1>6, <1>7, <1>8, UnderWayChanged
<1>10. UnderWay[p] = Work(p)
  BY <1>5, UnderWayIs
<1> QED
  BY <1>1, <1>9, <1>10

(* What an access of a block in the store does to the contents.            *)
LEMMA AccessHitMaps ==
  ASSUME CacheInv, CacheInv', AccessHit
  PROVE  Atomic!Next
<1> DEFINE pkt == accessEvent
           result == accessed(cacheStore, pkt)
<1>1. Accessing
  BY DEF AccessHit, CacheInv, OneStage, Idle, Forwarded, Waiting, AtMemorySide
<1>2. /\ pkt \in Packet /\ pkt # None /\ waitingPortId \in Port
      /\ pkt.addr \in Addr /\ pkt.addr \in Cached(cacheStore)
      /\ pkt.cmd \in {"ReadReq", "WriteReq"}
  <2>1. pkt \in Packet /\ pkt # None /\ waitingPortId \in Port
    BY <1>1, RequestType DEF Accessing
  <2> QED
    BY <2>1 DEF Packet, AccessHit
<1>3. result.pkt \in Packet
  BY <1>2, AccessedType DEF CacheInv, TypeOK
<1>4. /\ calls = <<>> /\ cacheStore' = result.store
      /\ sendResponse(result.pkt)
      /\ blockedPacket' = blockedPacket /\ memory' = memory
  BY DEF AccessHit, cpuSideVars, memSideVars
<1>5. Work(waitingPortId) = {Access(pkt, FALSE)}
  BY <1>2 DEF Work
<1>6. /\ UnderWay' = [UnderWay EXCEPT ![waitingPortId] = {Access(result.pkt, TRUE)}]
      /\ UnderWay[waitingPortId] = {Access(pkt, FALSE)}
  BY <1>2, <1>3, <1>4, <1>5, ResponseMaps
<1>7. /\ cacheStore \in [Addr -> Block \cup {None}]
      /\ cacheStore[pkt.addr] \in Block /\ cacheStore[pkt.addr] # None
      /\ Contents[pkt.addr] = cacheStore[pkt.addr]
  BY <1>2 DEF CacheInv, TypeOK, Cached, Contents
<1>8. CASE pkt.cmd = "WriteReq"
  <2>1. /\ result.pkt = pkt
        /\ cacheStore' = [cacheStore EXCEPT ![pkt.addr] = writeDataToBlock(pkt, @)]
    BY <1>4, <1>8 DEF accessed
  <2>2. writeDataToBlock(pkt, cacheStore[pkt.addr]) # None
    BY <1>2, <1>7, DataType, NoneIsNoBlock
  <2>3. Contents' = [Contents EXCEPT ![pkt.addr] = writeDataToBlock(pkt, @)]
    BY <1>2, <1>4, <1>7, <2>1, <2>2 DEF Contents
  <2> QED
    BY <1>2, <1>6, <1>8, <2>1, <2>3, PerformMaps
<1>9. CASE pkt.cmd = "ReadReq"
  <2>1. /\ result.pkt = setDataFromBlock(pkt, cacheStore[pkt.addr])
        /\ cacheStore' = cacheStore
    BY <1>4, <1>9 DEF accessed
  <2>2. Contents' = Contents
    BY <1>4, <2>1 DEF Contents
  <2> QED
    BY <1>2, <1>6, <1>7, <1>9, <2>1, <2>2, PerformMaps
<1> QED
  BY <1>2, <1>8, <1>9

(* Memory accepts a whole block to write, which takes effect, or a read,   *)
(* which does not yet; or it refuses.                                      *)
LEMMA ForwardMaps ==
  ASSUME CacheInv, CacheInv', NEW accepted \in BOOLEAN, waitingPortId \in Port,
         NEW pkt \in Packet, NEW sent \in Packet,
         memSendPacket(sent, accepted),
         sent.addr \notin Cached(cacheStore),
         sent.cmd = "WriteReq" => sent = pkt,
         Work(waitingPortId) = {Access(pkt, FALSE)},
         Work(waitingPortId)' =
           {Access(pkt, accepted /\ sent.cmd = "WriteReq")},
         UNCHANGED <<waitingPortId, cacheStore, calls, blockedPacket>>
  PROVE  Atomic!Next \/ UNCHANGED Atomic!vars
<1>1. PICK p \in Port : p = waitingPortId
  OBVIOUS
<1>2. /\ Work(p) = {Access(pkt, FALSE)}
      /\ Work(p)' = {Access(pkt, accepted /\ sent.cmd = "WriteReq")}
  BY <1>1 DEF Work
<1>3. /\ \A q \in Port \ {p} : Work(q)' = Work(q)
      /\ \A q \in Port : Answers(q)' = Answers(q)
      /\ Answers(p) = {}
  BY <1>1 DEF Work, Answers, Calling, CacheInv, PortsFree
<1>4. CASE accepted /\ sent.cmd = "WriteReq"
  <2>1. UnderWay[p] = {Access(pkt, FALSE)}
    BY <1>2, <1>3, UnderWayIs
  <2>2. {Access(pkt, TRUE)} = Work(p)' \cup Answers(p)'
    BY <1>2, <1>3, <1>4
  <2>3. UnderWay' = [UnderWay EXCEPT ![p] = {Access(pkt, TRUE)}]
    BY <1>3, <2>2, UnderWayChanged
  <2>4. /\ memory' = [memory EXCEPT ![pkt.addr] = writeDataToBlock(pkt, @)]
        /\ pkt.addr \in Addr /\ cacheStore[pkt.addr] = None
    BY <1>4 DEF memSendPacket, memAccepts, Packet, Cached
  <2>5. Contents' = [Contents EXCEPT ![pkt.addr] = writeDataToBlock(pkt, @)]
    BY <2>4 DEF Contents, CacheInv, TypeOK
  <2> QED
    BY <1>4, <2>1, <2>3, <2>5, PerformMaps
<1>5. CASE ~(accepted /\ sent.cmd = "WriteReq")
  <2>1. Work(p)' = Work(p)
    BY <1>2, <1>5
  <2>2. UnderWay' = UnderWay
    BY <1>3, <2>1, UnderWayKept
  <2>3. memory' = memory
    BY <1>5 DEF memSendPacket, memAccepts
  <2> QED
    BY <2>2, <2>3 DEF Contents, Atomic!vars
<1> QED
  BY <1>4, <1>5

LEMMA AccessMissMaps ==
  ASSUME CacheInv, CacheInv', NEW accepted \in BOOLEAN, AccessMiss(accepted)
  PROVE  Atomic!Next \/ UNCHANGED Atomic!vars
<1> DEFINE pkt == accessEvent
           sent == IF pkt.words = Word THEN pkt ELSE Upgraded(pkt)
<1>1. Accessing
  BY DEF AccessMiss, CacheInv, OneStage, Idle, Forwarded, Waiting, AtMemorySide
<1>2. /\ pkt \in Packet /\ pkt # None /\ waitingPortId \in Port
      /\ outstandingPacket = None /\ atMemory = {} /\ memBlockedPacket = None
  BY <1>1, RequestType DEF Accessing
<1>3. Uniform(ZeroData) \in Block
  BY CacheConstants DEF CacheConstants, Uniform, Block
<1>4. Upgraded(pkt) \in Packet
  BY <1>2, <1>3, DataType
<1>5. /\ sent \in Packet /\ sent.addr = pkt.addr
      /\ sent.cmd = "WriteReq" => sent = pkt
      /\ pkt.words # Word => sent.cmd = "ReadReq"
  BY <1>2, <1>4 DEF Upgraded, Packet
<1>6. /\ memSendPacket(sent, accepted)
      /\ outstandingPacket' = IF pkt.words = Word THEN None ELSE pkt
      /\ accessEvent' = None
      /\ pkt.addr \notin Cached(cacheStore)
      /\ UNCHANGED <<waitingPortId, cacheStore, calls, blockedPacket>>
  BY <1>2 DEF AccessMiss, cpuSideVars
<1>7. Work(waitingPortId) = {Access(pkt, FALSE)}
  BY <1>2 DEF Work
<1>8. Work(waitingPortId)' = {Access(pkt, accepted /\ sent.cmd = "WriteReq")}
  <2>1. CASE pkt.words = Word
    <3>1. sent = pkt
      BY <2>1
    <3>2. /\ MemoryPackets' = {sent}
          /\ sent \in atMemory' <=> accepted
      BY <1>2, <1>5, <1>6, PacketNotNone DEF memSendPacket, memAccepts, MemoryPackets
    <3> QED
      BY <1>2, <1>6, <2>1, <3>1, <3>2 DEF Work
  <2>2. CASE pkt.words # Word
    BY <1>2, <1>5, <1>6, <2>2 DEF Work
  <2> QED
    BY <2>1, <2>2
<1> HIDE DEF sent
<1> QED
  BY <1>2, <1>5, <1>6, <1>7, <1>8, ForwardMaps

LEMMA RecvReqRetryMaps ==
  ASSUME CacheInv, CacheInv', NEW accepted \in BOOLEAN, RecvReqRetry(accepted)
  PROVE  Atomic!Next \/ UNCHANGED Atomic!vars
<1>1. PICK sent : sent = memBlockedPacket
  OBVIOUS
<1>2. /\ sent \in Packet /\ sent # None
      /\ memSendPacket(sent, accepted)
      /\ UNCHANGED <<waitingPortId, accessEvent, outstandingPacket, cacheStore,
                     calls, blockedPacket>>
  BY <1>1 DEF RecvReqRetry, CacheInv, TypeOK, missVars, cpuSideVars
<1>3. AtMemorySide(sent) /\ atMemory = {} /\ (Forwarded(sent) \/ Waiting(sent))
  BY <1>1, <1>2 DEF CacheInv, OneStage, Idle, Accessing, Forwarded, Waiting,
                    AtMemorySide
<1>4. /\ waitingPortId \in Port /\ accessEvent = None
      /\ sent.addr \notin Cached(cacheStore)
  BY <1>3 DEF AtMemorySide
<1>5. /\ MemoryPackets = {sent} /\ MemoryPackets' = {sent}
      /\ sent \in atMemory' <=> accepted
  BY <1>1, <1>2, <1>3 DEF memSendPacket, memAccepts, MemoryPackets
<1>6. CASE outstandingPacket = None
  <2>1. Work(waitingPortId) = {Access(sent, FALSE)}
    BY <1>3, <1>4, <1>5, <1>6 DEF Work
  <2>2. Work(waitingPortId)' = {Access(sent, accepted /\ sent.cmd = "WriteReq")}
    BY <1>2, <1>4, <1>5, <1>6 DEF Work
  <2> QED
    BY <1>2, <1>4, <2>1, <2>2, ForwardMaps
<1>7. CASE outstandingPacket # None
  <2>1. /\ outstandingPacket \in Packet /\ sent.cmd = "ReadReq"
    BY <1>3, <1>7, DataType DEF Forwarded, Waiting, Upgraded, CacheInv, TypeOK, Packet
  <2>2. /\ Work(waitingPortId) = {Access(outstandingPacket, FALSE)}
        /\ Work(waitingPortId)' = {Access(outstandingPacket, FALSE)}
    BY <1>2, <1>4, <1>7 DEF Work
  <2> QED
    BY <1>2, <1>4, <2>1, <2>2, ForwardMaps
<1> QED
  BY <1>6, <1>7

(* What insert leaves of the contents: a block evicted is in memory, and   *)
(* the block memory answers with is the one it has.                        *)
LEMMA ContentsInserted ==
  ASSUME CacheInv, NEW pkt \in Packet, NEW victim \in SUBSET Cached(cacheStore),
         NEW store \in [Addr -> Block \cup {None}],
         pkt.addr \notin Cached(cacheStore), store[pkt.addr] # None,
         \A a \in Addr : a # pkt.addr =>
           store[a] = inserted(victim, Response(pkt))[a],
         cacheStore' = store, memory' = writtenBack(victim)
  PROVE  Contents' = [Contents EXCEPT ![pkt.addr] = store[pkt.addr]]
<1>1. Contents' = [a \in Addr |-> IF store[a] # None THEN store[a]
                                 ELSE writtenBack(victim)[a]]
  BY DEF Contents
<1>2. pkt.addr \in Addr /\ Response(pkt).addr = pkt.addr
  BY InsertedType DEF Packet, CacheInv
<1>3. ASSUME NEW a \in Addr, a # pkt.addr
      PROVE  (IF store[a] # None THEN store[a] ELSE writtenBack(victim)[a])
               = Contents[a]
  <2>1. store[a] = IF a \in victim THEN None ELSE cacheStore[a]
    BY <1>2, <1>3 DEF inserted
  <2>2. writtenBack(victim)[a] = IF a \in victim THEN cacheStore[a] ELSE memory[a]
    BY DEF writtenBack
  <2>3. a \in victim => cacheStore[a] # None
    BY DEF Cached
  <2> QED
    BY <2>1, <2>2, <2>3 DEF Contents
<1> QED
  BY <1>1, <1>2, <1>3 DEF Contents

(* The answer to a read of a whole block is the block memory has.          *)
LEMMA BlockRead ==
  ASSUME TypeOK, NEW pkt \in Packet, pkt.words = Word, pkt.cmd = "ReadReq"
  PROVE  /\ Response(pkt) = setDataFromBlock(pkt, memory[pkt.addr])
         /\ Response(pkt).data = memory[pkt.addr]
<1>1. pkt.addr \in Addr /\ memory[pkt.addr] \in Block
  BY DEF Packet, TypeOK
<1>2. [w \in Word |-> IF w \in pkt.words THEN memory[pkt.addr][w] ELSE pkt.data[w]]
        = memory[pkt.addr]
  BY <1>1 DEF Block
<1>3. setDataFromBlock(pkt, memory[pkt.addr]).data = memory[pkt.addr]
  BY <1>2 DEF setDataFromBlock, Packet
<1> QED
  BY <1>3 DEF Response

LEMMA HandleResponseMaps ==
  ASSUME "WritebackDirty" \notin MemRefuses,
         CacheInv, CacheInv', NEW pkt \in atMemory, NEW victim \in Victims,
         NEW accepted \in BOOLEAN, HandleResponse(pkt, victim, accepted)
  PROVE  Atomic!Next \/ UNCHANGED Atomic!vars
<1> DEFINE resp == Response(pkt)
           store == inserted(victim, resp)
           result == completed(store, resp)
<1>1. /\ pkt \in Packet /\ AtMemorySide(pkt)
      /\ Forwarded(pkt) \/ Waiting(pkt)
  <2>1. PICK q \in Packet : Forwarded(q) \/ Waiting(q)
    BY DEF CacheInv, OneStage, Idle, Accessing
  <2>2. q = pkt
    BY <2>1 DEF Forwarded, Waiting, AtMemorySide
  <2> QED
    BY <2>1, <2>2 DEF Forwarded, Waiting
<1>2. /\ waitingPortId \in Port /\ accessEvent = None
      /\ pkt.words = Word /\ pkt.addr \notin Cached(cacheStore)
      /\ MemoryPackets = {pkt}
  BY <1>1, PacketNotNone DEF AtMemorySide, MemoryPackets
<1>3. /\ victim \in SUBSET Cached(cacheStore)
      /\ pkt.addr \in Addr /\ pkt.cmd \in {"ReadReq", "WriteReq"}
      /\ Contents[pkt.addr] = memory[pkt.addr]
      /\ Contents \in [Addr -> Block]
  BY <1>1, <1>2 DEF Victims, Packet, Contents, Cached, CacheInv, TypeOK
<1>4. /\ calls = <<>> /\ memory' = writtenBack(victim)
      /\ cacheStore' = result.store
      /\ sendResponse(result.pkt)
      /\ blockedPacket' = blockedPacket
  BY DEF HandleResponse, cpuSideVars
<1>5. /\ result.store \in [Addr -> Block \cup {None}]
      /\ result.pkt \in Packet
      /\ Cached(result.store) = (Cached(cacheStore) \ victim) \cup {pkt.addr}
      /\ \A a \in Addr : a # pkt.addr => result.store[a] = store[a]
  BY <1>1, <1>3, CompletedType
<1>6. /\ resp.data \in Block /\ resp.addr = pkt.addr
      /\ store \in [Addr -> Block \cup {None}]
      /\ store[pkt.addr] = resp.data
  BY <1>1, <1>3, InsertedType DEF CacheInv, inserted
<1>7. result.store[pkt.addr] # None
  BY <1>3, <1>5 DEF Cached
<1>8. Contents' = [Contents EXCEPT ![pkt.addr] = result.store[pkt.addr]]
  BY <1>1, <1>2, <1>3, <1>4, <1>5, <1>7, ContentsInserted
<1>9. /\ UnderWay' = [UnderWay EXCEPT ![waitingPortId] = {Access(result.pkt, TRUE)}]
      /\ UnderWay[waitingPortId] = Work(waitingPortId)
  BY <1>2, <1>4, <1>5, ResponseMaps
<1>10. CASE outstandingPacket = None /\ pkt.cmd = "ReadReq"
  <2>1. result = [store |-> store, pkt |-> resp]
    BY <1>10 DEF completed
  <2>2. /\ resp = setDataFromBlock(pkt, memory[pkt.addr])
        /\ resp.data = memory[pkt.addr]
    BY <1>1, <1>2, <1>10, BlockRead DEF CacheInv
  <2>3. Contents' = Contents
    BY <1>3, <1>6, <1>8, <2>1, <2>2
  <2>4. Work(waitingPortId) = {Access(pkt, FALSE)}
    BY <1>2, <1>10 DEF Work
  <2>5. UnderWay' = [UnderWay EXCEPT ![waitingPortId] =
                       {Access(setDataFromBlock(pkt, Contents[pkt.addr]), TRUE)}]
    BY <1>3, <1>9, <2>1, <2>2
  <2> QED
    BY <1>1, <1>2, <1>9, <1>10, <2>3, <2>4, <2>5, PerformMaps
<1>11. CASE outstandingPacket = None /\ pkt.cmd = "WriteReq"
  <2>1. result = [store |-> store, pkt |-> pkt] /\ resp = pkt
    BY <1>11 DEF completed, Response
  <2>2. pkt.data = memory[pkt.addr]
    BY <1>1, <1>11 DEF Forwarded, Waiting
  <2>3. Contents' = Contents
    BY <1>3, <1>6, <1>8, <2>1, <2>2
  <2>4. Work(waitingPortId) = {Access(pkt, TRUE)}
    BY <1>2, <1>11 DEF Work
  <2>5. UnderWay' = UnderWay
    <3>1. UnderWay' = [UnderWay EXCEPT ![waitingPortId] = UnderWay[waitingPortId]]
      BY <1>9, <2>1, <2>4
    <3> QED
      BY <3>1 DEF UnderWay
  <2> QED
    BY <2>3, <2>5 DEF Atomic!vars
<1>12. CASE outstandingPacket # None
  <2> DEFINE o == outstandingPacket
  <2>1. o \in Packet /\ pkt = Upgraded(o)
    BY <1>1, <1>12 DEF Forwarded, Waiting, CacheInv, TypeOK
  <2>2. pkt.cmd = "ReadReq" /\ o.addr = pkt.addr
    BY <2>1 DEF Upgraded, Packet
  <2>3. result = accessed(store, o)
    BY <1>12 DEF completed
  <2>4. store[o.addr] = Contents[o.addr]
    BY <1>1, <1>2, <1>3, <1>6, <2>2, BlockRead DEF CacheInv
  <2>5. Work(waitingPortId) = {Access(o, FALSE)}
    BY <1>2, <1>12 DEF Work
  <2> HIDE DEF o, resp, store
  <2>6. CASE o.cmd = "WriteReq"
    <3>1. /\ result.pkt = o
          /\ result.store[o.addr] = writeDataToBlock(o, Contents[o.addr])
      BY <1>3, <1>6, <2>2, <2>3, <2>4, <2>6 DEF accessed
    <3>2. Contents' = [Contents EXCEPT ![o.addr] = writeDataToBlock(o, @)]
      BY <1>8, <2>2, <3>1
    <3> HIDE DEF result
    <3> QED
      BY <1>2, <1>9, <2>1, <2>5, <2>6, <3>1, <3>2, PerformMaps
  <2>7. CASE o.cmd = "ReadReq"
    <3>1. /\ result.pkt = setDataFromBlock(o, Contents[o.addr])
          /\ result.store = store
      BY <2>3, <2>4, <2>7 DEF accessed
    <3> HIDE DEF result
    <3>2. Contents' = Contents
      BY <1>3, <1>8, <2>2, <2>4, <3>1
    <3> QED
      BY <1>2, <1>9, <2>1, <2>5, <2>7, <3>1, <3>2, PerformMaps
  <2> QED
    BY <2>1, <2>6, <2>7 DEF Packet
<1> QED
  BY <1>3, <1>10, <1>11, <1>12

LEMMA HandleFunctionalMaps ==
  ASSUME CacheInv, CacheInv', NEW p \in Port, NEW pkt \in Request(p),
         HandleFunctional(pkt)
  PROVE  Atomic!Next
<1> USE DEF HandleFunctional, cpuSideVars
<1>1. pkt \in Packet /\ pkt.addr \in Addr /\ pkt.cmd = "WriteReq"
  BY RequestType DEF Packet
<1>2. \A q \in Port : Work(q)' = Work(q) /\ Answers(q)' = Answers(q)
  BY DEF Work, Answers, MemoryPackets, Calling
<1>3. UnderWay' = UnderWay
  BY <1>2, UnderWayKept
<1>4. Contents' = [Contents EXCEPT ![pkt.addr] = writeDataToBlock(pkt, @)]
  <2>1. CASE pkt.addr \in Cached(cacheStore)
    <3>1. /\ cacheStore' = [cacheStore EXCEPT ![pkt.addr] = writeDataToBlock(pkt, @)]
          /\ memory' = memory
          /\ cacheStore[pkt.addr] \in Block /\ cacheStore[pkt.addr] # None
      BY <1>1, <2>1 DEF accessed, Cached, CacheInv, TypeOK
    <3>2. writeDataToBlock(pkt, cacheStore[pkt.addr]) # None
      BY <1>1, <3>1, DataType, NoneIsNoBlock
    <3> QED
      BY <1>1, <3>1, <3>2 DEF Contents, CacheInv, TypeOK
  <2>2. CASE pkt.addr \notin Cached(cacheStore)
    BY <1>1, <2>2 DEF Contents, Cached, CacheInv, TypeOK
  <2> QED
    BY <2>1, <2>2
<1>5. \A block : Atomic!Written(pkt, block) = writeDataToBlock(pkt, block)
  BY DEF Atomic!Written, writeDataToBlock
<1>6. Atomic!FunctionalWrite
  BY <1>1, <1>3, <1>4, <1>5 DEF Atomic!FunctionalWrite
<1> QED
  BY <1>6 DEF Atomic!Next

-----------------------------------------------------------------------------
(* The mapping.                                                            *)

LEMMA InitMaps == Init => Atomic!Init
<1> SUFFICES ASSUME Init PROVE Atomic!Init
  OBVIOUS
<1>1. CacheInv
  BY CacheInit
<1>2. \A p \in Port : Work(p) = {} /\ Answers(p) = {}
  BY NoPortIsNone DEF Init, Work, Answers, Calling
<1>3. \A p \in Port : UnderWay[p] = {}
  BY <1>1, <1>2, UnderWayIs
<1>4. UnderWay = [p \in Port |-> {}]
  BY <1>3 DEF UnderWay
<1>5. Contents \in [Addr -> Block]
  BY <1>1 DEF Contents, CacheInv, TypeOK
<1> QED
  BY <1>4, <1>5 DEF Atomic!Init

LEMMA StutterMaps ==
  ASSUME UNCHANGED <<waitingPortId, missVars, calls, cpuSideVars, memSideVars>>
  PROVE  UNCHANGED Atomic!vars
<1> USE DEF missVars, cpuSideVars, memSideVars
<1>1. Contents' = Contents
  BY DEF Contents
<1>2. UnderWay' = UnderWay
  BY DEF UnderWay, ToPerform, Performed, MemoryPackets
<1> QED
  BY <1>1, <1>2 DEF Atomic!vars

LEMMA NextMaps ==
  ASSUME "WritebackDirty" \notin MemRefuses
  PROVE  CacheInv /\ CacheInv' /\ [Next]_vars => [Atomic!Next]_Atomic!vars
<1> SUFFICES ASSUME CacheInv, CacheInv', [Next]_vars
             PROVE  Atomic!Next \/ UNCHANGED Atomic!vars
  OBVIOUS
<1>1. ASSUME NEW p \in Port, PortStep(p)
      PROVE  Atomic!Next \/ UNCHANGED Atomic!vars
  BY <1>1, SendTimingReqMaps, SendRetryReqMaps, SendResponseMaps,
     RecvRespRetryMaps, NoRetryReqMaps DEF PortStep
<1>2. CASE AccessHit
  BY <1>2, AccessHitMaps
<1>3. ASSUME NEW accepted \in BOOLEAN, MemoryStep(accepted)
      PROVE  Atomic!Next \/ UNCHANGED Atomic!vars
  BY <1>3, AccessMissMaps, RecvReqRetryMaps, HandleResponseMaps DEF MemoryStep
<1>4. ASSUME NEW p \in Port, NEW pkt \in Request(p), HandleFunctional(pkt)
      PROVE  Atomic!Next
  BY <1>4, HandleFunctionalMaps
<1>5. CASE Panic
  BY <1>5, StutterMaps DEF Panic
<1>6. CASE UNCHANGED vars
  BY <1>6, StutterMaps DEF vars
<1> QED
  BY <1>1, <1>2, <1>3, <1>4, <1>5, <1>6 DEF Next

(* The cache with a memory that takes its writebacks is one memory in      *)
(* which each access takes effect at one moment between its acceptance and *)
(* its answer: accessFunctional, insert, the upgrade of a partial miss and *)
(* the response that completes it.                                         *)
THEOREM CacheImplementsAtomicMemory ==
  ASSUME "WritebackDirty" \notin MemRefuses
  PROVE  Spec => ImplementsAtomicMemory
<1>1. CacheInv /\ CacheInv' /\ [Next]_vars => [Atomic!Next]_Atomic!vars
  BY NextMaps
<1> QED
  BY <1>1, InitMaps, CacheInvariant, PTL
     DEF Spec, ImplementsAtomicMemory, Atomic!Spec
=============================================================================
