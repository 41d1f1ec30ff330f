---------------------------- MODULE SimpleCache ----------------------------
(***************************************************************************)
(* The SimpleCache of part 2: a blocking, fully associative writeback      *)
(* cache between CPU ports and memory.  As in SimpleMemobj, a handler is   *)
(* cut at its calls to the CPU, and "calls" holds those still to make.     *)
(***************************************************************************)
EXTENDS Integers, Sequences, FiniteSets

CONSTANTS
  NumPorts,   \* connections of cpu_side
  Addr,       \* block addresses
  Word,       \* the parts of a block an access can name
  Data,       \* contents of a word
  ZeroData,   \* contents of a word at start, and of a request for data
  Accesses,   \* the sets of words the CPU accesses; Word is a whole block
  Capacity,   \* blocks in the cache, params->size / blockSize
  ReadOnly,   \* ports that only read, as an instruction port does
  Refusing,   \* ports at which the CPU may refuse a response
  MemRefuses  \* commands memory may refuse

Port == 1..NumPorts
Command == {"ReadReq", "WriteReq", "WritebackDirty"}

ASSUME CacheConstants ==
  /\ NumPorts \in Nat
  /\ ZeroData \in Data
  /\ Accesses \subseteq SUBSET Word /\ {} \notin Accesses
  /\ Capacity \in Nat \ {0}
  /\ ReadOnly \subseteq Port /\ Refusing \subseteq Port
  /\ MemRefuses \subseteq Command

VARIABLES
  blocked,            \* an accepted request has no response yet
  waitingPortId,      \* its port, or -1
  accessEvent,        \* the packet of the scheduled AccessEvent, or None
  outstandingPacket,  \* the packet an upgraded read stands for, or None
  cacheStore,         \* [Addr -> Block or None]
  needRetry,          \* [Port -> BOOLEAN]: CPUSidePort::needRetry
  blockedPacket,      \* [Port -> Packet or None]: CPUSidePort::blockedPacket
  memBlockedPacket,   \* MemSidePort::blockedPacket
  calls,              \* calls to the CPU that sendResponse has still to make
  refused,            \* [Port -> BOOLEAN]: the CPU's request waits for a retry
  atMemory,           \* packets memory has accepted and will answer
  memRetryDue,        \* memory refused a packet and owes a retry
  memory,             \* [Addr -> Block]
  panicked            \* the assertion or panic that ended the simulation

cpuSideVars == <<needRetry, blockedPacket, refused>>
memSideVars == <<memBlockedPacket, atMemory, memRetryDue, memory>>
missVars == <<accessEvent, outstandingPacket, cacheStore>>
vars == <<blocked, waitingPortId, missVars, calls, cpuSideVars, memSideVars,
          panicked>>

Block == [Word -> Data]
None == [port |-> -1]
NoPanic == "None"

ASSUME NoneIsNoBlock == None \notin Block

Packet ==
  [port : Port, cmd : {"ReadReq", "WriteReq"}, addr : Addr,
   words : Accesses \cup {Word}, data : Block]

(* What a CPU sends: a read brings no data, a write the same for each word.*)
Uniform(d) == [w \in Word |-> d]
Requests(p, cmd, values) ==
  {[port |-> p, cmd |-> cmd, addr |-> a, words |-> ws, data |-> Uniform(d)] :
     a \in Addr, ws \in Accesses, d \in values}
Request(p) ==
  Requests(p, "ReadReq", {ZeroData})
    \cup (IF p \in ReadOnly THEN {} ELSE Requests(p, "WriteReq", Data))

Call == [fn : {"sendPacket"}, port : Port, pkt : Packet]
          \cup [fn : {"trySendRetry"}, port : Port]

-----------------------------------------------------------------------------
(* Data.                                                                   *)

writeDataToBlock(pkt, block) ==
  [w \in Word |-> IF w \in pkt.words THEN pkt.data[w] ELSE block[w]]
setDataFromBlock(pkt, block) ==
  [pkt EXCEPT !.data = [w \in Word |-> IF w \in pkt.words THEN block[w] ELSE @[w]]]

Cached(store) == {a \in Addr : store[a] # None}

(* accessFunctional on a block that is there: the store and the packet.    *)
accessed(store, pkt) ==
  IF pkt.cmd = "WriteReq"
    THEN [store |-> [store EXCEPT ![pkt.addr] = writeDataToBlock(pkt, @)],
          pkt |-> pkt]
    ELSE [store |-> store, pkt |-> setDataFromBlock(pkt, store[pkt.addr])]

-----------------------------------------------------------------------------
(* Ports.                                                                  *)

(* MemSidePort::sendPacket, and memory's recvTimingReq.                    *)
memAccepts(pkt) ==
  /\ atMemory' = atMemory \cup {pkt}
  /\ memory' = IF pkt.cmd = "WriteReq"
                 THEN [memory EXCEPT ![pkt.addr] = writeDataToBlock(pkt, @)]
                 ELSE memory

memSendPacket_NotKept(pkt, accepted) ==                  \* seeded fault
  /\ memBlockedPacket' = None
  /\ \/ accepted /\ memAccepts(pkt)
     \/ ~accepted /\ pkt.cmd \in MemRefuses /\ UNCHANGED <<atMemory, memory>>
memSendPacket(pkt, accepted) ==
  \/ /\ accepted
     /\ memBlockedPacket' = None
     /\ memAccepts(pkt)
  \/ /\ ~accepted
     /\ pkt.cmd \in MemRefuses
     /\ memBlockedPacket' = pkt
     /\ UNCHANGED <<atMemory, memory>>

(* CPUSidePort::sendPacket: keep the packet if the CPU refuses it.         *)
cpuSendPacket(p, pkt, accepted) ==
  /\ accepted \/ p \in Refusing
  /\ blockedPacket' = [blockedPacket EXCEPT ![p] =
                         IF accepted THEN None ELSE pkt]

(* handleRequest: the access takes place when the event fires.             *)
handleRequest(p, pkt) ==
  /\ ~blocked
  /\ waitingPortId = -1
  /\ blocked' = TRUE
  /\ waitingPortId' = p
  /\ accessEvent' = pkt

(* CPUSidePort::recvTimingReq, with the retry flags it finds.              *)
portBusy_Unchecked(p, flags) == FALSE                    \* seeded fault
portBusy(p, flags) == blockedPacket[p] # None \/ flags[p]

recvTimingReq(p, pkt, flags) ==
  \/ /\ ~portBusy(p, flags)
     /\ handleRequest(p, pkt)
     /\ needRetry' = flags
     /\ refused' = [refused EXCEPT ![p] = FALSE]
  \/ /\ portBusy(p, flags) \/ blocked
     /\ needRetry' = [flags EXCEPT ![p] = TRUE]
     /\ refused' = [refused EXCEPT ![p] = TRUE]
     /\ UNCHANGED <<blocked, waitingPortId, accessEvent>>

(* sendResponse: unblock, answer the port, then let every port retry.      *)
tryRetries_PastEnd ==                                    \* seeded fault
  [p \in 1..NumPorts + 1 |-> [fn |-> "trySendRetry", port |-> p]]
tryRetries == [p \in Port |-> [fn |-> "trySendRetry", port |-> p]]

sendResponse_PortKept(pkt) ==                            \* seeded fault
  /\ blocked' = FALSE
  /\ calls' = <<[fn |-> "sendPacket", port |-> waitingPortId, pkt |-> pkt]>>
                \o tryRetries
  /\ UNCHANGED waitingPortId
sendResponse(pkt) ==
  /\ blocked' = FALSE
  /\ waitingPortId' = -1
  /\ calls' = <<[fn |-> "sendPacket", port |-> waitingPortId, pkt |-> pkt]>>
                \o tryRetries

-----------------------------------------------------------------------------
(* Requests.                                                               *)

Calling(fn, p) == calls # <<>> /\ Head(calls).fn = fn /\ Head(calls).port = p

(* A CPU port sends a request, on its own or within a call to it, but not  *)
(* within a response it then refuses.                                      *)
SendTimingReq(p, pkt) ==
  /\ ~refused[p] /\ ~Calling("sendPacket", p)
  /\ recvTimingReq(p, pkt, needRetry)
  /\ UNCHANGED <<outstandingPacket, cacheStore, blockedPacket, calls,
                 memSideVars, panicked>>

(* accessTiming, a hit.                                                    *)
AccessHit ==
  LET pkt == accessEvent
      result == accessed(cacheStore, pkt) IN
  /\ calls = <<>> /\ pkt # None
  /\ blocked
  /\ pkt.addr \in Cached(cacheStore)
  /\ cacheStore' = result.store
  /\ accessEvent' = None
  /\ sendResponse(result.pkt)
  /\ UNCHANGED <<outstandingPacket, cpuSideVars, memSideVars, panicked>>

(* accessTiming, a miss: a whole block is asked for as it is, and anything *)
(* else as a read of the block, which the packet waits for.                *)
Upgraded(pkt) ==
  [pkt EXCEPT !.cmd = "ReadReq", !.words = Word,
              !.data = Uniform(ZeroData)]

AccessMiss(accepted) ==
  LET pkt == accessEvent
      whole == pkt.words = Word IN
  /\ calls = <<>> /\ pkt # None
  /\ pkt.addr \notin Cached(cacheStore)
  /\ memBlockedPacket = None
  /\ outstandingPacket' = IF whole THEN outstandingPacket ELSE pkt
  /\ memSendPacket(IF whole THEN pkt ELSE Upgraded(pkt), accepted)
  /\ memRetryDue' = (memRetryDue \/ ~accepted)
  /\ accessEvent' = None
  /\ UNCHANGED <<blocked, waitingPortId, cacheStore, calls, cpuSideVars,
                 panicked>>

(* MemSidePort::recvReqRetry: memory can take the packet it refused.       *)
RecvReqRetry(accepted) ==
  /\ calls = <<>>
  /\ memRetryDue
  /\ memBlockedPacket # None
  /\ memSendPacket(memBlockedPacket, accepted)
  /\ memRetryDue' = ~accepted
  /\ UNCHANGED <<blocked, waitingPortId, missVars, calls, cpuSideVars,
                 panicked>>

-----------------------------------------------------------------------------
(* Responses.                                                              *)

(* The packet as memory answers it.                                        *)
Response(pkt) ==
  IF pkt.cmd = "ReadReq" THEN setDataFromBlock(pkt, memory[pkt.addr]) ELSE pkt

(* insert: the block a full cache writes back, if any, is one chosen at    *)
(* random.  The writeback has no response, and sendTimingReq's answer is   *)
(* not looked at: a refused writeback is gone.                             *)
Victims_OffByOne == {victim \in SUBSET Cached(cacheStore) :  \* seeded fault
              Cardinality(victim) =
                IF Cardinality(Cached(cacheStore)) > Capacity THEN 1 ELSE 0}
Victims == {victim \in SUBSET Cached(cacheStore) :
              Cardinality(victim) =
                IF Cardinality(Cached(cacheStore)) >= Capacity THEN 1 ELSE 0}

writtenBack_Clean(victim) == memory                      \* seeded fault
writtenBack(victim) ==
  [a \in Addr |-> IF a \in victim THEN cacheStore[a] ELSE memory[a]]

inserted(victim, pkt) ==
  [a \in Addr |-> IF a = pkt.addr THEN pkt.data
                  ELSE IF a \in victim THEN None ELSE cacheStore[a]]

(* What the port is answered: an upgraded read lets the packet it stands   *)
(* for find the block it needs.                                            *)
completed_Upgraded(store, pkt) ==                        \* seeded fault
  [store |-> store, pkt |-> pkt]
completed(store, pkt) ==
  IF outstandingPacket # None THEN accessed(store, outstandingPacket)
                              ELSE [store |-> store, pkt |-> pkt]

HandleResponse(pkt, victim, accepted) ==
  LET result == completed(inserted(victim, Response(pkt)), Response(pkt)) IN
  /\ calls = <<>>
  /\ blocked
  /\ pkt.addr \notin Cached(cacheStore)
  /\ accepted \/ (victim # {} /\ "WritebackDirty" \in MemRefuses)
  /\ atMemory' = atMemory \ {pkt}
  /\ memory' = IF accepted THEN writtenBack(victim) ELSE memory
  /\ memRetryDue' = (memRetryDue \/ ~accepted)
  /\ cacheStore' = result.store
  /\ outstandingPacket' = None
  /\ sendResponse(result.pkt)
  /\ UNCHANGED <<accessEvent, memBlockedPacket, cpuSideVars, panicked>>

(* CPUSidePort::sendPacket, as sendResponse calls it.                      *)
SendResponse(p, accepted) ==
  /\ Calling("sendPacket", p)
  /\ blockedPacket[p] = None
  /\ cpuSendPacket(p, Head(calls).pkt, accepted)
  /\ calls' = Tail(calls)
  /\ UNCHANGED <<blocked, waitingPortId, missVars, needRetry, refused,
                 memSideVars, panicked>>

(* trySendRetry, when the port is free: the CPU sends its request again    *)
(* within the call.                                                        *)
MayRetry(p) == needRetry[p] /\ blockedPacket[p] = None

SendRetryReq(p, pkt) ==
  /\ Calling("trySendRetry", p)
  /\ MayRetry(p)
  /\ recvTimingReq(p, pkt, [needRetry EXCEPT ![p] = FALSE])
  /\ calls' = Tail(calls)
  /\ UNCHANGED <<outstandingPacket, cacheStore, blockedPacket, memSideVars,
                 panicked>>

(* trySendRetry, when nobody waits or the port is not free.                *)
NoRetryReq(p) ==
  /\ Calling("trySendRetry", p)
  /\ ~MayRetry(p)
  /\ calls' = Tail(calls)
  /\ UNCHANGED <<blocked, waitingPortId, missVars, cpuSideVars, memSideVars,
                 panicked>>

(* CPUSidePort::recvRespRetry: the CPU can take the response it refused,   *)
(* and the port may then be free for a retry.                              *)
afterRespRetry_NoRetry(p) == <<>>                        \* seeded fault
afterRespRetry(p) == <<[fn |-> "trySendRetry", port |-> p]>>

RecvRespRetry(p, accepted) ==
  /\ calls = <<>>
  /\ blockedPacket[p] # None
  /\ cpuSendPacket(p, blockedPacket[p], accepted)
  /\ calls' = afterRespRetry(p)
  /\ UNCHANGED <<blocked, waitingPortId, missVars, needRetry, refused,
                 memSideVars, panicked>>

(* handleFunctional, a write: into the cache if the block is there, into   *)
(* memory if not.  The CPU makes it while no access of its own is handled. *)
HandleFunctional(pkt) ==
  /\ calls = <<>> /\ ~blocked
  /\ pkt.cmd = "WriteReq"
  /\ \/ /\ pkt.addr \in Cached(cacheStore)
        /\ cacheStore' = accessed(cacheStore, pkt).store
        /\ UNCHANGED memory
     \/ /\ pkt.addr \notin Cached(cacheStore)
        /\ memory' = [memory EXCEPT ![pkt.addr] = writeDataToBlock(pkt, @)]
        /\ UNCHANGED cacheStore
  /\ UNCHANGED <<blocked, waitingPortId, accessEvent, outstandingPacket, calls,
                 cpuSideVars, memBlockedPacket, atMemory, memRetryDue, panicked>>

-----------------------------------------------------------------------------
Fault ==
  {"recvReqRetry without a blocked packet", "sendPacket to a blocked CPU port",
   "handleRequest with a waiting port",
   "access while not blocked, or behind a blocked packet",
   "unexpected response"}

(* What the panics and assertions look for.                                *)
Faults ==
  (IF /\ calls = <<>> /\ memRetryDue /\ memBlockedPacket = None
     THEN {"recvReqRetry without a blocked packet"} ELSE {})
  \cup (IF \E p \in Port : Calling("sendPacket", p) /\ blockedPacket[p] # None
          THEN {"sendPacket to a blocked CPU port"} ELSE {})
  \cup (IF \E p \in Port : /\ ~blocked /\ waitingPortId # -1
                            /\ ~refused[p] /\ ~portBusy(p, needRetry)
          THEN {"handleRequest with a waiting port"} ELSE {})
  \cup (IF /\ calls = <<>> /\ accessEvent # None
           /\ \/ /\ ~blocked
                 /\ accessEvent.addr \in Cached(cacheStore)
              \/ /\ memBlockedPacket # None
                 /\ accessEvent.addr \notin Cached(cacheStore)
          THEN {"access while not blocked, or behind a blocked packet"} ELSE {})
  \cup (IF /\ calls = <<>>
           /\ \E pkt \in atMemory : ~blocked \/ pkt.addr \in Cached(cacheStore)
          THEN {"unexpected response"} ELSE {})

Panic ==
  /\ \E fault \in Faults : panicked' = fault
  /\ UNCHANGED <<blocked, waitingPortId, missVars, calls, cpuSideVars,
                 memSideVars>>

Init ==
  /\ blocked = FALSE
  /\ waitingPortId = -1
  /\ accessEvent = None
  /\ outstandingPacket = None
  /\ cacheStore = [a \in Addr |-> None]
  /\ needRetry = [p \in Port |-> FALSE]
  /\ blockedPacket = [p \in Port |-> None]
  /\ memBlockedPacket = None
  /\ calls = <<>>
  /\ refused = [p \in Port |-> FALSE]
  /\ atMemory = {}
  /\ memRetryDue = FALSE
  /\ memory = [a \in Addr |-> Uniform(ZeroData)]
  /\ panicked = NoPanic

PortStep(p) ==
  \/ \E pkt \in Request(p) : SendTimingReq(p, pkt) \/ SendRetryReq(p, pkt)
  \/ \E accepted \in BOOLEAN :
       SendResponse(p, accepted) \/ RecvRespRetry(p, accepted)
  \/ NoRetryReq(p)

MemoryStep(accepted) ==
  \/ AccessMiss(accepted)
  \/ RecvReqRetry(accepted)
  \/ \E pkt \in atMemory, victim \in Victims :
       HandleResponse(pkt, victim, accepted)

Next ==
  /\ panicked = NoPanic
  /\ \/ \E p \in Port : PortStep(p)
     \/ AccessHit
     \/ \E accepted \in BOOLEAN : MemoryStep(accepted)
     \/ \E p \in Port : \E pkt \in Request(p) : HandleFunctional(pkt)
     \/ Panic

Spec == Init /\ [][Next]_vars

(* A handler runs to its end, a scheduled event fires, memory answers what *)
(* it accepts, and who refuses a packet asks for it again and takes it in  *)
(* the end.                                                                *)
Running(A) == panicked = NoPanic /\ A

PortFairness(p) ==
  /\ WF_vars(Running(\E accepted \in BOOLEAN : SendResponse(p, accepted)))
  /\ WF_vars(Running(\E pkt \in Request(p) : SendRetryReq(p, pkt)))
  /\ WF_vars(Running(NoRetryReq(p)))
  /\ SF_vars(Running(RecvRespRetry(p, TRUE)))

MemoryFairness ==
  /\ WF_vars(Running(AccessHit))
  /\ WF_vars(Running(\E accepted \in BOOLEAN : AccessMiss(accepted)))
  /\ SF_vars(Running(RecvReqRetry(TRUE)))
  /\ WF_vars(Running(\E pkt \in atMemory, victim \in Victims :
                       HandleResponse(pkt, victim, TRUE)))

FairSpec == Spec /\ MemoryFairness /\ \A p \in Port : PortFairness(p)

-----------------------------------------------------------------------------
TypeOK ==
  /\ blocked \in BOOLEAN
  /\ waitingPortId \in Port \cup {-1}
  /\ accessEvent \in Packet \cup {None}
  /\ outstandingPacket \in Packet \cup {None}
  /\ cacheStore \in [Addr -> Block \cup {None}]
  /\ needRetry \in [Port -> BOOLEAN]
  /\ blockedPacket \in [Port -> Packet \cup {None}]
  /\ memBlockedPacket \in Packet \cup {None}
  /\ calls \in Seq(Call)
  /\ refused \in [Port -> BOOLEAN]
  /\ atMemory \in SUBSET Packet
  /\ memRetryDue \in BOOLEAN
  /\ memory \in [Addr -> Block]
  /\ panicked \in {NoPanic} \cup Fault

(* The packets the memory side has.                                        *)
MemoryPackets == atMemory \cup ({memBlockedPacket} \ {None})

(* A blocked cache is at work on one packet: it waits for the access, for  *)
(* memory to take it, or for memory to answer it; an upgraded read is of   *)
(* the block its packet needs; and the response will go to its port.       *)
OnePacketAtWork ==
  LET working == MemoryPackets \cup ({accessEvent} \ {None}) IN
  /\ Cardinality(working) = IF blocked THEN 1 ELSE 0
  /\ waitingPortId # -1 <=> blocked
  /\ \A pkt \in working : pkt.port = waitingPortId
  /\ outstandingPacket # None =>
       \E pkt \in MemoryPackets : pkt = Upgraded(outstandingPacket)

(* The cache never holds more blocks than it has room for.                 *)
CapacityKept == Cardinality(Cached(cacheStore)) <= Capacity

(* No assertion fails: the cache never finds itself unblocked, a port or   *)
(* the memory side taken, or a block already there, when it should not.    *)
PanicFree == panicked = NoPanic

(* The only assertion that can fail is that of recvReqRetry, after memory  *)
(* refused a writeback, which the cache does not keep.                     *)
OnlyLostWritebackPanics ==
  panicked # NoPanic =>
    /\ panicked = "recvReqRetry without a blocked packet"
    /\ "WritebackDirty" \in MemRefuses

-----------------------------------------------------------------------------
(* simple_cache.hh: "This cache is a writeback cache": what it evicts is   *)
(* in memory.                                                              *)
EvictedWrittenBack ==
  [][\A a \in Addr :
       cacheStore[a] # None /\ cacheStore'[a] = None =>
         memory'[a] = cacheStore[a]]_vars

(* The cache and memory behind it are one memory in which each access of a *)
(* port takes effect at one moment between its acceptance and its answer,  *)
(* whatever is evicted, upgraded, refused or retried.  A block counts as   *)
(* its copy in the cache if there is one.                                  *)
Contents ==
  [a \in Addr |-> IF cacheStore[a] # None THEN cacheStore[a] ELSE memory[a]]

(* The packets of port p that still have to take effect: an access to      *)
(* come, one that waits for its block, or one forwarded whole.             *)
ToPerform(p) ==
  {pkt \in {accessEvent, outstandingPacket} : pkt.port = p}
    \cup {pkt \in MemoryPackets :
            /\ pkt.port = p /\ outstandingPacket = None
            /\ pkt \in atMemory => pkt.cmd = "ReadReq"}

(* Those that have: a whole block memory has written, and responses.       *)
Performed(p) ==
  {pkt \in atMemory :
     pkt.port = p /\ outstandingPacket = None /\ pkt.cmd = "WriteReq"}
    \cup ({blockedPacket[p]} \ {None})
    \cup {calls[i].pkt : i \in {i \in DOMAIN calls :
            calls[i].fn = "sendPacket" /\ calls[i].port = p}}

UnderWay ==
  [p \in Port |->
    {[pkt |-> pkt, done |-> FALSE] : pkt \in ToPerform(p)}
      \cup {[pkt |-> pkt, done |-> TRUE] : pkt \in Performed(p)}]

Atomic ==
  INSTANCE AtomicMemory WITH
    Packet <- UNION {Request(p) : p \in Port},
    Value <- [Addr -> Block],
    value <- Contents,
    access <- UnderWay

ImplementsAtomicMemory == Atomic!Spec

-----------------------------------------------------------------------------
(* Every request the cache accepts is performed and leaves it free for the *)
(* next, however often the CPU and memory refuse, unless an assertion ends *)
(* the simulation.                                                         *)
RequestsHandled == blocked ~> ~blocked \/ ~PanicFree

(* Every request the cache refuses is asked for again, even when the port  *)
(* was still held by a refused response as the cache became free, or an    *)
(* assertion ends the simulation.                                          *)
RetriesSent ==
  \A p \in Port :
    \/ []<>~refused[p]
    \/ []<>~PanicFree
    \/ []<><<\E pkt \in Request(p) : SendRetryReq(p, pkt)>>_vars

=============================================================================
