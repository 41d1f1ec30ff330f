----------------------------- MODULE MSIProofs -----------------------------
(***************************************************************************)
(* Theorems of the MSI protocol, for any finite set of caches and any      *)
(* lines, data, ways and workload.                                         *)
(***************************************************************************)
EXTENDS MSIProperties, FiniteSetTheorems, TLAPS

-----------------------------------------------------------------------------
(* Operators.                                                              *)

(* The SLICC actions on a line yield a line.                               *)
LEMMA LineOperators ==
  ASSUME NEW l \in Line
  PROVE  /\ allocateCacheBlock(l) \in Line
         /\ deallocateCacheBlock(l) \in Line
         /\ allocateTBE(l) \in Line
         /\ deallocateTBE(l) \in Line
         /\ \A d \in Data : writeDataToCache(l, d) \in Line
         /\ \A n \in Int : storeAcks(l, n) \in Line
         /\ decrAcks(l) \in Line
         /\ \A s \in CacheState : setState(l, s) \in Line
<1>1. ZeroBlock \in Data
  BY MSIConstants DEF MSIConstants
<1>2. /\ allocateCacheBlock(l) \in Line
      /\ deallocateCacheBlock(l) \in Line
  BY <1>1 DEF Line, allocateCacheBlock, deallocateCacheBlock
<1>3. allocateTBE(l) \in Line
  BY 0 \in Int, Zenon DEF Line, allocateTBE
<1>4. deallocateTBE(l) \in Line
  BY 0 \in Int, Zenon DEF Line, deallocateTBE
<1>5. ASSUME NEW d \in Data PROVE writeDataToCache(l, d) \in Line
  BY DEF Line, writeDataToCache
<1>6. ASSUME NEW n \in Int PROVE storeAcks(l, n) \in Line
  BY DEF Line, storeAcks
<1>7. decrAcks(l) \in Line
  BY DEF Line, decrAcks
<1>8. ASSUME NEW s \in CacheState PROVE setState(l, s) \in Line
  BY DEF Line, setState, CacheState
<1> QED
  BY <1>2, <1>3, <1>4, <1>5, <1>6, <1>7, <1>8

(* The SLICC actions on a directory entry yield an entry.                  *)
LEMMA EntryOperators ==
  ASSUME NEW e \in Entry
  PROVE  /\ \A r \in Cache : /\ addReqToSharers(e, r) \in Entry
                             /\ removeReqFromSharers(e, r) \in Entry
                             /\ setOwner(e, r) \in Entry
         /\ clearSharers(e) \in Entry
         /\ clearOwner(e) \in Entry
         /\ addOwnerToSharers(e) \in Entry
         /\ \A s \in DirState : setDirState(e, s) \in Entry
  BY DEF Entry, DirState, addReqToSharers, removeReqFromSharers, clearSharers,
         setOwner, clearOwner, addOwnerToSharers, setDirState

(* A directory's count of acks is a number.                                *)
LEMMA AcksForType ==
  ASSUME NEW e \in Entry, NEW r
  PROVE  AcksFor(e, r) \in Int
<1>1. IsFiniteSet(e.Sharers)
  BY MSIConstants, FS_Subset DEF MSIConstants, Entry
<1>2. Cardinality(e.Sharers) \in Nat
  BY <1>1, FS_CardinalityType
<1> QED
  BY <1>2 DEF AcksFor, count

-----------------------------------------------------------------------------
(* Type correctness.                                                       *)

(* A line of one cache is written with a line of the right type.           *)
LEMMA UpdateType ==
  ASSUME TypeOK, NEW c \in Cache, NEW a \in Addr, NEW l \in Line,
         NEW s \in CacheState, Update(c, a, l, s)
  PROVE  line' \in [Cache -> [Addr -> Line]]
<1>1. setState(l, s) \in Line
  BY LineOperators
<1>2. line \in [Cache -> [Addr -> Line]]
  BY DEF TypeOK, CacheTypeOK
<1>3. [line[c] EXCEPT ![a] = setState(l, s)] \in [Addr -> Line]
  BY <1>1, <1>2, Zenon
<1> QED
  BY <1>2, <1>3, Zenon DEF Update

(* A request of a cache is a message for the directory.                    *)
LEMMA SendRequestType ==
  ASSUME TypeOK, NEW c \in Cache, NEW a \in Addr, NEW d \in Data,
         NEW type \in {"GetS", "GetM", "PutS", "PutM"},
         SendRequest(c, type, a, d)
  PROVE  requestToDir' \in [Cache -> Seq(RequestMsg)]
<1>1. [Type |-> type, addr |-> a, Requestor |-> c, DataBlk |-> d] \in RequestMsg
  BY DEF RequestMsg
<1> QED
  BY <1>1 DEF SendRequest, TypeOK, ChannelsTypeOK

(* The message a forward handler takes names a line and, but for a PutAck, *)
(* a cache.                                                                *)
LEMMA ForwardHead ==
  ASSUME TypeOK, NEW c \in Cache, NEW type, NEW states, Forwarded(c, type, states)
  PROVE  /\ Head(forwardToCache[c]) \in ForwardMsg
         /\ Head(forwardToCache[c]).Type = type
         /\ Head(forwardToCache[c]).addr \in Addr
         /\ type # "PutAck" => Head(forwardToCache[c]).Requestor \in Cache
         /\ Tail(forwardToCache[c]) \in Seq(ForwardMsg)
<1>1. forwardToCache[c] \in Seq(ForwardMsg) /\ forwardToCache[c] # <<>>
  BY DEF TypeOK, ChannelsTypeOK, Forwarded
<1>2. Head(forwardToCache[c]) \in ForwardMsg
      /\ Tail(forwardToCache[c]) \in Seq(ForwardMsg)
  BY <1>1
<1>3. Head(forwardToCache[c]).Type = type
  BY DEF Forwarded
<1> QED
  BY <1>2, <1>3 DEF ForwardMsg

(* The head of a response channel is a response of that sender.            *)
LEMMA ResponseHead ==
  ASSUME TypeOK, NEW c \in Cache, NEW s \in Machine, responseToCache[c][s] # <<>>
  PROVE  /\ Head(responseToCache[c][s]) \in ResponseMsg
         /\ Head(responseToCache[c][s]).addr \in Addr
         /\ Head(responseToCache[c][s]).DataBlk \in Data
         /\ Head(responseToCache[c][s]).Acks \in Int
         /\ Tail(responseToCache[c][s]) \in Seq(ResponseMsg)
<1>1. responseToCache[c][s] \in Seq(ResponseMsg)
  BY DEF TypeOK, ChannelsTypeOK
<1>2. Head(responseToCache[c][s]) \in ResponseMsg
      /\ Tail(responseToCache[c][s]) \in Seq(ResponseMsg)
  BY <1>1
<1> QED
  BY <1>2 DEF ResponseMsg

(* A response of a cache, appended to what it has sent a cache.            *)
LEMMA RespondType ==
  ASSUME TypeOK, NEW c \in Cache, NEW r \in Cache, NEW a \in Addr,
         NEW d \in Data, NEW type \in {"Data", "InvAck"}
  PROVE  /\ Response(c, type, a, d) \in CacheResponse
         /\ [responseToCache EXCEPT ![r][c] = Append(@, Response(c, type, a, d))]
              \in [Cache -> [Machine -> Seq(ResponseMsg)]]
         /\ [responseToDir EXCEPT ![c] = Append(@, Response(c, type, a, d))]
              \in [Cache -> Seq(CacheResponse)]
<1>1. Response(c, type, a, d) \in CacheResponse
  BY DEF Response, ResponseMsg, CacheResponse, Machine
<1>2. Response(c, type, a, d) \in ResponseMsg
  BY <1>1 DEF CacheResponse
<1>3. c \in Machine
  BY DEF Machine
<1>4. responseToCache \in [Cache -> [Machine -> Seq(ResponseMsg)]]
      /\ responseToDir \in [Cache -> Seq(CacheResponse)]
  BY DEF TypeOK, ChannelsTypeOK
<1>5. Append(responseToCache[r][c], Response(c, type, a, d)) \in Seq(ResponseMsg)
  BY <1>2, <1>3, <1>4
<1>6. Append(responseToDir[c], Response(c, type, a, d)) \in Seq(CacheResponse)
  BY <1>1, <1>4
<1> HIDE DEF Response
<1> QED
  BY <1>1, <1>3, <1>4, <1>5, <1>6

(* Popping a channel keeps its type.                                       *)
LEMMA PopForwardType ==
  ASSUME TypeOK, NEW c \in Cache, Tail(forwardToCache[c]) \in Seq(ForwardMsg),
         popForwardQueue(c)
  PROVE  forwardToCache' \in [Cache -> Seq(ForwardMsg)]
  BY DEF TypeOK, ChannelsTypeOK, popForwardQueue

(* Taking a message off a response channel keeps its type.                 *)
LEMMA PopResponseType ==
  ASSUME TypeOK, NEW c \in Cache, NEW s \in Machine,
         Tail(responseToCache[c][s]) \in Seq(ResponseMsg),
         popResponseQueue(c, s)
  PROVE  responseToCache' \in [Cache -> [Machine -> Seq(ResponseMsg)]]
  BY DEF TypeOK, ChannelsTypeOK, popResponseQueue

(* Taking a request off the mandatory queue keeps its type.                *)
LEMMA PopMandatoryType ==
  ASSUME TypeOK, NEW c \in Cache, mandatoryQueue[c] # <<>>,
         popMandatoryQueue(c)
  PROVE  mandatoryQueue' \in [Cache -> Seq(CPURequest)]
  BY DEF TypeOK, CacheTypeOK, popMandatoryQueue

(* Every transition of a cache keeps the types.                            *)
LEMMA MandatoryStepType ==
  ASSUME TypeOK, NEW c \in Cache, MandatoryStep(c), UNCHANGED dirVars
  PROVE  TypeOK'
<1> USE DEF TypeOK, CacheTypeOK, DirTypeOK, ChannelsTypeOK
<1>1. PICK a \in Addr :
        \/ I_Load(c, a) \/ I_Store(c, a) \/ LoadHit(c, a) \/ S_Store(c, a)
        \/ \E d \in Data : M_Store(c, a, d)
        \/ S_Replacement(c, a) \/ M_Replacement(c, a)
  BY DEF MandatoryStep
<1>2. line[c][a] \in Line /\ line[c][a].DataBlk \in Data /\ ZeroBlock \in Data
  BY MSIConstants DEF Line, MSIConstants
<1>3. CASE I_Load(c, a)
  <2>1. line' \in [Cache -> [Addr -> Line]]
    BY <1>2, <1>3, UpdateType, LineOperators DEF I_Load, CacheState
  <2>2. requestToDir' \in [Cache -> Seq(RequestMsg)]
    BY <1>2, <1>3, SendRequestType DEF I_Load, sendGetS
  <2>3. mandatoryQueue' \in [Cache -> Seq(CPURequest)]
    BY <1>3, PopMandatoryType DEF I_Load, Mandatory
  <2> QED
    BY <1>3, <2>1, <2>2, <2>3 DEF I_Load, dirVars
<1>4. CASE I_Store(c, a)
  <2>1. line' \in [Cache -> [Addr -> Line]]
    BY <1>2, <1>4, UpdateType, LineOperators DEF I_Store, CacheState
  <2>2. requestToDir' \in [Cache -> Seq(RequestMsg)]
    BY <1>2, <1>4, SendRequestType DEF I_Store, sendGetM
  <2>3. mandatoryQueue' \in [Cache -> Seq(CPURequest)]
    BY <1>4, PopMandatoryType DEF I_Store, Mandatory
  <2> QED
    BY <1>4, <2>1, <2>2, <2>3 DEF I_Store, dirVars
<1>5. CASE LoadHit(c, a)
  <2>1. mandatoryQueue' \in [Cache -> Seq(CPURequest)]
    BY <1>5, PopMandatoryType DEF LoadHit, Mandatory
  <2> QED
    BY <1>5, <2>1 DEF LoadHit, readCallback, Callback, channels, dirVars
<1>6. CASE S_Store(c, a)
  <2>1. line' \in [Cache -> [Addr -> Line]]
    BY <1>2, <1>6, UpdateType, LineOperators DEF S_Store, CacheState
  <2>2. requestToDir' \in [Cache -> Seq(RequestMsg)]
    BY <1>2, <1>6, SendRequestType DEF S_Store, sendGetM
  <2>3. mandatoryQueue' \in [Cache -> Seq(CPURequest)]
    BY <1>6, PopMandatoryType DEF S_Store, Mandatory
  <2> QED
    BY <1>6, <2>1, <2>2, <2>3 DEF S_Store, dirVars
<1>7. ASSUME NEW d \in Data, M_Store(c, a, d)
      PROVE  TypeOK'
  <2>1. line' \in [Cache -> [Addr -> Line]]
    BY <1>2, <1>7, UpdateType, LineOperators DEF M_Store, CacheState
  <2>2. mandatoryQueue' \in [Cache -> Seq(CPURequest)]
    BY <1>7, PopMandatoryType DEF M_Store, Mandatory
  <2> QED
    BY <1>7, <2>1, <2>2 DEF M_Store, writeCallback, Callback, channels, dirVars
<1>8. CASE S_Replacement(c, a)
  <2>1. line' \in [Cache -> [Addr -> Line]]
    BY <1>2, <1>8, UpdateType, LineOperators DEF S_Replacement, CacheState
  <2>2. requestToDir' \in [Cache -> Seq(RequestMsg)]
    BY <1>2, <1>8, SendRequestType DEF S_Replacement, sendPutS
  <2>3. mandatoryQueue' \in [Cache -> Seq(CPURequest)]
    BY <1>8 DEF S_Replacement
  <2> QED
    BY <1>8, <2>1, <2>2, <2>3 DEF S_Replacement, dirVars
<1>9. CASE M_Replacement(c, a)
  <2>1. line' \in [Cache -> [Addr -> Line]]
    BY <1>2, <1>9, UpdateType, LineOperators DEF M_Replacement, CacheState
  <2>2. requestToDir' \in [Cache -> Seq(RequestMsg)]
    BY <1>2, <1>9, SendRequestType DEF M_Replacement, sendPutM
  <2>3. mandatoryQueue' \in [Cache -> Seq(CPURequest)]
    BY <1>9 DEF M_Replacement
  <2> QED
    BY <1>9, <2>1, <2>2, <2>3 DEF M_Replacement, dirVars
<1> QED
  BY <1>1, <1>3, <1>4, <1>5, <1>6, <1>7, <1>8, <1>9

(* What a cache does with a forwarded request keeps the types.             *)
LEMMA ForwardStepType ==
  ASSUME TypeOK, NEW c \in Cache, ForwardStep(c), UNCHANGED dirVars
  PROVE  TypeOK'
<1> USE DEF TypeOK, CacheTypeOK, DirTypeOK, ChannelsTypeOK
<1> DEFINE m == Head(forwardToCache[c])
<1>1. ASSUME m.addr \in Addr
      PROVE  line[c][m.addr] \in Line /\ line[c][m.addr].DataBlk \in Data
  BY <1>1 DEF Line
<1>2. ZeroBlock \in Data
  BY MSIConstants DEF MSIConstants
<1>3. ASSUME NEW from, NEW to \in CacheState, OwnerFwdGetS(c, from, to)
      PROVE  TypeOK'
  <2>1. Forwarded(c, "GetS", {from})
    BY <1>3 DEF OwnerFwdGetS
  <2>2. m.addr \in Addr /\ m.Requestor \in Cache /\ Tail(forwardToCache[c]) \in Seq(ForwardMsg)
    BY <2>1, ForwardHead
  <2>3. line' \in [Cache -> [Addr -> Line]]
    BY <1>1, <1>3, <2>2, UpdateType DEF OwnerFwdGetS
  <2>4. responseToCache' \in [Cache -> [Machine -> Seq(ResponseMsg)]]
    BY <1>1, <1>3, <2>2, RespondType DEF OwnerFwdGetS, sendCacheDataToReq
  <2>5. responseToDir' \in [Cache -> Seq(CacheResponse)]
    BY <1>1, <1>3, <2>2, RespondType DEF OwnerFwdGetS, sendCacheDataToDir
  <2>6. forwardToCache' \in [Cache -> Seq(ForwardMsg)]
    BY <1>3, <2>2, PopForwardType DEF OwnerFwdGetS
  <2> QED
    BY <1>3, <2>3, <2>4, <2>5, <2>6 DEF OwnerFwdGetS, dirVars
<1>4. CASE M_FwdGetM(c)
  <2>1. Forwarded(c, "GetM", {"M"})
    BY <1>4 DEF M_FwdGetM
  <2>2. m.addr \in Addr /\ m.Requestor \in Cache /\ Tail(forwardToCache[c]) \in Seq(ForwardMsg)
    BY <2>1, ForwardHead
  <2>3. line' \in [Cache -> [Addr -> Line]]
    BY <1>1, <1>4, <2>2, UpdateType, LineOperators DEF M_FwdGetM, CacheState
  <2>4. responseToCache' \in [Cache -> [Machine -> Seq(ResponseMsg)]]
    BY <1>1, <1>2, <1>4, <2>2, RespondType DEF M_FwdGetM, sendCacheDataToReq
  <2>5. forwardToCache' \in [Cache -> Seq(ForwardMsg)]
    BY <1>4, <2>2, PopForwardType DEF M_FwdGetM
  <2> QED
    BY <1>4, <2>3, <2>4, <2>5 DEF M_FwdGetM, dirVars
<1>5. CASE MI_A_FwdGetM(c)
  <2>1. Forwarded(c, "GetM", {"MI_A"})
    BY <1>5 DEF MI_A_FwdGetM
  <2>2. m.addr \in Addr /\ m.Requestor \in Cache /\ Tail(forwardToCache[c]) \in Seq(ForwardMsg)
    BY <2>1, ForwardHead
  <2>3. line' \in [Cache -> [Addr -> Line]]
    BY <1>1, <1>5, <2>2, UpdateType DEF MI_A_FwdGetM, CacheState
  <2>4. responseToCache' \in [Cache -> [Machine -> Seq(ResponseMsg)]]
    BY <1>1, <1>2, <1>5, <2>2, RespondType DEF MI_A_FwdGetM, sendCacheDataToReq
  <2>5. forwardToCache' \in [Cache -> Seq(ForwardMsg)]
    BY <1>5, <2>2, PopForwardType DEF MI_A_FwdGetM
  <2> QED
    BY <1>5, <2>3, <2>4, <2>5 DEF MI_A_FwdGetM, dirVars
<1>6. CASE S_Inv(c)
  <2>1. Forwarded(c, "Inv", {"S"})
    BY <1>6 DEF S_Inv
  <2>2. m.addr \in Addr /\ m.Requestor \in Cache /\ Tail(forwardToCache[c]) \in Seq(ForwardMsg)
    BY <2>1, ForwardHead
  <2>3. line' \in [Cache -> [Addr -> Line]]
    BY <1>1, <1>6, <2>2, UpdateType, LineOperators DEF S_Inv, CacheState
  <2>4. responseToCache' \in [Cache -> [Machine -> Seq(ResponseMsg)]]
    BY <1>1, <1>2, <1>6, <2>2, RespondType DEF S_Inv, sendInvAcktoReq
  <2>5. forwardToCache' \in [Cache -> Seq(ForwardMsg)]
    BY <1>6, <2>2, PopForwardType DEF S_Inv
  <2> QED
    BY <1>6, <2>3, <2>4, <2>5 DEF S_Inv, dirVars
<1>7. ASSUME NEW from, NEW to \in CacheState, WaitingInv(c, from, to)
      PROVE  TypeOK'
  <2>1. Forwarded(c, "Inv", {from})
    BY <1>7 DEF WaitingInv
  <2>2. m.addr \in Addr /\ m.Requestor \in Cache /\ Tail(forwardToCache[c]) \in Seq(ForwardMsg)
    BY <2>1, ForwardHead
  <2>3. line' \in [Cache -> [Addr -> Line]]
    BY <1>1, <1>7, <2>2, UpdateType DEF WaitingInv
  <2>4. responseToCache' \in [Cache -> [Machine -> Seq(ResponseMsg)]]
    BY <1>1, <1>2, <1>7, <2>2, RespondType DEF WaitingInv, sendInvAcktoReq
  <2>5. forwardToCache' \in [Cache -> Seq(ForwardMsg)]
    BY <1>7, <2>2, PopForwardType DEF WaitingInv
  <2> QED
    BY <1>7, <2>3, <2>4, <2>5 DEF WaitingInv, dirVars
<1>8. CASE PutAck(c)
  <2>1. Forwarded(c, "PutAck", {"MI_A", "SI_A", "II_A"})
    BY <1>8 DEF PutAck
  <2>2. m.addr \in Addr /\ Tail(forwardToCache[c]) \in Seq(ForwardMsg)
    BY <2>1, ForwardHead
  <2>3. line' \in [Cache -> [Addr -> Line]]
    BY <1>1, <1>8, <2>2, UpdateType, LineOperators DEF PutAck, CacheState
  <2>4. forwardToCache' \in [Cache -> Seq(ForwardMsg)]
    BY <1>8, <2>2, PopForwardType DEF PutAck
  <2> QED
    BY <1>8, <2>3, <2>4 DEF PutAck, dirVars
<1>9. {"S", "SI_A", "IM_AD", "II_A"} \subseteq CacheState
  BY DEF CacheState
<1> QED
  BY <1>3, <1>4, <1>5, <1>6, <1>7, <1>8, <1>9
  DEF ForwardStep, M_FwdGetS, MI_A_FwdGetS, SM_AD_Inv, SI_A_Inv

(* What a cache does with a response keeps the types.                      *)
LEMMA ResponseStepType ==
  ASSUME TypeOK, NEW c \in Cache, NEW s \in Machine, ResponseStep(c, s),
         UNCHANGED dirVars
  PROVE  TypeOK'
<1> USE DEF TypeOK, CacheTypeOK, DirTypeOK, ChannelsTypeOK
<1> DEFINE m == Head(responseToCache[c][s])
<1>1. responseToCache[c][s] # <<>>
  BY DEF ResponseStep, IS_D_Data, InvAck, IM_AD_DataDirAcks, SM_AD_DataDirAcks,
         DataDirAcks, Upgrade_Data, LastInvAck, Responded
<1>2. /\ m.addr \in Addr /\ m.DataBlk \in Data /\ m.Acks \in Int
      /\ Tail(responseToCache[c][s]) \in Seq(ResponseMsg)
  BY <1>1, ResponseHead
<1>3. line[c][m.addr] \in Line /\ LineState(c, m.addr) \in CacheState
  BY <1>2 DEF Line, LineState
<1>4. popResponseQueue(c, s) =>
        responseToCache' \in [Cache -> [Machine -> Seq(ResponseMsg)]]
  BY <1>2, PopResponseType
<1>5. CASE IS_D_Data(c, s)
  <2>1. line' \in [Cache -> [Addr -> Line]]
    BY <1>2, <1>3, <1>5, UpdateType, LineOperators DEF IS_D_Data, CacheState
  <2> QED
    BY <1>2, <1>4, <1>5, <2>1 DEF IS_D_Data, readCallback, Callback, dirVars
<1>6. CASE InvAck(c, s)
  <2>1. line' \in [Cache -> [Addr -> Line]]
    BY <1>2, <1>3, <1>6, UpdateType, LineOperators DEF InvAck, CacheState
  <2> QED
    BY <1>2, <1>4, <1>6, <2>1 DEF InvAck, dirVars
<1>7. ASSUME NEW from, NEW to \in CacheState, DataDirAcks(c, s, from, to)
      PROVE  TypeOK'
  <2>1. line' \in [Cache -> [Addr -> Line]]
    BY <1>2, <1>3, <1>7, UpdateType, LineOperators DEF DataDirAcks
  <2> QED
    BY <1>2, <1>4, <1>7, <2>1 DEF DataDirAcks, dirVars
<1>8. ASSUME NEW d \in Data, Upgrade_Data(c, s, d)
      PROVE  TypeOK'
  <2>1. line' \in [Cache -> [Addr -> Line]]
    BY <1>2, <1>3, <1>8, UpdateType, LineOperators DEF Upgrade_Data, CacheState
  <2> QED
    BY <1>2, <1>4, <1>8, <2>1 DEF Upgrade_Data, writeCallback, Callback, dirVars
<1>9. ASSUME NEW d \in Data, LastInvAck(c, s, d)
      PROVE  TypeOK'
  <2>1. line' \in [Cache -> [Addr -> Line]]
    BY <1>2, <1>3, <1>9, UpdateType, LineOperators DEF LastInvAck, CacheState
  <2> QED
    BY <1>2, <1>4, <1>9, <2>1 DEF LastInvAck, writeCallback, Callback, dirVars
<1>10. {"IM_A", "SM_A"} \subseteq CacheState
  BY DEF CacheState
<1> QED
  BY <1>5, <1>6, <1>7, <1>8, <1>9, <1>10
  DEF ResponseStep, IM_AD_DataDirAcks, SM_AD_DataDirAcks

(* The request at the head of the directory's buffer.                      *)
LEMMA RequestHead ==
  ASSUME TypeOK, NEW states, NEW events, Requested(states, events)
  PROVE  /\ Head(requestFromCache) \in RequestMsg
         /\ Head(requestFromCache).addr \in Addr
         /\ Head(requestFromCache).Requestor \in Cache
         /\ Head(requestFromCache).DataBlk \in Data
         /\ directory[Head(requestFromCache).addr] \in Entry
         /\ Tail(requestFromCache) \in Seq(RequestMsg)
<1>1. requestFromCache \in Seq(RequestMsg) /\ requestFromCache # <<>>
  BY DEF TypeOK, ChannelsTypeOK, Requested
<1>2. /\ Head(requestFromCache) \in RequestMsg
      /\ Tail(requestFromCache) \in Seq(RequestMsg)
  BY <1>1
<1>3. directory \in [Addr -> Entry]
  BY DEF TypeOK, DirTypeOK
<1> QED
  BY <1>2, <1>3 DEF RequestMsg

(* An entry of the directory is written with an entry.                     *)
LEMMA UpdateEntryType ==
  ASSUME TypeOK, NEW a \in Addr, NEW e \in Entry, NEW s \in DirState,
         UpdateEntry(a, e, s)
  PROVE  directory' \in [Addr -> Entry]
  BY EntryOperators DEF UpdateEntry, TypeOK, DirTypeOK

(* What the directory queues at memory is a memory request.                *)
LEMMA QueueMemoryType ==
  ASSUME TypeOK, NEW type \in {"MEMORY_READ", "MEMORY_WB"}, NEW a \in Addr,
         NEW r \in Cache, NEW d \in Data, queueMemory(type, a, r, d)
  PROVE  memQueue' \in SUBSET MemoryMsg
  BY DEF queueMemory, TypeOK, DirTypeOK, MemoryMsg

(* What the directory multicasts is a forwarded message.                   *)
LEMMA ForwardType ==
  ASSUME TypeOK, NEW destination, NEW type, NEW a \in Addr, NEW r,
         \/ type \in {"GetS", "GetM", "Inv"} /\ r \in Cache
         \/ type = "PutAck" /\ r = Directory,
         Forward(destination, type, a, r)
  PROVE  forwardToCache' \in [Cache -> Seq(ForwardMsg)]
<1> DEFINE m == [Type |-> type, addr |-> a, Requestor |-> r]
<1>1. m \in ForwardMsg
  BY DEF ForwardMsg
<1>2. forwardToCache \in [Cache -> Seq(ForwardMsg)]
  BY DEF TypeOK, ChannelsTypeOK
<1> HIDE DEF m
<1>3. \A c \in Cache : Append(forwardToCache[c], m) \in Seq(ForwardMsg)
  BY <1>1, <1>2
<1>4. forwardToCache' = [c \in Cache |->
        IF c \in destination THEN Append(forwardToCache[c], m)
                             ELSE forwardToCache[c]]
  BY DEF Forward, m
<1> QED
  BY <1>2, <1>3, <1>4

(* The data the directory sends a requestor.                               *)
LEMMA SendDataType ==
  ASSUME TypeOK, NEW e \in Entry, NEW m \in MemoryMsg, NEW d \in Data,
         sendDataToReq(e, m, d)
  PROVE  responseToCache' \in [Cache -> [Machine -> Seq(ResponseMsg)]]
<1> DEFINE r == m.OriginalRequestor
           data == [Type |-> "Data", addr |-> m.addr, Sender |-> Directory,
                    Acks |-> AcksFor(e, r), DataBlk |-> d]
<1>1. r \in Cache /\ m.addr \in Addr
  BY DEF MemoryMsg
<1>2. AcksFor(e, r) \in Int
  BY AcksForType
<1>3. data \in ResponseMsg
  BY <1>1, <1>2 DEF ResponseMsg, Machine
<1>4. responseToCache \in [Cache -> [Machine -> Seq(ResponseMsg)]]
  BY DEF TypeOK, ChannelsTypeOK
<1>5. Directory \in Machine
  BY DEF Machine
<1>6. responseToCache' =
        [responseToCache EXCEPT ![r][Directory] = Append(@, data)]
  BY DEF sendDataToReq
<1> HIDE DEF data, r
<1>7. Append(responseToCache[r][Directory], data) \in Seq(ResponseMsg)
  BY <1>1, <1>3, <1>4, <1>5
<1> QED
  BY <1>1, <1>4, <1>5, <1>6, <1>7

(* Every transition of the directory keeps the types.                      *)
LEMMA RequestStepType ==
  ASSUME TypeOK, RequestStep, UNCHANGED cacheVars
  PROVE  TypeOK'
<1> USE DEF TypeOK, CacheTypeOK, DirTypeOK, ChannelsTypeOK
<1> DEFINE m == Head(requestFromCache)
           r == Head(requestFromCache).Requestor
<1>1. PICK states, events : Requested(states, events)
  BY DEF RequestStep, IS_GetS, I_GetM, S_GetM, M_GetS, M_GetM, I_Put, M_Put,
         StalePut, Shared_Put, S_PutSLast, S_D_PutSLast, M_PutMOwner
<1>2. /\ m.addr \in Addr /\ r \in Cache /\ m.DataBlk \in Data
      /\ directory[m.addr] \in Entry
      /\ Tail(requestFromCache) \in Seq(RequestMsg)
  BY <1>1, RequestHead
<1>3. ZeroBlock \in Data
  BY MSIConstants DEF MSIConstants
<1>4. popRequestQueue => requestFromCache' \in Seq(RequestMsg)
  BY <1>2 DEF popRequestQueue
<1>5. sendPutAck(m) => forwardToCache' \in [Cache -> Seq(ForwardMsg)]
  BY <1>2, ForwardType DEF sendPutAck
<1>6. sendMemRead(m) => memQueue' \in SUBSET MemoryMsg
  BY <1>2, <1>3, QueueMemoryType DEF sendMemRead
<1>7. CASE IS_GetS
  <2>1. directory' \in [Addr -> Entry]
    BY <1>2, <1>7, UpdateEntryType, EntryOperators DEF IS_GetS, DirState
  <2> QED
    BY <1>4, <1>5, <1>6, <1>7, <2>1 DEF IS_GetS, cacheVars
<1>8. CASE I_GetM
  <2>1. directory' \in [Addr -> Entry]
    BY <1>2, <1>8, UpdateEntryType, EntryOperators DEF I_GetM, DirState
  <2> QED
    BY <1>4, <1>5, <1>6, <1>8, <2>1 DEF I_GetM, cacheVars
<1>9. CASE S_GetM
  <2>1. directory' \in [Addr -> Entry]
    BY <1>2, <1>9, UpdateEntryType, EntryOperators DEF S_GetM, DirState
  <2>2. forwardToCache' \in [Cache -> Seq(ForwardMsg)]
    BY <1>2, <1>9, ForwardType DEF S_GetM, sendInvToSharers
  <2> QED
    BY <1>4, <1>5, <1>6, <1>9, <2>1, <2>2 DEF S_GetM, cacheVars
<1>10. CASE M_GetS
  <2>1. directory' \in [Addr -> Entry]
    BY <1>2, <1>10, UpdateEntryType, EntryOperators DEF M_GetS, DirState
  <2>2. forwardToCache' \in [Cache -> Seq(ForwardMsg)]
    BY <1>2, <1>10, ForwardType DEF M_GetS, sendFwdGetS
  <2> QED
    BY <1>4, <1>5, <1>6, <1>10, <2>1, <2>2 DEF M_GetS, cacheVars
<1>11. CASE M_GetM
  <2>1. directory' \in [Addr -> Entry]
    BY <1>2, <1>11, UpdateEntryType, EntryOperators DEF M_GetM, DirState
  <2>2. forwardToCache' \in [Cache -> Seq(ForwardMsg)]
    BY <1>2, <1>11, ForwardType DEF M_GetM, sendFwdGetM
  <2> QED
    BY <1>4, <1>5, <1>6, <1>11, <2>1, <2>2 DEF M_GetM, cacheVars
<1>12. ASSUME NEW S, StalePut(S)
       PROVE  TypeOK'
  BY <1>4, <1>5, <1>12 DEF StalePut, cacheVars, dirVars
<1>13. CASE Shared_Put
  <2>1. directory[m.addr].DirState \in DirState
    BY <1>2 DEF Entry
  <2>2. directory' \in [Addr -> Entry]
    BY <1>2, <1>13, <2>1, UpdateEntryType, EntryOperators DEF Shared_Put
  <2> QED
    BY <1>4, <1>5, <1>13, <2>2 DEF Shared_Put, cacheVars
<1>14. CASE S_PutSLast
  <2>1. directory' \in [Addr -> Entry]
    BY <1>2, <1>14, UpdateEntryType, EntryOperators DEF S_PutSLast, DirState
  <2> QED
    BY <1>4, <1>5, <1>6, <1>14, <2>1 DEF S_PutSLast, cacheVars
<1>15. CASE S_D_PutSLast
  <2>1. directory' \in [Addr -> Entry]
    BY <1>2, <1>15, UpdateEntryType, EntryOperators DEF S_D_PutSLast, DirState
  <2> QED
    BY <1>4, <1>5, <1>6, <1>15, <2>1 DEF S_D_PutSLast, cacheVars
<1>16. CASE M_PutMOwner
  <2>1. directory' \in [Addr -> Entry]
    BY <1>2, <1>16, UpdateEntryType, EntryOperators DEF M_PutMOwner, DirState
  <2>2. memQueue' \in SUBSET MemoryMsg
    BY <1>2, <1>16, QueueMemoryType DEF M_PutMOwner, sendDataToMem
  <2> QED
    BY <1>4, <1>5, <1>6, <1>16, <2>1, <2>2 DEF M_PutMOwner, cacheVars
<1> QED
  BY <1>7, <1>8, <1>9, <1>10, <1>11, <1>12, <1>13, <1>14, <1>15, <1>16
  DEF RequestStep, I_Put, M_Put

(* The directory's step on an owner's data keeps the types.                *)
LEMMA DataStepType ==
  ASSUME TypeOK, NEW c \in Cache, S_D_Data(c), UNCHANGED cacheVars
  PROVE  TypeOK'
<1> USE DEF TypeOK, CacheTypeOK, DirTypeOK, ChannelsTypeOK
<1> DEFINE m == Head(responseToDir[c])
<1>1. responseToDir[c] \in Seq(CacheResponse) /\ responseToDir[c] # <<>>
  BY DEF S_D_Data
<1>2. m \in CacheResponse /\ Tail(responseToDir[c]) \in Seq(CacheResponse)
  BY <1>1
<1>3. m.addr \in Addr /\ m.Sender \in Cache /\ m.DataBlk \in Data
  BY <1>2 DEF CacheResponse, ResponseMsg
<1>4. directory' \in [Addr -> Entry]
  BY <1>3, UpdateEntryType DEF S_D_Data, DirState
<1>5. memQueue' \in SUBSET MemoryMsg
  BY <1>3, QueueMemoryType DEF S_D_Data, sendRespDataToMem
<1>6. responseToDir' \in [Cache -> Seq(CacheResponse)]
  BY <1>2 DEF S_D_Data, popResponseFromCache
<1> QED
  BY <1>4, <1>5, <1>6 DEF S_D_Data, cacheVars

(* The directory's steps on memory's answers keep the types.               *)
LEMMA MemoryStepType ==
  ASSUME TypeOK, NEW m \in memQueue, MemoryStep(m), UNCHANGED cacheVars
  PROVE  TypeOK'
<1> USE DEF TypeOK, CacheTypeOK, DirTypeOK, ChannelsTypeOK
<1>1. m \in MemoryMsg /\ m.addr \in Addr /\ m.DataBlk \in Data
  BY DEF MemoryMsg
<1>2. directory[m.addr] \in Entry /\ memory[m.addr] \in Data
  BY <1>1
<1>3. popMemQueue(m) => memQueue' \in SUBSET MemoryMsg
  BY DEF popMemQueue
<1>4. sendDataToReq(directory[m.addr], m, memory[m.addr]) =>
        responseToCache' \in [Cache -> [Machine -> Seq(ResponseMsg)]]
  BY <1>1, <1>2, SendDataType
<1>5. CASE S_m_MemData(m)
  <2>1. directory' \in [Addr -> Entry]
    BY <1>1, <1>2, <1>5, UpdateEntryType DEF S_m_MemData, DirState
  <2> QED
    BY <1>3, <1>4, <1>5, <2>1 DEF S_m_MemData, cacheVars
<1>6. CASE M_m_MemData(m)
  <2>1. directory' \in [Addr -> Entry]
    BY <1>1, <1>2, <1>6, UpdateEntryType, EntryOperators DEF M_m_MemData, DirState
  <2> QED
    BY <1>3, <1>4, <1>6, <2>1 DEF M_m_MemData, cacheVars
<1>7. ASSUME NEW from, NEW to \in DirState, MemAck(m, from, to)
      PROVE  TypeOK'
  <2>1. directory' \in [Addr -> Entry]
    BY <1>1, <1>2, <1>7, UpdateEntryType DEF MemAck
  <2> QED
    BY <1>1, <1>3, <1>7, <2>1 DEF MemAck, cacheVars, channels
<1>8. {"I", "S"} \subseteq DirState
  BY DEF DirState
<1> QED
  BY <1>5, <1>6, <1>7, <1>8 DEF MemoryStep, MI_m_MemAck, SS_m_MemAck

(* What ends a simulation is a pair of a state and an event or assertion.  *)
LEMMA FaultType ==
  ASSUME TypeOK
  PROVE  CacheFaults \cup DirFaults \subseteq Fault
<1> USE DEF TypeOK, CacheTypeOK, DirTypeOK, ChannelsTypeOK
<1> DEFINE States == CacheState \cup DirState
           Events == DOMAIN CacheTransitions \cup DOMAIN DirTransitions
<1>1. /\ \A state \in States, event \in Events : <<state, event>> \in Fault
      /\ \A state \in States :
           /\ <<state, "assert of response_in">> \in Fault
           /\ <<state, "assert PutS of a sharer">> \in Fault
           /\ <<state, "error message type">> \in Fault
  BY DEF Fault
<1>2. Events = {"Load", "Store", "Replacement", "GetS", "GetM", "Inv",
                "PutAck", "DataDirNoAcks", "DataDirAcks", "DataOwner",
                "InvAck", "LastInvAck", "PutSNotLast", "PutMNonOwner",
                "PutSLast", "PutMOwner", "Data", "MemData", "MemAck"}
  BY DEF CacheTransitions, DirTransitions
<1> DEFINE Ok(f) == f \in Fault \cup {NoPanic}
<1> HIDE DEF States, Events
<1>3. ASSUME NEW defined, NEW state \in States, NEW event \in Events
      PROVE  Ok(Undefined(defined, state, event))
  BY <1>1 DEF Undefined
<1>4. \A c \in Cache, a \in Addr : LineState(c, a) \in States
  BY DEF LineState, Line, States
<1>5. \A a \in Addr : dirState(a) \in States
  BY DEF dirState, Entry, States
<1>6. ASSUME NEW c \in Cache
      PROVE  Ok(ForwardFault(c))
  <2> DEFINE m == Head(forwardToCache[c])
  <2>1. CASE forwardToCache[c] # <<>>
    <3>1. m \in ForwardMsg
      BY <2>1
    <3>2. m.Type \in Events /\ m.addr \in Addr
      BY <1>2, <3>1 DEF ForwardMsg
    <3>3. Ok(Undefined(CacheTransitions, LineState(c, m.addr), m.Type))
      BY <1>3, <1>4, <3>2
    <3> QED
      BY <2>1, <3>3 DEF ForwardFault
  <2> QED
    BY <2>1 DEF ForwardFault
<1>7. ASSUME NEW c \in Cache, NEW s \in Machine
      PROVE  Ok(CacheResponseFault(c, s))
  <2> DEFINE m == Head(responseToCache[c][s])
             event == ResponseEvent(m, line[c][m.addr].AcksOutstanding)
  <2>1. CASE responseToCache[c][s] # <<>>
    <3>1. m.addr \in Addr
      BY <2>1, ResponseHead
    <3>2. LineState(c, m.addr) \in States
      BY <1>4, <3>1
    <3>3. event \in Events
      <4>1. event \in {"DataDirNoAcks", "DataDirAcks", "DataOwner",
                       "LastInvAck", "InvAck"}
        BY Zenon DEF ResponseEvent
      <4> HIDE DEF event
      <4> QED
        BY <1>2, <4>1
    <3> HIDE DEF event
    <3>4. Ok(Undefined(CacheTransitions, LineState(c, m.addr), event))
      BY <1>3, <3>2, <3>3
    <3>5. Ok(<<LineState(c, m.addr), "assert of response_in">>)
      BY <1>1, <3>2
    <3> QED
      BY <2>1, <3>4, <3>5, Zenon DEF CacheResponseFault, event
  <2> QED
    BY <2>1, Zenon DEF CacheResponseFault
<1>8. Ok(RequestFault)
  <2> DEFINE m == Head(requestFromCache)
             event == RequestEvent(m)
  <2>1. CASE requestFromCache # <<>>
    <3>1. m \in RequestMsg
      BY <2>1
    <3>2. dirState(m.addr) \in States /\ m.Type \in {"GetS", "GetM", "PutS", "PutM"}
      BY <1>5, <3>1 DEF RequestMsg
    <3>3. event \in Events
      <4>1. event \in {"PutSLast", "PutSNotLast", "PutMOwner", "PutMNonOwner",
                       m.Type} /\ (event = m.Type => m.Type \in {"GetS", "GetM"})
        BY <3>2, Zenon DEF RequestEvent
      <4> HIDE DEF event
      <4> QED
        BY <1>2, <3>2, <4>1
    <3> HIDE DEF event
    <3>4. Ok(Undefined(DirTransitions, dirState(m.addr), event))
      BY <1>3, <3>2, <3>3
    <3>5. Ok(<<dirState(m.addr), "assert PutS of a sharer">>)
      BY <1>1, <3>2
    <3> QED
      BY <2>1, <3>4, <3>5, Zenon DEF RequestFault, event
  <2> QED
    BY <2>1, Zenon DEF RequestFault
<1>9. ASSUME NEW c \in Cache
      PROVE  Ok(DirResponseFault(c))
  <2> DEFINE m == Head(responseToDir[c])
  <2>1. CASE responseToDir[c] # <<>>
    <3>1. m \in CacheResponse
      BY <2>1
    <3>2. dirState(m.addr) \in States
      BY <1>5, <3>1 DEF CacheResponse, ResponseMsg
    <3>3. /\ Ok(Undefined(DirTransitions, dirState(m.addr), "Data"))
          /\ Ok(<<dirState(m.addr), "error message type">>)
      BY <1>1, <1>2, <1>3, <3>2
    <3> QED
      BY <2>1, <3>3, Zenon DEF DirResponseFault
  <2> QED
    BY <2>1, Zenon DEF DirResponseFault
<1>10. ASSUME NEW m \in memQueue
       PROVE  Ok(MemoryFault(m))
  <2>1. dirState(m.addr) \in States /\ {"MemData", "MemAck"} \subseteq Events
    BY <1>2, <1>5 DEF MemoryMsg
  <2> QED
    BY <1>3, <2>1 DEF MemoryFault
<1> QED
  BY <1>6, <1>7, <1>8, <1>9, <1>10 DEF CacheFaults, DirFaults

(* The initial states have the types.                                      *)
LEMMA InitType == Init => TypeOK
<1> USE DEF TypeOK, CacheTypeOK, DirTypeOK, ChannelsTypeOK
<1> SUFFICES ASSUME Init PROVE TypeOK
  OBVIOUS
<1>1. ZeroBlock \in Data /\ Absent \in Line
  BY MSIConstants DEF MSIConstants, Absent, Line, CacheState
<1>2. CacheTypeOK
  BY <1>1 DEF Init, CacheInit
<1>3. DirTypeOK
  BY <1>1 DEF Init, DirInit, Entry, DirState
<1>4. ChannelsTypeOK
  BY DEF Init, ChannelsInit
<1>5. panicked = NoPanic
  BY DEF Init, ChannelsInit
<1> QED
  BY <1>2, <1>3, <1>4, <1>5

(* Every step of the protocol keeps the types.                             *)
LEMMA NextType == TypeOK /\ [Next]_vars => TypeOK'
<1> SUFFICES ASSUME TypeOK, [Next]_vars PROVE TypeOK'
  OBVIOUS
<1>1. CASE CacheNext /\ UNCHANGED dirVars
  <2>1. ASSUME NEW c \in Cache, NEW a \in Addr, NEW type \in RequestType,
               Issue(c, a, type)
        PROVE  TypeOK'
    <3>1. [Type |-> type, LineAddress |-> a] \in CPURequest
      BY DEF CPURequest
    <3>2. mandatoryQueue' \in [Cache -> Seq(CPURequest)]
      BY <2>1, <3>1 DEF Issue, TypeOK, CacheTypeOK
    <3>3. outstanding' \in [Cache -> [Addr -> {"None", "Load", "Store"}]]
      BY <2>1 DEF Issue, TypeOK, CacheTypeOK, RequestType
    <3> QED
      BY <1>1, <2>1, <3>2, <3>3
      DEF Issue, TypeOK, CacheTypeOK, DirTypeOK, ChannelsTypeOK, channels, dirVars
  <2> QED
    BY <1>1, <2>1, MandatoryStepType, ForwardStepType, ResponseStepType
    DEF CacheNext
<1>2. CASE DirNext /\ UNCHANGED cacheVars
  BY <1>2, RequestStepType, DataStepType, MemoryStepType DEF DirNext
<1>3. ASSUME NEW c \in Cache, Deliver(c), UNCHANGED <<cacheVars, dirVars>>
      PROVE  TypeOK'
  <2> USE DEF TypeOK, CacheTypeOK, DirTypeOK, ChannelsTypeOK
  <2>1. requestToDir[c] \in Seq(RequestMsg) /\ requestToDir[c] # <<>>
    BY <1>3 DEF Deliver
  <2>2. Head(requestToDir[c]) \in RequestMsg
        /\ Tail(requestToDir[c]) \in Seq(RequestMsg)
    BY <2>1
  <2> QED
    BY <1>3, <2>2 DEF Deliver, cacheVars, dirVars
<1>4. CASE PanicStep
  <2> USE DEF TypeOK, CacheTypeOK, DirTypeOK, ChannelsTypeOK
  <2>1. PICK fault \in CacheFaults \cup DirFaults :
          Panic(fault) /\ UNCHANGED <<cacheVars, dirVars>>
    BY <1>4 DEF PanicStep
  <2>2. fault \in Fault
    BY <2>1, FaultType
  <2> QED
    BY <2>1, <2>2 DEF Panic, channels, cacheVars, dirVars
<1>5. CASE UNCHANGED vars
  BY <1>5 DEF vars, cacheVars, dirVars, channels, TypeOK, CacheTypeOK,
              DirTypeOK, ChannelsTypeOK
<1> QED
  BY <1>1, <1>2, <1>3, <1>4, <1>5 DEF Next

(* Every variable keeps its type: in particular every message in every     *)
(* channel is one its receiver has a case for.                             *)
THEOREM TypeCorrect == Spec => []TypeOK
  BY InitType, NextType, PTL DEF Spec

-----------------------------------------------------------------------------
(* The directory's entries and its memory.                                 *)
(*                                                                         *)
(* What the directory decides from its own entries and the memory requests *)
(* of the line is inductive with the types alone: no message that a cache  *)
(* could send, in any order, upsets it.                                    *)

DirInv == DirectoryConsistent /\ OneMemoryRequest

(* A step at line a leaves the other lines as they were.                   *)
LEMMA OtherLines_Unchanged ==
  ASSUME TypeOK, DirInv, NEW a \in Addr, NEW e \in Entry, NEW s \in DirState,
         UpdateEntry(a, e, s),
         \A m : m.addr # a => (m \in memQueue <=> m \in memQueue'),
         EntryConsistent(setDirState(e, s)),
         MemoryConsistent(setDirState(e, s), AtMemory(a)')
  PROVE  DirInv'
<1>1. directory \in [Addr -> Entry]
  BY DEF TypeOK, DirTypeOK
<1>2. directory'[a] = setDirState(e, s)
  BY <1>1 DEF UpdateEntry
<1>3. \A b \in Addr \ {a} : directory'[b] = directory[b]
  BY <1>1 DEF UpdateEntry
<1>4. \A b \in Addr \ {a} : AtMemory(b)' = AtMemory(b)
  BY DEF AtMemory
<1>5. DirectoryConsistent'
  BY <1>2, <1>3 DEF DirInv, DirectoryConsistent
<1>6. OneMemoryRequest'
  BY <1>2, <1>3, <1>4 DEF DirInv, OneMemoryRequest
<1> QED
  BY <1>5, <1>6 DEF DirInv

(* Likewise when memQueue is left alone, and the new state waits for       *)
(* memory no more and no less than the old one.                            *)
LEMMA EntryStep ==
  ASSUME TypeOK, DirInv, NEW a \in Addr, NEW e \in Entry, NEW s \in DirState,
         UpdateEntry(a, e, s), UNCHANGED memQueue,
         EntryConsistent(setDirState(e, s)),
         \/ {s, directory[a].DirState} \subseteq {"I", "S", "M", "S_D"}
         \/ s = directory[a].DirState /\ e.Owner = directory[a].Owner
  PROVE  DirInv'
<1>1. MemoryConsistent(directory[a], AtMemory(a))
  BY DEF DirInv, OneMemoryRequest
<1>2. setDirState(e, s).DirState = s /\ setDirState(e, s).Owner = e.Owner
  BY DEF setDirState, Entry
<1>3. AtMemory(a)' = AtMemory(a)
  BY DEF AtMemory
<1>4. CASE {s, directory[a].DirState} \subseteq {"I", "S", "M", "S_D"}
  <2>1. AtMemory(a) = {}
    BY <1>1, <1>4 DEF MemoryConsistent
  <2>2. MemoryConsistent(setDirState(e, s), AtMemory(a))
    BY <1>2, <1>4, <2>1 DEF MemoryConsistent
  <2> QED
    BY <1>3, <2>2, OtherLines_Unchanged
<1>5. CASE s = directory[a].DirState /\ e.Owner = directory[a].Owner
  <2>1. MemoryConsistent(setDirState(e, s), AtMemory(a))
    BY <1>1, <1>2, <1>5 DEF MemoryConsistent
  <2> QED
    BY <1>3, <2>1, OtherLines_Unchanged
<1> QED
  BY <1>4, <1>5

(* A request for memory, made where none is waited for.                    *)
LEMMA QueueStep ==
  ASSUME TypeOK, DirInv, NEW a \in Addr, NEW e \in Entry, NEW s \in DirState,
         UpdateEntry(a, e, s),
         NEW type, NEW r, NEW d, queueMemory(type, a, r, d),
         directory[a].DirState \in {"I", "S", "M", "S_D"},
         EntryConsistent(setDirState(e, s)),
         \/ s = "S_m" /\ type = "MEMORY_READ"
         \/ s = "M_m" /\ type = "MEMORY_READ" /\ e.Owner = {r}
         \/ s \in {"MI_m", "SS_m"} /\ type = "MEMORY_WB"
  PROVE  DirInv'
<1> DEFINE m == [Type |-> type, addr |-> a, OriginalRequestor |-> r, DataBlk |-> d]
<1>1. memQueue' = memQueue \cup {m}
  BY DEF queueMemory
<1>2. m.addr = a /\ m.Type = type /\ m.OriginalRequestor = r
  OBVIOUS
<1>3. AtMemory(a) = {}
  BY DEF DirInv, OneMemoryRequest, MemoryConsistent
<1>4. setDirState(e, s).DirState = s /\ setDirState(e, s).Owner = e.Owner
  BY DEF setDirState, Entry
<1> HIDE DEF m
<1>5. AtMemory(a)' = {m}
  BY <1>1, <1>2, <1>3 DEF AtMemory
<1>6. MemoryConsistent(setDirState(e, s), {m})
  BY <1>2, <1>4 DEF MemoryConsistent
<1>7. \A n : n.addr # a => (n \in memQueue <=> n \in memQueue')
  BY <1>1, <1>2
<1> QED
  BY <1>5, <1>6, <1>7, OtherLines_Unchanged

(* The answer to the one request for the line.                             *)
LEMMA AnswerStep ==
  ASSUME TypeOK, DirInv, NEW m \in memQueue, NEW e \in Entry,
         NEW s \in {"I", "S", "M"},
         directory[m.addr].DirState \in {"S_m", "M_m", "MI_m", "SS_m"},
         UpdateEntry(m.addr, e, s), popMemQueue(m),
         EntryConsistent(setDirState(e, s))
  PROVE  DirInv'
<1> DEFINE a == m.addr
<1>1. a \in Addr
  BY DEF TypeOK, DirTypeOK, MemoryMsg
<1>2. m \in AtMemory(a)
  BY DEF AtMemory
<1>3. AtMemory(a) = {m}
  BY <1>1, <1>2 DEF DirInv, OneMemoryRequest, MemoryConsistent
<1>4. AtMemory(a)' = {}
  BY <1>3 DEF AtMemory, popMemQueue
<1>5. MemoryConsistent(setDirState(e, s), {})
  BY DEF MemoryConsistent, setDirState, Entry
<1>6. \A n : n.addr # a => (n \in memQueue <=> n \in memQueue')
  BY DEF popMemQueue
<1>7. s \in DirState
  BY DEF DirState
<1> QED
  BY <1>1, <1>4, <1>5, <1>6, <1>7, OtherLines_Unchanged

(* A set with one element has a cardinality of one.                        *)
LEMMA Singletons ==
  ASSUME NEW r, NEW S, IsFiniteSet(S)
  PROVE  /\ count({r}) = 1
         /\ count(S) = 1 /\ r \in S => S = {r}
<1>1. Cardinality({r}) = 1
  BY FS_Singleton
<1>2. ASSUME Cardinality(S) = 1, r \in S PROVE S = {r}
  BY <1>2, FS_Singleton
<1> QED
  BY <1>1, <1>2 DEF count

(* The PutS of the last sharer leaves no sharers behind.                   *)
LEMMA LastPutS ==
  ASSUME NEW m \in RequestMsg, RequestEvent(m) = "PutSLast"
  PROVE  m.Type = "PutS" /\ count(directory[m.addr].Sharers) = 1
<1>1. m.Type \in {"GetS", "GetM", "PutS", "PutM"}
  BY DEF RequestMsg
<1>2. CASE m.Type = "PutS"
  BY <1>2 DEF RequestEvent
<1>3. CASE m.Type # "PutS"
  BY <1>1, <1>3 DEF RequestEvent
<1> QED
  BY <1>2, <1>3

(* Every request the directory serves keeps the invariant.                 *)
LEMMA RequestStepDirInv ==
  ASSUME TypeOK, DirInv, RequestStep
  PROVE  DirInv'
<1> DEFINE m == Head(requestFromCache)
           d == directory[m.addr]
           r == m.Requestor
<1>1. PICK states, events : Requested(states, events)
  BY DEF RequestStep, IS_GetS, I_GetM, S_GetM, M_GetS, M_GetM, I_Put, M_Put,
         StalePut, Shared_Put, S_PutSLast, S_D_PutSLast, M_PutMOwner
<1>2. m.addr \in Addr /\ r \in Cache /\ d \in Entry
  BY <1>1, RequestHead
<1>3. EntryConsistent(d)
  BY <1>2 DEF DirInv, DirectoryConsistent
<1>4. count({r}) = 1
  BY MSIConstants, Singletons DEF MSIConstants
<1>5. CASE IS_GetS
  <2> DEFINE e == addReqToSharers(d, r)
  <2>1. e \in Entry /\ "S_m" \in DirState
    BY <1>2, EntryOperators DEF DirState
  <2>2. d.DirState \in {"I", "S"}
    BY <1>5 DEF IS_GetS, Requested, dirState
  <2>3. EntryConsistent(setDirState(e, "S_m"))
    BY <1>2, <1>3, <1>4, <2>2
    DEF EntryConsistent, addReqToSharers, removeReqFromSharers, setOwner,
           clearOwner, addOwnerToSharers, setDirState, Entry
  <2> HIDE DEF e
  <2> QED
    BY <1>2, <1>5, <2>1, <2>2, <2>3, QueueStep DEF IS_GetS, sendMemRead, e
<1>6. CASE I_GetM
  <2> DEFINE e == setOwner(d, r)
  <2>1. e \in Entry /\ "M_m" \in DirState
    BY <1>2, EntryOperators DEF DirState
  <2>2. d.DirState \in {"I"}
    BY <1>6 DEF I_GetM, Requested, dirState
  <2>3. EntryConsistent(setDirState(e, "M_m"))
    BY <1>2, <1>3, <1>4, <2>2
    DEF EntryConsistent, addReqToSharers, removeReqFromSharers, setOwner,
           clearOwner, addOwnerToSharers, setDirState, Entry
  <2>4. e.Owner = {r}
    BY <1>2, <1>3, <2>2
    DEF EntryConsistent, addReqToSharers, removeReqFromSharers, setOwner,
           clearOwner, addOwnerToSharers, setDirState, Entry
  <2> HIDE DEF e
  <2> QED
    BY <1>2, <1>6, <2>1, <2>2, <2>3, <2>4, QueueStep DEF I_GetM, sendMemRead, e
<1>7. CASE S_GetM
  <2> DEFINE e == setOwner(removeReqFromSharers(d, r), r)
  <2>1. e \in Entry /\ "M_m" \in DirState
    BY <1>2, EntryOperators DEF DirState
  <2>2. d.DirState \in {"S"}
    BY <1>7 DEF S_GetM, Requested, dirState
  <2>3. EntryConsistent(setDirState(e, "M_m"))
    BY <1>2, <1>3, <1>4, <2>2
    DEF EntryConsistent, addReqToSharers, removeReqFromSharers, setOwner,
           clearOwner, addOwnerToSharers, setDirState, Entry
  <2>4. e.Owner = {r}
    BY <1>2, <1>3, <2>2
    DEF EntryConsistent, addReqToSharers, removeReqFromSharers, setOwner,
           clearOwner, addOwnerToSharers, setDirState, Entry
  <2> HIDE DEF e
  <2> QED
    BY <1>2, <1>7, <2>1, <2>2, <2>3, <2>4, QueueStep DEF S_GetM, sendMemRead, e
<1>8. CASE M_GetS
  <2> DEFINE e == clearOwner(addOwnerToSharers(addReqToSharers(d, r)))
  <2>1. e \in Entry /\ "S_D" \in DirState
    BY <1>2, EntryOperators DEF DirState
  <2>2. d.DirState \in {"M"}
    BY <1>8 DEF M_GetS, Requested, dirState
  <2>3. EntryConsistent(setDirState(e, "S_D"))
    BY <1>2, <1>3, <1>4, <2>2
    DEF EntryConsistent, addReqToSharers, removeReqFromSharers, setOwner,
           clearOwner, addOwnerToSharers, setDirState, Entry
  <2> HIDE DEF e
  <2> QED
    BY <1>2, <1>8, <2>1, <2>2, <2>3, EntryStep DEF M_GetS, e
<1>9. CASE M_GetM
  <2> DEFINE e == setOwner(clearOwner(d), r)
  <2>1. e \in Entry /\ "M" \in DirState
    BY <1>2, EntryOperators DEF DirState
  <2>2. d.DirState \in {"M"}
    BY <1>9 DEF M_GetM, Requested, dirState
  <2>3. EntryConsistent(setDirState(e, "M"))
    BY <1>2, <1>3, <1>4, <2>2
    DEF EntryConsistent, addReqToSharers, removeReqFromSharers, setOwner,
           clearOwner, addOwnerToSharers, setDirState, Entry
  <2> HIDE DEF e
  <2> QED
    BY <1>2, <1>9, <2>1, <2>2, <2>3, EntryStep DEF M_GetM, e
<1>10. CASE S_PutSLast
  <2> DEFINE e == removeReqFromSharers(d, r)
  <2>1. e \in Entry /\ "I" \in DirState
    BY <1>2, EntryOperators DEF DirState
  <2>2. d.Sharers = {r} /\ d.DirState = "S"
    <3>1. m.Type = "PutS" /\ count(d.Sharers) = 1
      BY <1>1, <1>10, RequestHead, LastPutS DEF S_PutSLast, Requested
    <3>2. IsFiniteSet(d.Sharers)
      BY <1>2, MSIConstants, FS_Subset DEF MSIConstants, Entry
    <3> QED
      BY <1>10, <3>1, <3>2, Singletons
      DEF S_PutSLast, Requested, PutSAssertHolds, dirState
  <2>3. EntryConsistent(setDirState(e, "I"))
    BY <1>2, <1>3, <1>4, <2>2
    DEF EntryConsistent, addReqToSharers, removeReqFromSharers, setOwner,
           clearOwner, addOwnerToSharers, setDirState, Entry
  <2> HIDE DEF e
  <2> QED
    BY <1>2, <1>10, <2>1, <2>2, <2>3, EntryStep DEF S_PutSLast, e
<1>11. CASE S_D_PutSLast
  <2> DEFINE e == removeReqFromSharers(d, r)
  <2>1. e \in Entry /\ "S_D" \in DirState
    BY <1>2, EntryOperators DEF DirState
  <2>2. d.DirState \in {"S_D"}
    BY <1>11 DEF S_D_PutSLast, Requested, dirState
  <2>3. EntryConsistent(setDirState(e, "S_D"))
    BY <1>2, <1>3, <1>4, <2>2
    DEF EntryConsistent, addReqToSharers, removeReqFromSharers, setOwner,
           clearOwner, addOwnerToSharers, setDirState, Entry
  <2> HIDE DEF e
  <2> QED
    BY <1>2, <1>11, <2>1, <2>2, <2>3, EntryStep DEF S_D_PutSLast, e
<1>12. CASE M_PutMOwner
  <2> DEFINE e == clearOwner(d)
  <2>1. e \in Entry /\ "MI_m" \in DirState
    BY <1>2, EntryOperators DEF DirState
  <2>2. d.DirState \in {"M"}
    BY <1>12 DEF M_PutMOwner, Requested, dirState
  <2>3. EntryConsistent(setDirState(e, "MI_m"))
    BY <1>2, <1>3, <1>4, <2>2
    DEF EntryConsistent, addReqToSharers, removeReqFromSharers, setOwner,
           clearOwner, addOwnerToSharers, setDirState, Entry
  <2> HIDE DEF e
  <2> QED
    BY <1>2, <1>12, <2>1, <2>2, <2>3, QueueStep DEF M_PutMOwner, sendDataToMem, e
<1>13. CASE Shared_Put
  <2> DEFINE e == removeReqFromSharers(d, r)
  <2>1. e \in Entry /\ d.DirState \in DirState
    BY <1>2, EntryOperators DEF Entry
  <2>2. d.DirState \in {"S", "S_D", "SS_m", "S_m"}
    BY <1>13 DEF Shared_Put, Requested, dirState
  <2>3. EntryConsistent(setDirState(e, d.DirState)) /\ e.Owner = d.Owner
    BY <1>2, <1>3, <2>2
    DEF EntryConsistent, removeReqFromSharers, setDirState, Entry
  <2> HIDE DEF e
  <2> QED
    BY <1>2, <1>13, <2>1, <2>3, EntryStep DEF Shared_Put, e
<1>14. ASSUME NEW S, StalePut(S)
      PROVE  DirInv'
  BY <1>14 DEF StalePut, dirVars, DirInv, DirectoryConsistent,
     OneMemoryRequest, AtMemory
<1> QED
  BY <1>5, <1>6, <1>7, <1>8, <1>9, <1>10, <1>11, <1>12, <1>13, <1>14
  DEF RequestStep, I_Put, M_Put

(* An owner's data starts the one write to memory in SS_m.                 *)
LEMMA DataStepDirInv ==
  ASSUME TypeOK, DirInv, NEW c \in Cache, S_D_Data(c)
  PROVE  DirInv'
<1> DEFINE m == Head(responseToDir[c])
<1>1. responseToDir[c] \in Seq(CacheResponse) /\ responseToDir[c] # <<>>
  BY DEF S_D_Data, TypeOK, ChannelsTypeOK
<1>2. m \in CacheResponse
  BY <1>1
<1>3. m.addr \in Addr
  BY <1>2 DEF CacheResponse, ResponseMsg
<1>4. directory[m.addr] \in Entry /\ EntryConsistent(directory[m.addr])
  BY <1>3 DEF TypeOK, DirTypeOK, DirInv, DirectoryConsistent
<1>5. directory[m.addr].DirState = "S_D"
  BY DEF S_D_Data, dirState
<1>6. EntryConsistent(setDirState(directory[m.addr], "SS_m"))
  BY <1>4, <1>5 DEF EntryConsistent, setDirState, Entry
<1> QED
  BY <1>3, <1>4, <1>5, <1>6, QueueStep DEF S_D_Data, sendRespDataToMem, DirState

(* An answer of memory ends the wait of the directory's state.             *)
LEMMA MemoryStepDirInv ==
  ASSUME TypeOK, DirInv, NEW m \in memQueue, MemoryStep(m)
  PROVE  DirInv'
<1> DEFINE d == directory[m.addr]
<1>1. d \in Entry /\ EntryConsistent(d)
  BY DEF TypeOK, DirTypeOK, MemoryMsg, DirInv, DirectoryConsistent
<1>2. clearSharers(d) \in Entry
  BY <1>1, EntryOperators
<1>3. CASE S_m_MemData(m)
  <2>1. d.DirState = "S_m"
    BY <1>3 DEF S_m_MemData, dirState
  <2>2. EntryConsistent(setDirState(d, "S"))
    BY <1>1, <2>1 DEF EntryConsistent, setDirState, Entry
  <2> QED
    BY <1>1, <1>3, <2>1, <2>2, AnswerStep DEF S_m_MemData
<1>4. CASE M_m_MemData(m)
  <2>1. d.DirState = "M_m"
    BY <1>4 DEF M_m_MemData, dirState
  <2>2. EntryConsistent(setDirState(clearSharers(d), "M"))
    BY <1>1, <2>1 DEF EntryConsistent, clearSharers, setDirState, Entry
  <2> QED
    BY <1>1, <1>2, <1>4, <2>1, <2>2, AnswerStep DEF M_m_MemData
<1>5. CASE MI_m_MemAck(m)
  <2>1. d.DirState = "MI_m"
    BY <1>5 DEF MI_m_MemAck, MemAck, dirState
  <2>2. EntryConsistent(setDirState(d, "I"))
    BY <1>1, <2>1 DEF EntryConsistent, setDirState, Entry
  <2> QED
    BY <1>1, <1>5, <2>1, <2>2, AnswerStep DEF MI_m_MemAck, MemAck
<1>6. CASE SS_m_MemAck(m)
  <2>1. d.DirState = "SS_m"
    BY <1>6 DEF SS_m_MemAck, MemAck, dirState
  <2>2. EntryConsistent(setDirState(d, "S"))
    BY <1>1, <2>1 DEF EntryConsistent, setDirState, Entry
  <2> QED
    BY <1>1, <1>6, <2>1, <2>2, AnswerStep DEF SS_m_MemAck, MemAck
<1> QED
  BY <1>3, <1>4, <1>5, <1>6 DEF MemoryStep

(* The directory starts consistent, with nothing at memory.                *)
LEMMA InitDirInv == Init => DirInv
<1> SUFFICES ASSUME Init PROVE DirInv
  OBVIOUS
<1>1. \A a \in Addr : directory[a] = [DirState |-> "I", Sharers |-> {}, Owner |-> {}]
  BY DEF Init, DirInit
<1>2. \A a \in Addr : AtMemory(a) = {}
  BY DEF Init, DirInit, AtMemory
<1> QED
  BY <1>1, <1>2 DEF DirInv, DirectoryConsistent, EntryConsistent,
     OneMemoryRequest, MemoryConsistent

(* Every step of the protocol keeps the directory's invariant.             *)
LEMMA NextDirInv == TypeOK /\ DirInv /\ [Next]_vars => DirInv'
<1> SUFFICES ASSUME TypeOK, DirInv, [Next]_vars PROVE DirInv'
  OBVIOUS
<1>1. CASE UNCHANGED dirVars
  BY <1>1 DEF dirVars, DirInv, DirectoryConsistent, OneMemoryRequest, AtMemory
<1>2. CASE DirNext
  BY <1>2, RequestStepDirInv, DataStepDirInv, MemoryStepDirInv DEF DirNext
<1> QED
  BY <1>1, <1>2 DEF Next, PanicStep, vars, dirVars

(* The directory's invariant holds throughout.                             *)
LEMMA DirInvariant == Spec => []DirInv
  BY InitDirInv, NextDirInv, TypeCorrect, PTL DEF Spec

(* The directory's entries are consistent in every state, for any number   *)
(* of caches: an owner exactly where its state has one, no sharer left     *)
(* when a line goes to I, M or MI_m, no owner among those it invalidates.  *)
THEOREM DirectoryAlwaysConsistent == Spec => []DirectoryConsistent
  BY DirInvariant, PTL DEF DirInv

(* The directory and memory agree on what is asked: an answer of memory    *)
(* never meets a state that does not wait for it.                          *)
THEOREM MemoryAlwaysConsistent == Spec => []OneMemoryRequest
  BY DirInvariant, PTL DEF DirInv

-----------------------------------------------------------------------------
(* Blocks, TBEs and the requests of the sequencer: the invariant.          *)

QueuedIn(q, a) == \E i \in DOMAIN q : q[i].LineAddress = a

(* The mandatory queue q holds one request for a line at most, of the type *)
(* out that the sequencer has outstanding.                                 *)
QueueAgrees(q, out) ==
  /\ \A i, j \in DOMAIN q : q[i].LineAddress = q[j].LineAddress => i = j
  /\ \A i \in DOMAIN q : out[q[i].LineAddress] = q[i].Type

AllocationFits(l) ==
  /\ l.tbe <=> l.State \in Stalled \cup {"IS_D"}
  /\ l.block <=> l.State # "I"

(* Where the request outstanding for a line is.                            *)
RequestHeld(l, out, queued) ==
  /\ l.State = "IS_D" => out = "Load" /\ ~queued
  /\ l.State \in Stalled => out = "Store" /\ ~queued
  /\ out # "None" => queued \/ l.tbe

WaysKept(c) == IsFiniteSet(Blocks(c)) /\ Cardinality(Blocks(c)) <= Ways

AllocInv ==
  \A c \in Cache :
    /\ QueueAgrees(mandatoryQueue[c], outstanding[c])
    /\ WaysKept(c)
    /\ \A a \in Addr :
         /\ AllocationFits(line[c][a])
         /\ RequestHeld(line[c][a], outstanding[c][a],
                        QueuedIn(mandatoryQueue[c], a))

-----------------------------------------------------------------------------
(* The mandatory queue.                                                    *)

(* A request that the sequencer issues finds no other for its line.        *)
LEMMA QueueIssue ==
  ASSUME NEW q \in Seq(CPURequest), NEW e \in CPURequest,
         NEW out \in [Addr -> {"None", "Load", "Store"}],
         QueueAgrees(q, out), out[e.LineAddress] = "None"
  PROVE  /\ QueueAgrees(Append(q, e), [out EXCEPT ![e.LineAddress] = e.Type])
         /\ \A a \in Addr : QueuedIn(Append(q, e), a) <=>
                              QueuedIn(q, a) \/ a = e.LineAddress
<1> DEFINE r == Append(q, e)
<1>1. /\ DOMAIN r = 1..(Len(q) + 1) /\ DOMAIN q = 1..Len(q) /\ Len(q) \in Nat
      /\ r[Len(q) + 1] = e
      /\ \A i \in DOMAIN q : r[i] = q[i] /\ q[i] \in CPURequest
  OBVIOUS
<1>2. \A x \in CPURequest : x.LineAddress \in Addr /\ x.Type \in {"Load", "Store"}
  BY DEF CPURequest, RequestType
<1>3. \A i \in DOMAIN q : q[i].LineAddress # e.LineAddress
  BY <1>1, <1>2 DEF QueueAgrees
<1> HIDE DEF r
<1>4. QueueAgrees(r, [out EXCEPT ![e.LineAddress] = e.Type])
  BY <1>1, <1>2, <1>3 DEF QueueAgrees
<1>5. \A a \in Addr : QueuedIn(r, a) <=> QueuedIn(q, a) \/ a = e.LineAddress
  BY <1>1 DEF QueuedIn
<1> QED
  BY <1>4, <1>5 DEF r

(* A request that is taken was the only one for its line.                  *)
LEMMA QueueTaken ==
  ASSUME NEW q \in Seq(CPURequest), q # <<>>, NEW out, QueueAgrees(q, out)
  PROVE  /\ Head(q) \in CPURequest /\ Tail(q) \in Seq(CPURequest)
         /\ out[Head(q).LineAddress] = Head(q).Type
         /\ QueuedIn(q, Head(q).LineAddress)
         /\ QueueAgrees(Tail(q), out)
         /\ \A a \in Addr : QueuedIn(Tail(q), a) <=>
                              QueuedIn(q, a) /\ a # Head(q).LineAddress
<1> DEFINE r == Tail(q)
<1>1. /\ DOMAIN r = 1..(Len(q) - 1) /\ DOMAIN q = 1..Len(q) /\ Len(q) \in Nat \ {0}
      /\ \A i \in DOMAIN r : r[i] = q[i + 1]
      /\ Head(q) = q[1] /\ q[1] \in CPURequest
  OBVIOUS
<1> HIDE DEF r
<1>2. QueueAgrees(r, out)
  BY <1>1 DEF QueueAgrees
<1>3. ASSUME NEW a \in Addr, QueuedIn(r, a)
      PROVE  QueuedIn(q, a) /\ a # Head(q).LineAddress
  <2>1. PICK i \in DOMAIN r : r[i].LineAddress = a
    BY <1>3 DEF QueuedIn
  <2>2. i + 1 \in DOMAIN q /\ q[i + 1].LineAddress = a /\ i + 1 # 1
    BY <1>1, <2>1
  <2> QED
    BY <1>1, <2>2 DEF QueuedIn, QueueAgrees
<1>4. ASSUME NEW a \in Addr, QueuedIn(q, a), a # Head(q).LineAddress
      PROVE  QueuedIn(r, a)
  <2>1. PICK i \in DOMAIN q : q[i].LineAddress = a
    BY <1>4 DEF QueuedIn
  <2>2. i # 1 /\ i - 1 \in DOMAIN r /\ r[i - 1].LineAddress = a
    BY <1>1, <1>4, <2>1
  <2> QED
    BY <2>2 DEF QueuedIn
<1>5. QueuedIn(q, Head(q).LineAddress) /\ out[Head(q).LineAddress] = Head(q).Type
  BY <1>1 DEF QueuedIn, QueueAgrees
<1> QED
  BY <1>1, <1>2, <1>3, <1>4, <1>5 DEF r

(* The callback for a line that has no request queued.                     *)
LEMMA QueueAnswered ==
  ASSUME NEW q \in Seq(CPURequest), NEW a \in Addr,
         NEW out \in [Addr -> {"None", "Load", "Store"}],
         QueueAgrees(q, out), ~QueuedIn(q, a)
  PROVE  QueueAgrees(q, [out EXCEPT ![a] = "None"])
<1>1. \A i \in DOMAIN q : q[i].LineAddress # a /\ q[i].LineAddress \in Addr
  <2>1. \A i \in DOMAIN q : q[i] \in CPURequest
    OBVIOUS
  <2> QED
    BY <2>1 DEF QueuedIn, CPURequest
<1> QED
  BY <1>1 DEF QueueAgrees

-----------------------------------------------------------------------------
(* Steps.                                                                  *)

(* What a step does to line a of cache c, the rest of the cache and the    *)
(* other caches staying as they are: the invariant follows from that of    *)
(* the line.                                                               *)
LEMMA LineStepKeepsAlloc ==
  ASSUME TypeOK, AllocInv, NEW c \in Cache, NEW a \in Addr,
         NEW l \in Line, NEW s \in CacheState, Update(c, a, l, s),
         AllocationFits(setState(l, s)),
         l.block /\ ~line[c][a].block => cacheAvail(c),
         \A d \in Cache \ {c} : /\ mandatoryQueue'[d] = mandatoryQueue[d]
                                /\ outstanding'[d] = outstanding[d],
         QueueAgrees(mandatoryQueue'[c], outstanding'[c]),
         RequestHeld(setState(l, s), outstanding'[c][a],
                     QueuedIn(mandatoryQueue'[c], a)),
         \A b \in Addr \ {a} :
           /\ outstanding'[c][b] = outstanding[c][b]
           /\ QueuedIn(mandatoryQueue'[c], b) <=> QueuedIn(mandatoryQueue[c], b)
  PROVE  AllocInv'
<1> DEFINE k == setState(l, s)
<1>1. /\ line \in [Cache -> [Addr -> Line]]
      /\ k \in Line /\ k.block = l.block
  BY LineOperators DEF TypeOK, CacheTypeOK, setState, Line
<1>2. /\ line'[c][a] = k
      /\ \A d \in Cache, b \in Addr : d # c \/ b # a => line'[d][b] = line[d][b]
  BY <1>1 DEF Update
<1> HIDE DEF k
<1>3. \A d \in Cache \ {c} : Blocks(d)' = Blocks(d)
  BY <1>2 DEF Blocks
<1>4. Blocks(c)' \in {Blocks(c), Blocks(c) \cup {a}, Blocks(c) \ {a}}
  BY <1>2 DEF Blocks
<1>5. Blocks(c)' = Blocks(c) \cup {a} => Blocks(c)' = Blocks(c) \/ cacheAvail(c)
  BY <1>1, <1>2 DEF Blocks
<1>6. IsFiniteSet(Blocks(c)) /\ Cardinality(Blocks(c)) <= Ways
  BY DEF AllocInv, WaysKept
<1>7. Ways \in Nat
  BY CacheConstants DEF CacheConstants
<1>8. WaysKept(c)'
  <2>1. CASE Blocks(c)' = Blocks(c)
    BY <1>6, <2>1 DEF WaysKept
  <2>2. CASE Blocks(c)' = Blocks(c) \cup {a} /\ cacheAvail(c)
    <3>1. /\ IsFiniteSet(Blocks(c) \cup {a})
          /\ Cardinality(Blocks(c) \cup {a}) <= Cardinality(Blocks(c)) + 1
          /\ Cardinality(Blocks(c)) \in Nat
      <4>1. Cardinality(Blocks(c)) \in Nat
        BY <1>6, FS_CardinalityType
      <4>2. /\ IsFiniteSet(Blocks(c) \cup {a})
            /\ Cardinality(Blocks(c) \cup {a}) =
                 IF a \in Blocks(c) THEN Cardinality(Blocks(c))
                                   ELSE Cardinality(Blocks(c)) + 1
        BY <1>6, FS_AddElement
      <4> QED
        BY <4>1, <4>2
    <3>2. Cardinality(Blocks(c)) < Ways
      BY <2>2 DEF cacheAvail
    <3>3. Cardinality(Blocks(c) \cup {a}) <= Ways
      BY <1>7, <3>1, <3>2, FS_CardinalityType
    <3> QED
      BY <2>2, <3>1, <3>3 DEF WaysKept
  <2>3. CASE Blocks(c)' = Blocks(c) \ {a}
    <3>1. Blocks(c) \ {a} \subseteq Blocks(c)
      OBVIOUS
    <3>2. /\ IsFiniteSet(Blocks(c) \ {a})
          /\ Cardinality(Blocks(c) \ {a}) <= Cardinality(Blocks(c))
      BY <1>6, <3>1, FS_Subset
    <3>3. Cardinality(Blocks(c) \ {a}) <= Ways
      BY <1>6, <1>7, <3>2, FS_CardinalityType
    <3> QED
      BY <2>3, <3>2, <3>3 DEF WaysKept
  <2> QED
    BY <1>4, <1>5, <2>1, <2>2, <2>3
<1>9. \A d \in Cache \ {c} : WaysKept(d)'
  BY <1>3 DEF AllocInv, WaysKept
<1>10. ASSUME NEW d \in Cache, NEW b \in Addr, d # c \/ b # a
       PROVE  /\ AllocationFits(line[d][b])'
              /\ RequestHeld(line[d][b], outstanding[d][b],
                             QueuedIn(mandatoryQueue[d], b))'
  BY <1>2, <1>10 DEF AllocInv, AllocationFits, RequestHeld
<1>11. /\ AllocationFits(line[c][a])'
       /\ RequestHeld(line[c][a], outstanding[c][a],
                      QueuedIn(mandatoryQueue[c], a))'
  BY <1>2 DEF k
<1>12. \A d \in Cache : QueueAgrees(mandatoryQueue[d], outstanding[d])'
  BY DEF AllocInv, QueueAgrees
<1> QED
  BY <1>8, <1>9, <1>10, <1>11, <1>12 DEF AllocInv
(* A step of cache c that leaves the lines and the requests alone.         *)
LEMMA RequestsUntouched ==
  ASSUME TypeOK, AllocInv, UNCHANGED <<line, mandatoryQueue, outstanding>>
  PROVE  AllocInv'
  BY DEF AllocInv, QueueAgrees, RequestHeld, WaysKept, Blocks

(* The sequencer's steps and those that serve its requests.                *)
LEMMA IssueKeepsAlloc ==
  ASSUME TypeOK, AllocInv, NEW c \in Cache, NEW a \in Addr,
         NEW type \in RequestType, Issue(c, a, type)
  PROVE  AllocInv'
<1> DEFINE e == [Type |-> type, LineAddress |-> a]
<1>1. /\ e \in CPURequest /\ e.LineAddress = a /\ e.Type = type
      /\ mandatoryQueue[c] \in Seq(CPURequest)
      /\ outstanding[c] \in [Addr -> {"None", "Load", "Store"}]
  BY DEF CPURequest, TypeOK, CacheTypeOK
<1>2. /\ mandatoryQueue'[c] = Append(mandatoryQueue[c], e)
      /\ outstanding'[c] = [outstanding[c] EXCEPT ![a] = type]
      /\ \A d \in Cache \ {c} : /\ mandatoryQueue'[d] = mandatoryQueue[d]
                                /\ outstanding'[d] = outstanding[d]
      /\ line' = line /\ outstanding[c][a] = "None"
  BY DEF Issue, TypeOK, CacheTypeOK
<1> HIDE DEF e
<1>3. /\ QueueAgrees(mandatoryQueue'[c], outstanding'[c])
      /\ \A b \in Addr : QueuedIn(mandatoryQueue'[c], b) <=>
                           QueuedIn(mandatoryQueue[c], b) \/ b = a
  BY <1>1, <1>2, QueueIssue DEF AllocInv
<1>4. \A d \in Cache : QueueAgrees(mandatoryQueue[d], outstanding[d])'
  <2>1. ASSUME NEW d \in Cache \ {c}
        PROVE  QueueAgrees(mandatoryQueue'[d], outstanding'[d])
    BY <1>2 DEF AllocInv
  <2> QED
    BY <1>3, <2>1
<1>5. \A d \in Cache : WaysKept(d)'
  BY <1>2 DEF AllocInv, WaysKept, Blocks
<1>6. ASSUME NEW d \in Cache, NEW b \in Addr
      PROVE  RequestHeld(line[d][b], outstanding[d][b],
                         QueuedIn(mandatoryQueue[d], b))'
  <2>1. CASE d = c
    <3>1. RequestHeld(line[c][b], outstanding[c][b],
                      QueuedIn(mandatoryQueue[c], b))
      BY DEF AllocInv
    <3>2. CASE b = a
      <4>1. line[c][a].State \notin Stalled \cup {"IS_D"}
        BY <1>2, <3>1, <3>2 DEF RequestHeld
      <4>2. QueuedIn(mandatoryQueue'[c], a)
        BY <1>3
      <4> QED
        BY <1>2, <2>1, <3>2, <4>1, <4>2 DEF RequestHeld
    <3>3. CASE b # a
      <4>1. /\ outstanding'[c][b] = outstanding[c][b]
            /\ QueuedIn(mandatoryQueue'[c], b) <=> QueuedIn(mandatoryQueue[c], b)
        BY <1>1, <1>2, <1>3, <3>3
      <4> QED
        BY <1>2, <2>1, <3>1, <4>1 DEF RequestHeld
    <3> QED
      BY <3>2, <3>3
  <2>2. CASE d # c
    BY <1>2, <2>2 DEF AllocInv, RequestHeld
  <2> QED
    BY <2>1, <2>2
<1> QED
  BY <1>2, <1>4, <1>5, <1>6 DEF AllocInv

(* A transition of mandatory_in takes the request, and starts a wait for   *)
(* the directory or calls the sequencer back.                              *)
LEMMA MandatoryKeepsAlloc ==
  ASSUME TypeOK, AllocInv, NEW c \in Cache, MandatoryStep(c)
  PROVE  AllocInv'
<1>1. PICK a \in Addr :
        \/ I_Load(c, a) \/ I_Store(c, a) \/ LoadHit(c, a) \/ S_Store(c, a)
        \/ \E d \in Data : M_Store(c, a, d)
        \/ S_Replacement(c, a) \/ M_Replacement(c, a)
  BY DEF MandatoryStep
<1> DEFINE q == mandatoryQueue[c]
           out == outstanding[c]
           l == line[c][a]
<1>2. /\ q \in Seq(CPURequest) /\ out \in [Addr -> {"None", "Load", "Store"}]
      /\ l \in Line /\ l.State \in CacheState
  BY DEF TypeOK, CacheTypeOK, Line
<1>3. /\ QueueAgrees(q, out) /\ AllocationFits(l)
      /\ RequestHeld(l, out[a], QueuedIn(q, a))
  BY DEF AllocInv
<1>4. /\ DOMAIN mandatoryQueue = Cache /\ DOMAIN outstanding = Cache
      /\ DOMAIN out = Addr
  BY DEF TypeOK, CacheTypeOK
<1>5. ASSUME NEW type, NEW states, Mandatory(c, a, type, states)
      PROVE  /\ q # <<>> /\ Head(q).LineAddress = a /\ Head(q).Type = type
             /\ out[a] = type /\ QueuedIn(q, a) /\ l.State \in states
             /\ l.State \notin Stalled \cup {"IS_D"}
             /\ l.block \/ cacheAvail(c)
             /\ Tail(q) \in Seq(CPURequest)
             /\ QueueAgrees(Tail(q), out)
             /\ \A b \in Addr : QueuedIn(Tail(q), b) <=> QueuedIn(q, b) /\ b # a
  <2>1. q # <<>> /\ Head(q) = [Type |-> type, LineAddress |-> a]
        /\ l.State \in states /\ (l.block \/ cacheAvail(c))
    BY <1>5 DEF Mandatory, LineState
  <2>2. Head(q).LineAddress = a /\ Head(q).Type = type
    BY <2>1
  <2>3. /\ out[a] = type /\ QueuedIn(q, a) /\ Tail(q) \in Seq(CPURequest)
        /\ QueueAgrees(Tail(q), out)
        /\ \A b \in Addr : QueuedIn(Tail(q), b) <=> QueuedIn(q, b) /\ b # a
    BY <1>2, <1>3, <2>1, <2>2, QueueTaken
  <2> QED
    BY <1>3, <2>1, <2>2, <2>3 DEF RequestHeld
<1> HIDE DEF q, out
<1>6. popMandatoryQueue(c) =>
        /\ mandatoryQueue'[c] = Tail(q)
        /\ \A d \in Cache \ {c} : mandatoryQueue'[d] = mandatoryQueue[d]
  BY <1>4 DEF popMandatoryQueue, q
<1>7. Callback(c, a) =>
        /\ outstanding'[c] = [out EXCEPT ![a] = "None"]
        /\ \A d \in Cache \ {c} : outstanding'[d] = outstanding[d]
  BY <1>4 DEF Callback, out
<1>8. ASSUME NEW type \in {"Load", "Store"}, NEW states, NEW k \in Line,
             NEW s \in CacheState,
             Mandatory(c, a, type, states), Update(c, a, k, s),
             popMandatoryQueue(c), UNCHANGED outstanding,
             k.tbe, k.block, s \in Stalled \cup {"IS_D"},
             s = "IS_D" => type = "Load", s \in Stalled => type = "Store"
      PROVE  AllocInv'
  <2>1. /\ setState(k, s).State = s /\ setState(k, s).tbe /\ setState(k, s).block
    BY <1>8 DEF setState, Line
  <2>2. s # "I"
    BY <1>8 DEF Stalled
  <2>3. AllocationFits(setState(k, s))
    BY <1>8, <2>1, <2>2 DEF AllocationFits
  <2>4. /\ QueueAgrees(mandatoryQueue'[c], outstanding'[c])
        /\ ~QueuedIn(mandatoryQueue'[c], a)
        /\ outstanding'[c][a] = type
    BY <1>5, <1>6, <1>8 DEF out
  <2>5. RequestHeld(setState(k, s), outstanding'[c][a],
                    QueuedIn(mandatoryQueue'[c], a))
    BY <1>8, <2>1, <2>4 DEF RequestHeld, Stalled
  <2>6. \A b \in Addr \ {a} : /\ outstanding'[c][b] = outstanding[c][b]
                              /\ QueuedIn(mandatoryQueue'[c], b) <=>
                                   QueuedIn(mandatoryQueue[c], b)
    BY <1>5, <1>6, <1>8 DEF q
  <2>7. \A d \in Cache \ {c} : /\ mandatoryQueue'[d] = mandatoryQueue[d]
                               /\ outstanding'[d] = outstanding[d]
    BY <1>6, <1>8
  <2>8. k.block /\ ~line[c][a].block => cacheAvail(c)
    BY <1>5, <1>8
  <2> QED
    BY <1>8, <2>3, <2>4, <2>5, <2>6, <2>7, <2>8, LineStepKeepsAlloc
<1>9. ASSUME NEW type \in {"Load", "Store"}, NEW states, NEW k \in Line,
             NEW s \in CacheState, s = l.State,
             Mandatory(c, a, type, states), Update(c, a, k, s),
             popMandatoryQueue(c), Callback(c, a),
             k.tbe = l.tbe, k.block = l.block, s # "I"
      PROVE  AllocInv'
  <2>1. /\ setState(k, s).State = l.State /\ setState(k, s).tbe = l.tbe
        /\ setState(k, s).block = l.block
    BY <1>3, <1>9 DEF setState, Line, AllocationFits
  <2>2. AllocationFits(setState(k, s))
    BY <1>3, <2>1 DEF AllocationFits
  <2>3. /\ Tail(q) \in Seq(CPURequest) /\ QueueAgrees(Tail(q), out)
        /\ ~QueuedIn(Tail(q), a) /\ l.State \notin Stalled \cup {"IS_D"}
    BY <1>5, <1>9
  <2>4. QueueAgrees(mandatoryQueue'[c], outstanding'[c])
    <3>1. QueueAgrees(Tail(q), [out EXCEPT ![a] = "None"])
      BY <1>2, <2>3, QueueAnswered
    <3> QED
      BY <1>6, <1>7, <1>9, <3>1
  <2>5. outstanding'[c][a] = "None" /\ ~QueuedIn(mandatoryQueue'[c], a)
    BY <1>4, <1>6, <1>7, <1>9, <2>3
  <2>6. RequestHeld(setState(k, s), outstanding'[c][a],
                    QueuedIn(mandatoryQueue'[c], a))
    BY <2>1, <2>3, <2>5 DEF RequestHeld
  <2>7. \A b \in Addr \ {a} : /\ outstanding'[c][b] = outstanding[c][b]
                              /\ QueuedIn(mandatoryQueue'[c], b) <=>
                                   QueuedIn(mandatoryQueue[c], b)
    BY <1>4, <1>5, <1>6, <1>7, <1>9 DEF q, out
  <2>8. \A d \in Cache \ {c} : /\ mandatoryQueue'[d] = mandatoryQueue[d]
                               /\ outstanding'[d] = outstanding[d]
    BY <1>6, <1>7, <1>9
  <2>9. k.block /\ ~line[c][a].block => cacheAvail(c)
    BY <1>9
  <2> QED
    BY <1>9, <2>2, <2>4, <2>6, <2>7, <2>8, <2>9, LineStepKeepsAlloc
<1>10. ASSUME NEW states, NEW s \in CacheState, Replacement(c, a, states),
              Update(c, a, l, s), UNCHANGED <<mandatoryQueue, outstanding>>,
              l.State \notin Stalled \cup {"I", "IS_D"},
              s \notin Stalled \cup {"I", "IS_D"}
       PROVE  AllocInv'
  <2>1. setState(l, s).State = s /\ setState(l, s).tbe = l.tbe
        /\ setState(l, s).block = l.block
    BY <1>3, <1>10 DEF setState, Line, AllocationFits
  <2>2. /\ AllocationFits(setState(l, s))
        /\ RequestHeld(setState(l, s), outstanding[c][a],
                       QueuedIn(mandatoryQueue[c], a))
    BY <1>3, <1>10, <2>1 DEF AllocationFits, RequestHeld, q, out
  <2> QED
    BY <1>2, <1>3, <1>10, <2>2, LineStepKeepsAlloc DEF q, out
<1>11. CASE I_Load(c, a)
  <2> DEFINE k == allocateTBE(allocateCacheBlock(l))
  <2>1. k \in Line /\ k.tbe /\ k.block
    BY <1>2, LineOperators DEF Line, allocateTBE, allocateCacheBlock
  <2> HIDE DEF k
  <2> QED
    <3>1. /\ Mandatory(c, a, "Load", {"I"}) /\ Update(c, a, k, "IS_D")
          /\ popMandatoryQueue(c) /\ UNCHANGED outstanding
      BY <1>11 DEF I_Load, k
    <3>2. "IS_D" \in CacheState /\ "IS_D" \notin Stalled
      BY DEF CacheState, Stalled
    <3> QED
      BY <1>8, <2>1, <3>1, <3>2
<1>12. CASE I_Store(c, a)
  <2> DEFINE k == allocateTBE(allocateCacheBlock(l))
  <2>1. k \in Line /\ k.tbe /\ k.block
    BY <1>2, LineOperators DEF Line, allocateTBE, allocateCacheBlock
  <2> HIDE DEF k
  <2> QED
    BY <1>8, <1>12, <2>1 DEF I_Store, CacheState, Stalled, k
<1>13. CASE S_Store(c, a)
  <2> DEFINE k == allocateTBE(l)
  <2>1. l.State = "S"
    BY <1>5, <1>13 DEF S_Store
  <2>2. k \in Line /\ k.tbe /\ k.block
    BY <1>2, <1>3, <2>1, LineOperators DEF Line, allocateTBE, AllocationFits
  <2> HIDE DEF k
  <2> QED
    BY <1>8, <1>13, <2>2 DEF S_Store, CacheState, Stalled, k
<1>14. CASE LoadHit(c, a)
  <2>1. l.State \in {"S", "SM_AD", "SM_A", "M"}
    BY <1>5, <1>14 DEF LoadHit
  <2>2. setState(l, l.State) = l
    BY <1>2, <1>3, <2>1 DEF setState, Line, AllocationFits
  <2>3. Update(c, a, l, l.State)
    BY <1>14, <2>2 DEF LoadHit, Update, TypeOK, CacheTypeOK
  <2> QED
    BY <1>2, <1>9, <1>14, <2>1, <2>3 DEF LoadHit, readCallback
<1>15. ASSUME NEW d \in Data, M_Store(c, a, d)
       PROVE  AllocInv'
  <2> DEFINE k == writeDataToCache(l, d)
  <2>1. l.State = "M"
    BY <1>5, <1>15 DEF M_Store
  <2>2. k \in Line /\ k.tbe = l.tbe /\ k.block = l.block
    BY <1>2, LineOperators DEF Line, writeDataToCache
  <2> HIDE DEF k
  <2> QED
    BY <1>2, <1>9, <1>15, <2>1, <2>2 DEF M_Store, writeCallback, k
<1>16. CASE S_Replacement(c, a)
  <2>1. l.State = "S"
    BY <1>16 DEF S_Replacement, Replacement, LineState
  <2> QED
    BY <1>10, <1>16, <2>1 DEF S_Replacement, CacheState, Stalled
<1>17. CASE M_Replacement(c, a)
  <2>1. l.State = "M"
    BY <1>17 DEF M_Replacement, Replacement, LineState
  <2> QED
    BY <1>10, <1>17, <2>1 DEF M_Replacement, CacheState, Stalled
<1> QED
  BY <1>1, <1>11, <1>12, <1>13, <1>14, <1>15, <1>16, <1>17

(* A forwarded request takes the block with the state, or leaves both.     *)
LEMMA ForwardKeepsAlloc ==
  ASSUME TypeOK, AllocInv, NEW c \in Cache, ForwardStep(c)
  PROVE  AllocInv'
<1> DEFINE m == Head(forwardToCache[c])
           l == line[c][m.addr]
<1>1. UNCHANGED <<mandatoryQueue, outstanding>>
  BY DEF ForwardStep, M_FwdGetS, MI_A_FwdGetS, OwnerFwdGetS, M_FwdGetM,
         MI_A_FwdGetM, S_Inv, SM_AD_Inv, SI_A_Inv, WaitingInv, PutAck
<1>2. ASSUME NEW type, NEW states, Forwarded(c, type, states)
      PROVE  /\ m.addr \in Addr /\ l \in Line /\ l.State \in states
             /\ AllocationFits(l)
             /\ RequestHeld(l, outstanding[c][m.addr],
                            QueuedIn(mandatoryQueue[c], m.addr))
             /\ QueueAgrees(mandatoryQueue[c], outstanding[c])
  <2>1. m.addr \in Addr /\ l.State \in states
    BY <1>2, ForwardHead DEF Forwarded, LineState
  <2>2. l \in Line
    BY <2>1 DEF TypeOK, CacheTypeOK
  <2> QED
    BY <2>1, <2>2 DEF AllocInv
<1>3. ASSUME NEW type, NEW from, NEW to \in CacheState,
             Forwarded(c, type, {from}), Update(c, m.addr, l, to),
             /\ from \notin {"I", "IS_D"} /\ to \notin {"I", "IS_D"}
             /\ from \in Stalled <=> to \in Stalled
      PROVE  AllocInv'
  <2>1. setState(l, to).State = to /\ setState(l, to).tbe = l.tbe
        /\ setState(l, to).block = l.block
    BY <1>2, <1>3 DEF setState, Line, AllocationFits
  <2>2. /\ l.State = from /\ AllocationFits(l)
        /\ RequestHeld(l, outstanding[c][m.addr],
                       QueuedIn(mandatoryQueue[c], m.addr))
    BY <1>2, <1>3
  <2>3. AllocationFits(setState(l, to))
    BY <1>3, <2>1, <2>2 DEF AllocationFits
  <2>4. RequestHeld(setState(l, to), outstanding[c][m.addr],
                    QueuedIn(mandatoryQueue[c], m.addr))
    BY <1>3, <2>1, <2>2 DEF RequestHeld
  <2>5. m.addr \in Addr /\ l \in Line /\ QueueAgrees(mandatoryQueue[c], outstanding[c])
    BY <1>2, <1>3
  <2> HIDE DEF m
  <2> QED
    BY <1>1, <1>3, <2>3, <2>4, <2>5, LineStepKeepsAlloc
<1>4. ASSUME NEW type, NEW states, Forwarded(c, type, states),
             Update(c, m.addr, deallocateCacheBlock(l), "I"),
             l.State \notin Stalled \cup {"I", "IS_D"}
      PROVE  AllocInv'
  <2> DEFINE k == deallocateCacheBlock(l)
  <2>1. k \in Line /\ ~k.block /\ ~k.tbe
    BY <1>2, <1>4, LineOperators DEF deallocateCacheBlock, Line, AllocationFits
  <2>2. setState(k, "I").State = "I" /\ ~setState(k, "I").tbe
        /\ ~setState(k, "I").block
    BY <2>1 DEF setState, Line
  <2>3. /\ AllocationFits(setState(k, "I"))
        /\ RequestHeld(setState(k, "I"), outstanding[c][m.addr],
                       QueuedIn(mandatoryQueue[c], m.addr))
    BY <1>2, <1>4, <2>2 DEF AllocationFits, RequestHeld, Stalled
  <2>4. m.addr \in Addr /\ QueueAgrees(mandatoryQueue[c], outstanding[c])
        /\ "I" \in CacheState /\ Update(c, m.addr, k, "I")
    BY <1>2, <1>4 DEF CacheState
  <2> HIDE DEF m, k
  <2> QED
    BY <1>1, <2>1, <2>3, <2>4, LineStepKeepsAlloc
<1> HIDE DEF m
<1>5. ASSUME NEW from \in {"M", "MI_A"}, NEW to \in {"S", "SI_A"},
             OwnerFwdGetS(c, from, to)
      PROVE  AllocInv'
  <2>1. Forwarded(c, "GetS", {from}) /\ Update(c, m.addr, l, to)
    BY <1>5 DEF OwnerFwdGetS, m
  <2> QED
    BY <1>3, <2>1 DEF CacheState, Stalled
<1>6. CASE M_FwdGetM(c)
  <2>1. /\ Forwarded(c, "GetM", {"M"})
        /\ Update(c, m.addr, deallocateCacheBlock(l), "I")
    BY <1>6 DEF M_FwdGetM, m
  <2> QED
    BY <1>2, <1>4, <2>1 DEF Stalled
<1>7. CASE MI_A_FwdGetM(c)
  <2>1. Forwarded(c, "GetM", {"MI_A"}) /\ Update(c, m.addr, l, "II_A")
    BY <1>7 DEF MI_A_FwdGetM, m
  <2> QED
    BY <1>3, <2>1 DEF CacheState, Stalled
<1>8. CASE S_Inv(c)
  <2>1. /\ Forwarded(c, "Inv", {"S"})
        /\ Update(c, m.addr, deallocateCacheBlock(l), "I")
    BY <1>8 DEF S_Inv, m
  <2> QED
    BY <1>2, <1>4, <2>1 DEF Stalled
<1>9. CASE SM_AD_Inv(c)
  <2>1. Forwarded(c, "Inv", {"SM_AD"}) /\ Update(c, m.addr, l, "IM_AD")
    BY <1>9 DEF SM_AD_Inv, WaitingInv, m
  <2> QED
    BY <1>3, <2>1 DEF CacheState, Stalled
<1>10. CASE SI_A_Inv(c)
  <2>1. Forwarded(c, "Inv", {"SI_A"}) /\ Update(c, m.addr, l, "II_A")
    BY <1>10 DEF SI_A_Inv, WaitingInv, m
  <2> QED
    BY <1>3, <2>1 DEF CacheState, Stalled
<1>11. CASE PutAck(c)
  <2>1. /\ Forwarded(c, "PutAck", {"MI_A", "SI_A", "II_A"})
        /\ Update(c, m.addr, deallocateCacheBlock(l), "I")
    BY <1>11 DEF PutAck, m
  <2> QED
    BY <1>2, <1>4, <2>1 DEF Stalled
<1> QED
  BY <1>5, <1>6, <1>7, <1>8, <1>9, <1>10, <1>11
  DEF ForwardStep, M_FwdGetS, MI_A_FwdGetS

(* A response that ends the wait frees the TBE and calls the sequencer     *)
(* back; the others leave the line waiting.                                *)
LEMMA ResponseKeepsAlloc ==
  ASSUME TypeOK, AllocInv, NEW c \in Cache, NEW s \in Machine, ResponseStep(c, s)
  PROVE  AllocInv'
<1> DEFINE m == Head(responseToCache[c][s])
           l == line[c][m.addr]
<1>1. /\ responseToCache[c][s] # <<>>
      /\ UNCHANGED mandatoryQueue
  BY DEF ResponseStep, IS_D_Data, InvAck, IM_AD_DataDirAcks, SM_AD_DataDirAcks,
         DataDirAcks, Upgrade_Data, LastInvAck, Responded
<1>2. m.addr \in Addr /\ m.DataBlk \in Data /\ m.Acks \in Int
  BY <1>1, ResponseHead
<1>3. /\ l \in Line /\ l.State \in CacheState /\ AllocationFits(l)
      /\ RequestHeld(l, outstanding[c][m.addr],
                     QueuedIn(mandatoryQueue[c], m.addr))
      /\ QueueAgrees(mandatoryQueue[c], outstanding[c])
      /\ mandatoryQueue[c] \in Seq(CPURequest)
      /\ outstanding \in [Cache -> [Addr -> {"None", "Load", "Store"}]]
  BY <1>2 DEF AllocInv, TypeOK, CacheTypeOK, Line
<1> HIDE DEF m
<1>4. ASSUME NEW d \in Data, NEW to \in {"S", "M"},
             l.State \in Stalled \cup {"IS_D"}, Callback(c, m.addr),
             Update(c, m.addr, deallocateTBE(writeDataToCache(l, d)), to)
      PROVE  AllocInv'
  <2> DEFINE k == deallocateTBE(writeDataToCache(l, d))
  <2>1. writeDataToCache(l, d) \in Line /\ writeDataToCache(l, d).block = l.block
    BY <1>3, LineOperators DEF writeDataToCache, Line
  <2>2. k \in Line /\ ~k.tbe /\ k.block = l.block /\ l.block
    BY <1>3, <1>4, <2>1, LineOperators
    DEF deallocateTBE, Line, AllocationFits, Stalled
  <2>3. setState(k, to).State = to /\ ~setState(k, to).tbe /\ setState(k, to).block
    BY <2>2 DEF setState, Line
  <2>4. /\ outstanding'[c] = [outstanding[c] EXCEPT ![m.addr] = "None"]
        /\ \A x \in Cache \ {c} : outstanding'[x] = outstanding[x]
    BY <1>3, <1>4 DEF Callback
  <2>5. ~QueuedIn(mandatoryQueue[c], m.addr)
    BY <1>3, <1>4 DEF RequestHeld
  <2>6. QueueAgrees(mandatoryQueue[c], [outstanding[c] EXCEPT ![m.addr] = "None"])
    BY <1>2, <1>3, <2>5, QueueAnswered
  <2>7. /\ AllocationFits(setState(k, to))
        /\ RequestHeld(setState(k, to), outstanding'[c][m.addr],
                       QueuedIn(mandatoryQueue'[c], m.addr))
    BY <1>1, <1>2, <1>3, <1>4, <2>3, <2>4 DEF AllocationFits, RequestHeld, Stalled
  <2>8. to \in CacheState /\ Update(c, m.addr, k, to)
    BY <1>4 DEF CacheState
  <2>9. \A b \in Addr \ {m.addr} :
          /\ outstanding'[c][b] = outstanding[c][b]
          /\ QueuedIn(mandatoryQueue'[c], b) <=> QueuedIn(mandatoryQueue[c], b)
    BY <1>1, <1>3, <2>4
  <2> HIDE DEF k
  <2> QED
    BY <1>1, <1>2, <2>2, <2>4, <2>6, <2>7, <2>8, <2>9, LineStepKeepsAlloc
<1>5. ASSUME NEW k \in Line, NEW to \in Stalled,
             l.State \in Stalled, UNCHANGED outstanding,
             k.tbe = l.tbe, k.block = l.block,
             Update(c, m.addr, k, to)
      PROVE  AllocInv'
  <2>1. to \in CacheState
    BY <1>5 DEF CacheState, Stalled
  <2>2. setState(k, to).State = to /\ setState(k, to).tbe = l.tbe
        /\ setState(k, to).block = l.block
    BY <1>3, <1>5 DEF setState, Line, AllocationFits
  <2>3. /\ AllocationFits(setState(k, to))
        /\ RequestHeld(setState(k, to), outstanding[c][m.addr],
                       QueuedIn(mandatoryQueue[c], m.addr))
    BY <1>3, <1>5, <2>2 DEF AllocationFits, RequestHeld, Stalled
  <2> QED
    BY <1>1, <1>2, <1>3, <1>5, <2>1, <2>3, LineStepKeepsAlloc
<1>6. CASE IS_D_Data(c, s)
  <2>1. /\ l.State = "IS_D" /\ Callback(c, m.addr)
        /\ Update(c, m.addr, deallocateTBE(writeDataToCache(l, m.DataBlk)), "S")
    BY <1>6 DEF IS_D_Data, Responded, LineState, readCallback, m
  <2> QED
    BY <1>2, <1>4, <2>1
<1>7. ASSUME NEW d \in Data, Upgrade_Data(c, s, d)
      PROVE  AllocInv'
  <2>1. /\ l.State \in Stalled /\ Callback(c, m.addr)
        /\ Update(c, m.addr, deallocateTBE(writeDataToCache(l, d)), "M")
    BY <1>7 DEF Upgrade_Data, Responded, LineState, writeCallback, Stalled, m
  <2> QED
    BY <1>4, <2>1
<1>8. ASSUME NEW d \in Data, LastInvAck(c, s, d)
      PROVE  AllocInv'
  <2>1. /\ l.State \in Stalled /\ Callback(c, m.addr)
        /\ Update(c, m.addr, deallocateTBE(writeDataToCache(l, d)), "M")
    BY <1>8 DEF LastInvAck, Responded, LineState, writeCallback, Stalled, m
  <2> QED
    BY <1>4, <2>1
<1>9. ASSUME NEW from \in Stalled, NEW to \in Stalled, DataDirAcks(c, s, from, to)
      PROVE  AllocInv'
  <2> DEFINE j == writeDataToCache(l, m.DataBlk)
             k == storeAcks(j, m.Acks)
  <2>1. /\ l.State = from /\ UNCHANGED outstanding
        /\ Update(c, m.addr, k, to)
    BY <1>9 DEF DataDirAcks, Responded, LineState, m
  <2>2. j \in Line /\ j.tbe = l.tbe /\ j.block = l.block
    BY <1>2, <1>3, LineOperators DEF writeDataToCache, Line
  <2> HIDE DEF j
  <2>3. k \in Line /\ k.tbe = l.tbe /\ k.block = l.block
    BY <1>2, <2>2, LineOperators DEF storeAcks, Line
  <2> QED
    BY <1>5, <2>1, <2>3
<1>10. CASE InvAck(c, s)
  <2>1. /\ l.State \in Stalled /\ UNCHANGED outstanding
        /\ Update(c, m.addr, decrAcks(l), l.State)
    BY <1>10 DEF InvAck, Responded, LineState, Stalled, m
  <2>2. /\ decrAcks(l) \in Line /\ decrAcks(l).tbe = l.tbe
        /\ decrAcks(l).block = l.block
    BY <1>3, LineOperators DEF decrAcks, Line
  <2> QED
    BY <1>5, <2>1, <2>2
<1>11. {"IM_AD", "SM_AD", "IM_A", "SM_A"} \subseteq Stalled
  BY DEF Stalled
<1> QED
  BY <1>6, <1>7, <1>8, <1>9, <1>10, <1>11
  DEF ResponseStep, IM_AD_DataDirAcks, SM_AD_DataDirAcks

-----------------------------------------------------------------------------
(* No line has a block or a TBE at first.                                  *)
LEMMA InitAlloc == Init => AllocInv
<1> SUFFICES ASSUME Init PROVE AllocInv
  OBVIOUS
<1>1. \A c \in Cache : /\ mandatoryQueue[c] = <<>> /\ Blocks(c) = {}
                       /\ \A a \in Addr : line[c][a] = Absent /\ outstanding[c][a] = "None"
  BY DEF Init, CacheInit, Blocks, Absent
<1>2. \A c \in Cache : WaysKept(c)
  <2>1. IsFiniteSet({}) /\ Cardinality({}) = 0
    BY FS_EmptySet
  <2>2. 0 <= Ways
    BY CacheConstants DEF CacheConstants
  <2> QED
    BY <1>1, <2>1, <2>2 DEF WaysKept
<1>3. \A c \in Cache : QueueAgrees(mandatoryQueue[c], outstanding[c])
  BY <1>1 DEF QueueAgrees
<1>4. AllocationFits(Absent) /\ \A queued : RequestHeld(Absent, "None", queued)
  BY DEF AllocationFits, RequestHeld, Absent, Stalled
<1> QED
  BY <1>1, <1>2, <1>3, <1>4 DEF AllocInv

(* Every step of the protocol keeps the allocation invariant.              *)
LEMMA NextAlloc == TypeOK /\ AllocInv /\ [Next]_vars => AllocInv'
<1> SUFFICES ASSUME TypeOK, AllocInv, [Next]_vars PROVE AllocInv'
  OBVIOUS
<1>1. CASE CacheNext
  BY <1>1, IssueKeepsAlloc, MandatoryKeepsAlloc, ForwardKeepsAlloc,
     ResponseKeepsAlloc DEF CacheNext
<1>2. CASE UNCHANGED cacheVars
  BY <1>2, RequestsUntouched DEF cacheVars
<1> QED
  BY <1>1, <1>2 DEF Next, vars, PanicStep

(* The allocation invariant holds throughout.                              *)
LEMMA AllocInvariant == Spec => []AllocInv
  BY InitAlloc, NextAlloc, TypeCorrect, PTL DEF Spec

(* A line has a block exactly in the states that keep one and a TBE        *)
(* exactly while it waits for data or acks, a set holds no more blocks     *)
(* than it has ways, and the sequencer's request waits in one place for    *)
(* the callback of its own type.                                           *)
THEOREM AllocationAlwaysMatches == Spec => []AllocationMatchesState
<1>1. AllocInv => AllocationMatchesState
  BY DEF AllocInv, AllocationMatchesState, WaysKept, AllocationFits,
         RequestHeld, QueuedIn
<1> QED
  BY <1>1, AllocInvariant, PTL

=============================================================================
