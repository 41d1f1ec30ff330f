------------------------------ MODULE MSICache ------------------------------
(***************************************************************************)
(* The L1 cache controllers (MSI-cache.sm): one operator for each SLICC    *)
(* action that updates the cache block or its TBE, one action for each     *)
(* transition statement, and the Sequencer as the controller uses it.      *)
(*                                                                         *)
(* setState writes the same state into the TBE and the block, whichever    *)
(* exist, and getState reads it back, so a line keeps it once.             *)
(***************************************************************************)
EXTENDS MSIMsg

CONSTANTS
  Ways,        \* blocks a cache holds; all modelled lines share one set
  OtherLines,  \* TRUE: lines that are not modelled compete for the set too
  Workload     \* <<cache, address, type>>: the requests CPUs may issue

RequestType == {"Load", "Store"}

ASSUME CacheConstants ==
  /\ Ways \in Nat \ {0}
  /\ OtherLines \in BOOLEAN
  /\ Workload \subseteq Cache \X Addr \X RequestType

VARIABLES
  line,            \* [Cache -> [Addr -> Line]]: block and TBE of each line
  mandatoryQueue,  \* [Cache -> Seq]: requests of the sequencer
  outstanding,     \* [Cache -> [Addr -> "None", "Load" or "Store"]]: requests
                   \*   the sequencer issued and no callback answered
  latest           \* history: what the last store to each line wrote

cacheVars == <<line, mandatoryQueue, outstanding, latest>>

CacheState ==
  {"I", "IS_D", "IM_AD", "IM_A", "S", "SM_AD", "SM_A", "M",
   "MI_A", "SI_A", "II_A"}

Line ==
  [State : CacheState,
   block : BOOLEAN, DataBlk : Data,            \* is_valid(cache_entry)
   tbe : BOOLEAN, AcksOutstanding : Int]       \* is_valid(tbe)

CPURequest == [Type : RequestType, LineAddress : Addr]

Absent == [State |-> "I", block |-> FALSE, DataBlk |-> ZeroBlock,
           tbe |-> FALSE, AcksOutstanding |-> 0]

LineState(c, a) == line[c][a].State

-----------------------------------------------------------------------------
(* SLICC actions on a line.                                                *)

allocateCacheBlock(l) == [l EXCEPT !.block = TRUE, !.DataBlk = ZeroBlock]
deallocateCacheBlock(l) == [l EXCEPT !.block = FALSE, !.DataBlk = ZeroBlock]
allocateTBE(l) == [l EXCEPT !.tbe = TRUE, !.AcksOutstanding = 0]
deallocateTBE(l) == [l EXCEPT !.tbe = FALSE, !.AcksOutstanding = 0]
writeDataToCache_Skipped(l, d) == l                  \* seeded fault
writeDataToCache(l, d) == [l EXCEPT !.DataBlk = d]
storeAcks_Overwrite(l, acks) ==                      \* seeded fault
  [l EXCEPT !.AcksOutstanding = acks]
storeAcks(l, acks) == [l EXCEPT !.AcksOutstanding = acks + @]
decrAcks(l) == [l EXCEPT !.AcksOutstanding = @ - 1]

(* With neither block nor TBE there is nothing to write the state to, and  *)
(* getState answers I.                                                     *)
setState(l, s) == [l EXCEPT !.State = IF l.tbe \/ l.block THEN s ELSE "I"]

Update(c, a, l, s) == line' = [line EXCEPT ![c][a] = setState(l, s)]

(* SLICC actions that send.                                                *)

SendRequest(c, type, a, d) ==
  requestToDir' = [requestToDir EXCEPT ![c] = Append(@,
    [Type |-> type, addr |-> a, Requestor |-> c, DataBlk |-> d])]

sendGetS(c, a) == SendRequest(c, "GetS", a, ZeroBlock)
sendGetM(c, a) == SendRequest(c, "GetM", a, ZeroBlock)
sendPutS(c, a) == SendRequest(c, "PutS", a, ZeroBlock)
sendPutM(c, a) == SendRequest(c, "PutM", a, line[c][a].DataBlk)

Response(c, type, a, d) ==
  [Type |-> type, addr |-> a, Sender |-> c, Acks |-> 0, DataBlk |-> d]

sendCacheDataToReq(c, m) ==
  responseToCache' = [responseToCache EXCEPT ![m.Requestor][c] =
    Append(@, Response(c, "Data", m.addr, line[c][m.addr].DataBlk))]

sendCacheDataToDir(c, a) ==
  responseToDir' = [responseToDir EXCEPT ![c] =
    Append(@, Response(c, "Data", a, line[c][a].DataBlk))]

sendInvAcktoReq_Lost(c, m) == UNCHANGED responseToCache   \* seeded fault
sendInvAcktoReq(c, m) ==
  responseToCache' = [responseToCache EXCEPT ![m.Requestor][c] =
    Append(@, Response(c, "InvAck", m.addr, ZeroBlock))]

popMandatoryQueue(c) ==
  mandatoryQueue' = [mandatoryQueue EXCEPT ![c] = Tail(@)]
popForwardQueue(c) ==
  forwardToCache' = [forwardToCache EXCEPT ![c] = Tail(@)]
popResponseQueue(c, s) ==
  responseToCache' = [responseToCache EXCEPT ![c][s] = Tail(@)]

-----------------------------------------------------------------------------
(* The Sequencer.  It has at most one request outstanding for a line       *)
(* (block_on = "LineAddress" in mandatory_in relies on it) and answers the *)
(* CPU when the controller calls back; a store writes its data into the    *)
(* block in the write callback.                                            *)

Issue(c, a, type) ==
  /\ <<c, a, type>> \in Workload
  /\ outstanding[c][a] = "None"
  /\ outstanding' = [outstanding EXCEPT ![c][a] = type]
  /\ mandatoryQueue' = [mandatoryQueue EXCEPT ![c] =
                          Append(@, [Type |-> type, LineAddress |-> a])]
  /\ UNCHANGED <<line, latest, channels, panicked>>

Callback(c, a) == outstanding' = [outstanding EXCEPT ![c][a] = "None"]

readCallback(c, a) == Callback(c, a) /\ UNCHANGED latest

writeCallback(c, a, d) ==
  Callback(c, a) /\ latest' = [latest EXCEPT ![a] = d]

-----------------------------------------------------------------------------
(* mandatory_in.                                                           *)

Blocks(c) == {a \in Addr : line[c][a].block}

cacheAvail_OffByOne(c) == Cardinality(Blocks(c)) <= Ways   \* seeded fault
cacheAvail(c) == Cardinality(Blocks(c)) < Ways

(* The head of c's mandatory queue is a request of this type for a, which  *)
(* has a block or room for one, and the line is in one of these states.    *)
Mandatory(c, a, type, states) ==
  /\ mandatoryQueue[c] # <<>>
  /\ Head(mandatoryQueue[c]) = [Type |-> type, LineAddress |-> a]
  /\ line[c][a].block \/ cacheAvail(c)
  /\ LineState(c, a) \in states

(* The head finds no room, and a is the victim cacheProbe names (any block *)
(* of the set); or the same for a request to a line not modelled.          *)
Replacement(c, a, states) ==
  /\ line[c][a].block
  /\ \/ OtherLines
     \/ /\ mandatoryQueue[c] # <<>>
        /\ ~line[c][Head(mandatoryQueue[c]).LineAddress].block
        /\ ~cacheAvail(c)
  /\ LineState(c, a) \in states

(* transition(I, Load, IS_D)                                               *)
I_Load(c, a) ==
  /\ Mandatory(c, a, "Load", {"I"})
  /\ Update(c, a, allocateTBE(allocateCacheBlock(line[c][a])), "IS_D")
  /\ sendGetS(c, a)
  /\ popMandatoryQueue(c)
  /\ UNCHANGED <<outstanding, latest, requestFromCache, forwardToCache,
                 responseToDir, responseToCache, panicked>>

(* transition(I, Store, IM_AD)                                             *)
I_Store(c, a) ==
  /\ Mandatory(c, a, "Store", {"I"})
  /\ Update(c, a, allocateTBE(allocateCacheBlock(line[c][a])), "IM_AD")
  /\ sendGetM(c, a)
  /\ popMandatoryQueue(c)
  /\ UNCHANGED <<outstanding, latest, requestFromCache, forwardToCache,
                 responseToDir, responseToCache, panicked>>

(* transition({S, SM_AD, SM_A, M}, Load): loadHit                          *)
LoadHit(c, a) ==
  /\ Mandatory(c, a, "Load", {"S", "SM_AD", "SM_A", "M"})
  /\ readCallback(c, a)
  /\ popMandatoryQueue(c)
  /\ UNCHANGED <<line, channels, panicked>>

(* transition(S, Store, SM_AD)                                             *)
S_Store(c, a) ==
  /\ Mandatory(c, a, "Store", {"S"})
  /\ Update(c, a, allocateTBE(line[c][a]), "SM_AD")
  /\ sendGetM(c, a)
  /\ popMandatoryQueue(c)
  /\ UNCHANGED <<outstanding, latest, requestFromCache, forwardToCache,
                 responseToDir, responseToCache, panicked>>

(* transition(M, Store): storeHit                                          *)
M_Store(c, a, d) ==
  /\ Mandatory(c, a, "Store", {"M"})
  /\ Update(c, a, writeDataToCache(line[c][a], d), "M")
  /\ writeCallback(c, a, d)
  /\ popMandatoryQueue(c)
  /\ UNCHANGED <<channels, panicked>>

(* transition(S, Replacement, SI_A); the request that caused it waits.     *)
S_Replacement(c, a) ==
  /\ Replacement(c, a, {"S"})
  /\ sendPutS(c, a)
  /\ Update(c, a, line[c][a], "SI_A")
  /\ UNCHANGED <<mandatoryQueue, outstanding, latest, requestFromCache,
                 forwardToCache, responseToDir, responseToCache, panicked>>

(* transition(M, Replacement, MI_A)                                        *)
M_Replacement(c, a) ==
  /\ Replacement(c, a, {"M"})
  /\ sendPutM(c, a)
  /\ Update(c, a, line[c][a], "MI_A")
  /\ UNCHANGED <<mandatoryQueue, outstanding, latest, requestFromCache,
                 forwardToCache, responseToDir, responseToCache, panicked>>

-----------------------------------------------------------------------------
(* forward_in: the event is the message's type.                            *)

Forwarded(c, type, states) ==
  /\ forwardToCache[c] # <<>>
  /\ Head(forwardToCache[c]).Type = type
  /\ LineState(c, Head(forwardToCache[c]).addr) \in states

(* An owner answers the reader, and the directory with the same data.      *)
OwnerFwdGetS(c, from, to) ==
  LET m == Head(forwardToCache[c]) IN
  /\ Forwarded(c, "GetS", {from})
  /\ sendCacheDataToReq(c, m)
  /\ sendCacheDataToDir(c, m.addr)
  /\ Update(c, m.addr, line[c][m.addr], to)
  /\ popForwardQueue(c)
  /\ UNCHANGED <<mandatoryQueue, outstanding, latest, requestToDir,
                 requestFromCache, panicked>>

M_FwdGetS(c) == OwnerFwdGetS(c, "M", "S")           \* transition(M, FwdGetS, S)
MI_A_FwdGetS(c) == OwnerFwdGetS(c, "MI_A", "SI_A")  \* (MI_A, FwdGetS, SI_A)

(* transition(M, FwdGetM, I)                                               *)
M_FwdGetM(c) ==
  LET m == Head(forwardToCache[c]) IN
  /\ Forwarded(c, "GetM", {"M"})
  /\ sendCacheDataToReq(c, m)
  /\ Update(c, m.addr, deallocateCacheBlock(line[c][m.addr]), "I")
  /\ popForwardQueue(c)
  /\ UNCHANGED <<mandatoryQueue, outstanding, latest, requestToDir,
                 requestFromCache, responseToDir, panicked>>

(* transition(MI_A, FwdGetM, II_A)                                         *)
MI_A_FwdGetM(c) ==
  LET m == Head(forwardToCache[c]) IN
  /\ Forwarded(c, "GetM", {"MI_A"})
  /\ sendCacheDataToReq(c, m)
  /\ Update(c, m.addr, line[c][m.addr], "II_A")
  /\ popForwardQueue(c)
  /\ UNCHANGED <<mandatoryQueue, outstanding, latest, requestToDir,
                 requestFromCache, responseToDir, panicked>>

(* transition(S, Inv, I)                                                   *)
S_Inv(c) ==
  LET m == Head(forwardToCache[c]) IN
  /\ Forwarded(c, "Inv", {"S"})
  /\ sendInvAcktoReq(c, m)
  /\ Update(c, m.addr, deallocateCacheBlock(line[c][m.addr]), "I")
  /\ popForwardQueue(c)
  /\ UNCHANGED <<mandatoryQueue, outstanding, latest, requestToDir,
                 requestFromCache, responseToDir, panicked>>

(* A cache that waits for the directory gives up its copy but not the wait.*)
WaitingInv(c, from, to) ==
  LET m == Head(forwardToCache[c]) IN
  /\ Forwarded(c, "Inv", {from})
  /\ sendInvAcktoReq(c, m)
  /\ Update(c, m.addr, line[c][m.addr], to)
  /\ popForwardQueue(c)
  /\ UNCHANGED <<mandatoryQueue, outstanding, latest, requestToDir,
                 requestFromCache, responseToDir, panicked>>

SM_AD_Inv(c) == WaitingInv(c, "SM_AD", "IM_AD")     \* transition(SM_AD, Inv, IM_AD)
SI_A_Inv(c) == WaitingInv(c, "SI_A", "II_A")        \* transition(SI_A, Inv, II_A)

(* transition({MI_A, SI_A, II_A}, PutAck, I)                               *)
PutAck(c) ==
  LET m == Head(forwardToCache[c]) IN
  /\ Forwarded(c, "PutAck", {"MI_A", "SI_A", "II_A"})
  /\ Update(c, m.addr, deallocateCacheBlock(line[c][m.addr]), "I")
  /\ popForwardQueue(c)
  /\ UNCHANGED <<mandatoryQueue, outstanding, latest, requestToDir,
                 requestFromCache, responseToDir, responseToCache, panicked>>

-----------------------------------------------------------------------------
(* response_in.                                                            *)

(* The event response m raises at a cache whose TBE awaits acks more acks; *)
(* acks is negative while InvAcks came before the directory's count.       *)
ResponseEvent(m, acks) ==
  CASE m.Sender = Directory -> IF m.Acks + acks = 0
                                 THEN "DataDirNoAcks" ELSE "DataDirAcks"
    [] m.Sender # Directory /\ m.Type = "Data" -> "DataOwner"
    [] OTHER -> IF acks = 1 THEN "LastInvAck" ELSE "InvAck"

(* What response_in asserts before it raises the event.                    *)
ResponseAssertsHold(c, m) ==
  /\ line[c][m.addr].tbe
  /\ m.Sender = Directory =>
       m.Type = "Data" /\ m.Acks + line[c][m.addr].AcksOutstanding >= 0

Responded(c, s, events, states) ==
  /\ responseToCache[c][s] # <<>>
  /\ LET m == Head(responseToCache[c][s]) IN
       /\ ResponseAssertsHold(c, m)
       /\ ResponseEvent(m, line[c][m.addr].AcksOutstanding) \in events
       /\ LineState(c, m.addr) \in states

(* transition(IS_D, {DataDirNoAcks, DataOwner}, S)                         *)
IS_D_Data(c, s) ==
  LET m == Head(responseToCache[c][s]) IN
  /\ Responded(c, s, {"DataDirNoAcks", "DataOwner"}, {"IS_D"})
  /\ Update(c, m.addr,
            deallocateTBE(writeDataToCache(line[c][m.addr], m.DataBlk)), "S")
  /\ readCallback(c, m.addr)
  /\ popResponseQueue(c, s)
  /\ UNCHANGED <<mandatoryQueue, requestToDir, requestFromCache,
                 forwardToCache, responseToDir, panicked>>

(* transition({IM_AD, SM_AD}, {DataDirNoAcks, DataOwner}, M); the data     *)
(* written to the block is then overwritten in the write callback.         *)
Upgrade_Data(c, s, d) ==
  LET m == Head(responseToCache[c][s]) IN
  /\ Responded(c, s, {"DataDirNoAcks", "DataOwner"}, {"IM_AD", "SM_AD"})
  /\ Update(c, m.addr,
            deallocateTBE(writeDataToCache(line[c][m.addr], d)), "M")
  /\ writeCallback(c, m.addr, d)
  /\ popResponseQueue(c, s)
  /\ UNCHANGED <<mandatoryQueue, requestToDir, requestFromCache,
                 forwardToCache, responseToDir, panicked>>

(* The directory's data and its count of the acks to wait for.             *)
DataDirAcks(c, s, from, to) ==
  LET m == Head(responseToCache[c][s]) IN
  /\ Responded(c, s, {"DataDirAcks"}, {from})
  /\ Update(c, m.addr,
            storeAcks(writeDataToCache(line[c][m.addr], m.DataBlk), m.Acks),
            to)
  /\ popResponseQueue(c, s)
  /\ UNCHANGED <<mandatoryQueue, outstanding, latest, requestToDir,
                 requestFromCache, forwardToCache, responseToDir, panicked>>

IM_AD_DataDirAcks(c, s) == DataDirAcks(c, s, "IM_AD", "IM_A")
SM_AD_DataDirAcks(c, s) == DataDirAcks(c, s, "SM_AD", "SM_A")

(* transition({IM_AD, IM_A, SM_AD, SM_A}, InvAck)                          *)
InvAck(c, s) ==
  LET m == Head(responseToCache[c][s]) IN
  /\ Responded(c, s, {"InvAck"}, {"IM_AD", "IM_A", "SM_AD", "SM_A"})
  /\ Update(c, m.addr, decrAcks(line[c][m.addr]), LineState(c, m.addr))
  /\ popResponseQueue(c, s)
  /\ UNCHANGED <<mandatoryQueue, outstanding, latest, requestToDir,
                 requestFromCache, forwardToCache, responseToDir, panicked>>

(* transition({IM_A, SM_A}, LastInvAck, M)                                 *)
LastInvAck(c, s, d) ==
  LET m == Head(responseToCache[c][s]) IN
  /\ Responded(c, s, {"LastInvAck"}, {"IM_A", "SM_A"})
  /\ Update(c, m.addr,
            deallocateTBE(writeDataToCache(line[c][m.addr], d)), "M")
  /\ writeCallback(c, m.addr, d)
  /\ popResponseQueue(c, s)
  /\ UNCHANGED <<mandatoryQueue, requestToDir, requestFromCache,
                 forwardToCache, responseToDir, panicked>>

-----------------------------------------------------------------------------
(* The states that have a transition for each event.                       *)
Stalled == {"IM_AD", "IM_A", "SM_AD", "SM_A"}

CacheTransitions ==
  [Load |-> CacheState, Store |-> CacheState,
   Replacement |-> CacheState \ {"I"},
   GetS |-> Stalled \cup {"M", "MI_A"}, GetM |-> Stalled \cup {"M", "MI_A"},
   Inv |-> {"IS_D", "S", "SM_AD", "SI_A"},
   PutAck |-> {"MI_A", "SI_A", "II_A"},
   DataDirNoAcks |-> {"IS_D", "IM_AD", "SM_AD"},
   DataDirAcks |-> {"IM_AD", "SM_AD"},
   DataOwner |-> {"IS_D", "IM_AD", "SM_AD"},
   InvAck |-> Stalled, LastInvAck |-> {"IM_A", "SM_A"}]

ForwardFault(c) ==
  LET m == Head(forwardToCache[c]) IN
  IF forwardToCache[c] = <<>> THEN NoPanic
  ELSE Undefined(CacheTransitions, LineState(c, m.addr), m.Type)

CacheResponseFault(c, s) ==
  LET m == Head(responseToCache[c][s]) IN
  CASE responseToCache[c][s] = <<>> -> NoPanic
    [] responseToCache[c][s] # <<>> /\ ~ResponseAssertsHold(c, m) ->
         <<LineState(c, m.addr), "assert of response_in">>
    [] OTHER ->
         Undefined(CacheTransitions, LineState(c, m.addr),
                   ResponseEvent(m, line[c][m.addr].AcksOutstanding))

CacheFaults ==
  ({ForwardFault(c) : c \in Cache}
     \cup {CacheResponseFault(c, s) : c \in Cache, s \in Machine}) \ {NoPanic}

-----------------------------------------------------------------------------
MandatoryStep(c) ==
  \E a \in Addr :
    \/ I_Load(c, a) \/ I_Store(c, a) \/ LoadHit(c, a) \/ S_Store(c, a)
    \/ \E d \in Data : M_Store(c, a, d)
    \/ S_Replacement(c, a) \/ M_Replacement(c, a)

ForwardStep(c) ==
  \/ M_FwdGetS(c) \/ M_FwdGetM(c) \/ MI_A_FwdGetS(c) \/ MI_A_FwdGetM(c)
  \/ S_Inv(c) \/ SM_AD_Inv(c) \/ SI_A_Inv(c) \/ PutAck(c)

ResponseStep(c, s) ==
  \/ IS_D_Data(c, s) \/ InvAck(c, s)
  \/ IM_AD_DataDirAcks(c, s) \/ SM_AD_DataDirAcks(c, s)
  \/ \E d \in Data : Upgrade_Data(c, s, d) \/ LastInvAck(c, s, d)

CacheNext ==
  \E c \in Cache :
    \/ \E a \in Addr, type \in RequestType : Issue(c, a, type)
    \/ MandatoryStep(c) \/ ForwardStep(c)
    \/ \E s \in Machine : ResponseStep(c, s)

CacheTypeOK ==
  /\ line \in [Cache -> [Addr -> Line]]
  /\ mandatoryQueue \in [Cache -> Seq(CPURequest)]
  /\ outstanding \in [Cache -> [Addr -> {"None", "Load", "Store"}]]
  /\ latest \in [Addr -> Data]

CacheInit ==
  /\ line = [c \in Cache |-> [a \in Addr |-> Absent]]
  /\ mandatoryQueue = [c \in Cache |-> <<>>]
  /\ outstanding = [c \in Cache |-> [a \in Addr |-> "None"]]
  /\ latest = [a \in Addr |-> ZeroBlock]

=============================================================================
