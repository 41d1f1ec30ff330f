------------------------------- MODULE MSIDir -------------------------------
(***************************************************************************)
(* The directory controller (MSI-dir.sm): one operator for each SLICC      *)
(* action that updates the directory entry, one action for each transition *)
(* statement.  Memory answers a queued read or write at any later time;    *)
(* its answer and the directory's memQueue_in are one step, and the queue  *)
(* is a set, which is enough as long as a line never has two requests at   *)
(* memory (OneMemoryRequest in MSIProperties).                             *)
(***************************************************************************)
EXTENDS MSIMsg

VARIABLES
  directory,   \* [Addr -> Entry]
  memQueue,    \* requests queued at the memory controller
  memory       \* [Addr -> Data]

dirVars == <<directory, memQueue, memory>>

DirState == {"I", "S", "M", "S_D", "S_m", "M_m", "MI_m", "SS_m"}

Entry == [DirState : DirState, Sharers : SUBSET Cache, Owner : SUBSET Cache]

MemoryMsg ==
  [Type : {"MEMORY_READ", "MEMORY_WB"}, addr : Addr,
   OriginalRequestor : Cache, DataBlk : Data]

count(netDest) == Cardinality(netDest)

dirState(a) == directory[a].DirState

-----------------------------------------------------------------------------
(* SLICC actions on an entry e, for a message of requestor r.              *)

setDirState(e, s) == [e EXCEPT !.DirState = s]

addReqToSharers(e, r) == [e EXCEPT !.Sharers = @ \cup {r}]
removeReqFromSharers_Skipped(e, r) == e              \* seeded fault
removeReqFromSharers(e, r) == [e EXCEPT !.Sharers = @ \ {r}]
clearSharers_Skipped(e) == e                         \* seeded fault
clearSharers(e) == [e EXCEPT !.Sharers = {}]

setOwner(e, r) == [e EXCEPT !.Owner = @ \cup {r}]
clearOwner_Skipped(e) == e                           \* seeded fault
clearOwner(e) == [e EXCEPT !.Owner = {}]
addOwnerToSharers_Skipped(e) == e                    \* seeded fault
addOwnerToSharers(e) == [e EXCEPT !.Sharers = @ \cup e.Owner]

(* The entry once the transition's actions have made it e: next state s.   *)
UpdateEntry(a, e, s) == directory' = [directory EXCEPT ![a] = setDirState(e, s)]

(* SLICC actions that send.                                                *)

queueMemory(type, a, r, d) ==
  memQueue' = memQueue \cup
    {[Type |-> type, addr |-> a, OriginalRequestor |-> r, DataBlk |-> d]}

sendMemRead(m) == queueMemory("MEMORY_READ", m.addr, m.Requestor, ZeroBlock)
sendDataToMem_NoData(m) ==                           \* seeded fault
  queueMemory("MEMORY_WB", m.addr, m.Requestor, ZeroBlock)
sendDataToMem(m) == queueMemory("MEMORY_WB", m.addr, m.Requestor, m.DataBlk)
sendRespDataToMem_NoData(m) ==                       \* seeded fault
  queueMemory("MEMORY_WB", m.addr, m.Sender, ZeroBlock)
sendRespDataToMem_Lost(m) == UNCHANGED memQueue      \* seeded fault
sendRespDataToMem(m) == queueMemory("MEMORY_WB", m.addr, m.Sender, m.DataBlk)

(* One enqueue with a set of destinations delivers a copy to each.         *)
Forward(destination, type, a, r) ==
  forwardToCache' = [c \in Cache |->
    IF c \in destination
      THEN Append(forwardToCache[c],
                  [Type |-> type, addr |-> a, Requestor |-> r])
      ELSE forwardToCache[c]]

sendInvToSharers(e, m) == Forward(e.Sharers, "Inv", m.addr, m.Requestor)
sendFwdGetS(e, m) == Forward(e.Owner, "GetS", m.addr, m.Requestor)
sendFwdGetM_AfterSetOwner(e, m) ==                   \* seeded fault
  Forward(e.Owner \cup {m.Requestor}, "GetM", m.addr, m.Requestor)
sendFwdGetM(e, m) == Forward(e.Owner, "GetM", m.addr, m.Requestor)
sendPutAck_Echo(m) ==                                \* seeded fault
  Forward({m.Requestor}, m.Type, m.addr, Directory)
sendPutAck_Lost(m) == UNCHANGED forwardToCache       \* seeded fault
sendPutAck(m) == Forward({m.Requestor}, "PutAck", m.addr, Directory)

(* Acks tells an owner-to-be how many InvAcks to collect.                  *)
AcksFor_NoCount(e, r) == 0                           \* seeded fault
AcksFor(e, r) == IF r \in e.Owner THEN count(e.Sharers) ELSE 0

sendDataToReq(e, m, d) ==
  LET r == m.OriginalRequestor IN
  responseToCache' = [responseToCache EXCEPT ![r][Directory] = Append(@,
    [Type |-> "Data", addr |-> m.addr, Sender |-> Directory,
     Acks |-> AcksFor(e, r), DataBlk |-> d])]

popRequestQueue == requestFromCache' = Tail(requestFromCache)
popResponseFromCache(c) == responseToDir' = [responseToDir EXCEPT ![c] = Tail(@)]
popMemQueue(m) == memQueue' = memQueue \ {m}

-----------------------------------------------------------------------------
(* request_in: the event a request raises.                                 *)
RequestEvent(m) ==
  LET e == directory[m.addr] IN
  CASE m.Type = "PutS" -> IF count(e.Sharers) = 1
                            THEN "PutSLast" ELSE "PutSNotLast"
    [] m.Type = "PutM" -> IF m.Requestor \in e.Owner
                            THEN "PutMOwner" ELSE "PutMNonOwner"
    [] OTHER -> m.Type

(* request_in asserts that a PutS that finds one sharer is that sharer's.  *)
PutSAssertHolds(m) ==
  m.Type = "PutS" /\ count(directory[m.addr].Sharers) = 1
    => m.Requestor \in directory[m.addr].Sharers

(* The head of request_in raises one of these events in one of these       *)
(* states; a stalled head holds back every request behind it.              *)
Requested(states, events) ==
  /\ requestFromCache # <<>>
  /\ PutSAssertHolds(Head(requestFromCache))
  /\ dirState(Head(requestFromCache).addr) \in states
  /\ RequestEvent(Head(requestFromCache)) \in events

(* transition({I, S}, GetS, S_m)                                           *)
IS_GetS ==
  LET m == Head(requestFromCache)
      e == directory[m.addr] IN
  /\ Requested({"I", "S"}, {"GetS"})
  /\ sendMemRead(m)
  /\ UpdateEntry(m.addr, addReqToSharers(e, m.Requestor), "S_m")
  /\ popRequestQueue
  /\ UNCHANGED <<memory, requestToDir, forwardToCache, responseToDir,
                 responseToCache, panicked>>

(* transition(I, GetM, M_m)                                                *)
I_GetM ==
  LET m == Head(requestFromCache)
      e == directory[m.addr] IN
  /\ Requested({"I"}, {"GetM"})
  /\ sendMemRead(m)
  /\ UpdateEntry(m.addr, setOwner(e, m.Requestor), "M_m")
  /\ popRequestQueue
  /\ UNCHANGED <<memory, requestToDir, forwardToCache, responseToDir,
                 responseToCache, panicked>>

(* transition(S, GetM, M_m)                                                *)
S_GetM ==
  LET m == Head(requestFromCache)
      e == removeReqFromSharers(directory[m.addr], m.Requestor) IN
  /\ Requested({"S"}, {"GetM"})
  /\ sendMemRead(m)
  /\ sendInvToSharers(e, m)
  /\ UpdateEntry(m.addr, setOwner(e, m.Requestor), "M_m")
  /\ popRequestQueue
  /\ UNCHANGED <<memory, requestToDir, responseToDir, responseToCache, panicked>>

(* transition(M, GetS, S_D)                                                *)
M_GetS ==
  LET m == Head(requestFromCache)
      e == directory[m.addr] IN
  /\ Requested({"M"}, {"GetS"})
  /\ sendFwdGetS(e, m)
  /\ UpdateEntry(m.addr,
            clearOwner(addOwnerToSharers(addReqToSharers(e, m.Requestor))),
            "S_D")
  /\ popRequestQueue
  /\ UNCHANGED <<memQueue, memory, requestToDir, responseToDir,
                 responseToCache, panicked>>

(* transition(M, GetM): the directory stays in M, the owner changes.       *)
M_GetM ==
  LET m == Head(requestFromCache)
      e == directory[m.addr] IN
  /\ Requested({"M"}, {"GetM"})
  /\ sendFwdGetM(e, m)
  /\ UpdateEntry(m.addr, setOwner(clearOwner(e), m.Requestor), "M")
  /\ popRequestQueue
  /\ UNCHANGED <<memQueue, memory, requestToDir, responseToDir,
                 responseToCache, panicked>>

(* The put of a cache that is no sharer any more is acknowledged.          *)
StalePut(states) ==
  LET m == Head(requestFromCache) IN
  /\ Requested(states, {"PutSNotLast", "PutSLast", "PutMNonOwner"})
  /\ sendPutAck(m)
  /\ popRequestQueue
  /\ UNCHANGED <<dirVars, requestToDir, responseToDir, responseToCache,
                 panicked>>

(* transition(I, {PutSNotLast, PutSLast, PutMNonOwner})                    *)
I_Put == StalePut({"I"})

(* transition({M, M_m, MI_m}, {PutSNotLast, PutSLast, PutMNonOwner})       *)
M_Put == StalePut({"M", "M_m", "MI_m"})

(* transition({S, S_D, SS_m, S_m}, {PutSNotLast, PutMNonOwner})            *)
Shared_Put ==
  LET m == Head(requestFromCache)
      e == directory[m.addr] IN
  /\ Requested({"S", "S_D", "SS_m", "S_m"}, {"PutSNotLast", "PutMNonOwner"})
  /\ UpdateEntry(m.addr, removeReqFromSharers(e, m.Requestor), e.DirState)
  /\ sendPutAck(m)
  /\ popRequestQueue
  /\ UNCHANGED <<memQueue, memory, requestToDir, responseToDir,
                 responseToCache, panicked>>

(* transition(S, PutSLast, I)                                              *)
S_PutSLast ==
  LET m == Head(requestFromCache)
      e == directory[m.addr] IN
  /\ Requested({"S"}, {"PutSLast"})
  /\ UpdateEntry(m.addr, removeReqFromSharers(e, m.Requestor), "I")
  /\ sendPutAck(m)
  /\ popRequestQueue
  /\ UNCHANGED <<memQueue, memory, requestToDir, responseToDir,
                 responseToCache, panicked>>

(* transition(S_D, PutSLast)                                               *)
S_D_PutSLast ==
  LET m == Head(requestFromCache)
      e == directory[m.addr] IN
  /\ Requested({"S_D"}, {"PutSLast"})
  /\ UpdateEntry(m.addr, removeReqFromSharers(e, m.Requestor), "S_D")
  /\ sendPutAck(m)
  /\ popRequestQueue
  /\ UNCHANGED <<memQueue, memory, requestToDir, responseToDir,
                 responseToCache, panicked>>

(* transition(M, PutMOwner, MI_m)                                          *)
M_PutMOwner ==
  LET m == Head(requestFromCache)
      e == directory[m.addr] IN
  /\ Requested({"M"}, {"PutMOwner"})
  /\ sendDataToMem(m)
  /\ UpdateEntry(m.addr, clearOwner(e), "MI_m")
  /\ sendPutAck(m)
  /\ popRequestQueue
  /\ UNCHANGED <<memory, requestToDir, responseToDir, responseToCache, panicked>>

-----------------------------------------------------------------------------
(* transition(S_D, Data, SS_m): the old owner's copy reaches home.         *)
S_D_Data(c) ==
  LET m == Head(responseToDir[c]) IN
  /\ responseToDir[c] # <<>>
  /\ m.Type = "Data"
  /\ dirState(m.addr) = "S_D"
  /\ sendRespDataToMem(m)
  /\ UpdateEntry(m.addr, directory[m.addr], "SS_m")
  /\ popResponseFromCache(c)
  /\ UNCHANGED <<memory, requestToDir, requestFromCache, forwardToCache,
                 responseToCache, panicked>>

(* transition(S_m, MemData, S)                                             *)
S_m_MemData(m) ==
  /\ m.Type = "MEMORY_READ"
  /\ dirState(m.addr) = "S_m"
  /\ sendDataToReq(directory[m.addr], m, memory[m.addr])
  /\ UpdateEntry(m.addr, directory[m.addr], "S")
  /\ popMemQueue(m)
  /\ UNCHANGED <<memory, requestToDir, requestFromCache, forwardToCache,
                 responseToDir, panicked>>

(* transition(M_m, MemData, M)                                             *)
M_m_MemData(m) ==
  /\ m.Type = "MEMORY_READ"
  /\ dirState(m.addr) = "M_m"
  /\ sendDataToReq(directory[m.addr], m, memory[m.addr])
  /\ UpdateEntry(m.addr, clearSharers(directory[m.addr]), "M")
  /\ popMemQueue(m)
  /\ UNCHANGED <<memory, requestToDir, requestFromCache, forwardToCache,
                 responseToDir, panicked>>

(* The write is complete.                                                  *)
MemAck(m, from, to) ==
  /\ m.Type = "MEMORY_WB"
  /\ dirState(m.addr) = from
  /\ memory' = [memory EXCEPT ![m.addr] = m.DataBlk]
  /\ UpdateEntry(m.addr, directory[m.addr], to)
  /\ popMemQueue(m)
  /\ UNCHANGED <<channels, panicked>>

MI_m_MemAck(m) == MemAck(m, "MI_m", "I")            \* transition(MI_m, MemAck, I)
SS_m_MemAck(m) == MemAck(m, "SS_m", "S")            \* transition(SS_m, MemAck, S)

-----------------------------------------------------------------------------
(* The states that have a transition (a stall included) for each event;    *)
(* any other pair is the "Invalid transition" panic of the generated code. *)
DirTransitions ==
  [GetS |-> DirState, GetM |-> DirState,
   PutSNotLast |-> DirState, PutMNonOwner |-> DirState,
   PutSLast |-> DirState \ {"SS_m", "S_m"}, PutMOwner |-> {"M"},
   Data |-> {"S_D"}, MemData |-> {"S_m", "M_m"}, MemAck |-> {"MI_m", "SS_m"}]

RequestFault ==
  LET m == Head(requestFromCache) IN
  CASE requestFromCache = <<>> -> NoPanic
    [] requestFromCache # <<>> /\ ~PutSAssertHolds(m) ->
         <<dirState(m.addr), "assert PutS of a sharer">>
    [] OTHER ->
         Undefined(DirTransitions, dirState(m.addr), RequestEvent(m))

DirResponseFault(c) ==
  LET m == Head(responseToDir[c]) IN
  IF responseToDir[c] = <<>> THEN NoPanic
  ELSE IF m.Type # "Data" THEN <<dirState(m.addr), "error message type">>
  ELSE Undefined(DirTransitions, dirState(m.addr), "Data")

MemoryFault(m) ==
  Undefined(DirTransitions, dirState(m.addr),
            IF m.Type = "MEMORY_READ" THEN "MemData" ELSE "MemAck")

DirFaults ==
  ({RequestFault} \cup {DirResponseFault(c) : c \in Cache}
     \cup {MemoryFault(m) : m \in memQueue}) \ {NoPanic}

-----------------------------------------------------------------------------
RequestStep ==
  \/ IS_GetS \/ I_GetM \/ S_GetM \/ M_GetS \/ M_GetM
  \/ I_Put \/ M_Put \/ Shared_Put \/ S_PutSLast \/ S_D_PutSLast
  \/ M_PutMOwner

MemoryStep(m) ==
  S_m_MemData(m) \/ M_m_MemData(m) \/ MI_m_MemAck(m) \/ SS_m_MemAck(m)

DirNext ==
  \/ RequestStep
  \/ \E c \in Cache : S_D_Data(c)
  \/ \E m \in memQueue : MemoryStep(m)

DirTypeOK ==
  /\ directory \in [Addr -> Entry]
  /\ memQueue \in SUBSET MemoryMsg
  /\ memory \in [Addr -> Data]

DirInit ==
  /\ directory = [a \in Addr |->
                   [DirState |-> "I", Sharers |-> {}, Owner |-> {}]]
  /\ memQueue = {}
  /\ memory = [a \in Addr |-> ZeroBlock]

=============================================================================
