--------------------------- MODULE MSIProperties ---------------------------
(***************************************************************************)
(* What makes the MSI protocol correct.                                    *)
(***************************************************************************)
EXTENDS MSI

CONSTANT Nothing   \* the view of a cache without read permission

ASSUME NothingIsNoData == Nothing \notin Data

-----------------------------------------------------------------------------
(* Permissions and data.                                                   *)

(* The states with AccessPermission Read_Only or Read_Write.               *)
Readable == {"S", "SM_AD", "SM_A", "M"}

(* Single writer, multiple readers: while a cache holds a line in M no     *)
(* other cache may read it.  The caches get there by messages of three     *)
(* senders on three virtual networks, in any order.                        *)
SWMR ==
  \A a \in Addr : \A c \in Cache :
    LineState(c, a) = "M" =>
      \A d \in Cache \ {c} : LineState(d, a) \notin Readable

(* A block a CPU may read holds what the last store to the line wrote,     *)
(* whether it came from memory, from an owner, or was kept through an      *)
(* upgrade.                                                                *)
DataValue ==
  \A a \in Addr : \A c \in Cache :
    LineState(c, a) \in Readable => line[c][a].DataBlk = latest[a]

(* The caches implement one coherent memory.                               *)
View ==
  [c \in Cache |-> [a \in Addr |->
    IF LineState(c, a) \in Readable THEN line[c][a].DataBlk ELSE Nothing]]

Abstract == INSTANCE CoherentMemory
              WITH pending <- outstanding, view <- View, value <- latest

(* Every behaviour of the protocol is one of the coherent memory: loads    *)
(* return the last store, stores exclude readers, and each request of the  *)
(* sequencer is answered by the callback of its own type, once.            *)
ImplementsCoherentMemory == Abstract!Spec

-----------------------------------------------------------------------------
(* What is in flight for line a.                                           *)

Indices(q, Test(_)) == {i \in DOMAIN q : Test(q[i])}

(* Where the request of cache c for line a is: with the directory to come, *)
(* at memory, with the owner to come, or answered by data under way.       *)
RequestPlaces(c, a) ==
  LET Get(m) == m.addr = a /\ m.Requestor = c /\ m.Type \in {"GetS", "GetM"}
      DataFor(m) == m.addr = a /\ m.Type = "Data"
  IN  {<<"sent", c, i>> : i \in Indices(requestToDir[c], Get)}
        \cup {<<"arrived", c, i>> : i \in Indices(requestFromCache, Get)}
        \cup {<<"memory", c, 1>> : m \in
                {m \in memQueue : /\ m.Type = "MEMORY_READ" /\ m.addr = a
                                  /\ m.OriginalRequestor = c}}
        \cup (UNION {{<<"forwarded", d, i>> :
                        i \in Indices(forwardToCache[d], Get)} : d \in Cache})
        \cup (UNION {{<<"answered", s, i>> :
                        i \in Indices(responseToCache[c][s], DataFor)} :
                     s \in Machine})

(* Where the put of cache c for line a, or its acknowledgement, is.        *)
PutPlaces(c, a) ==
  LET Put(m) == m.addr = a /\ m.Requestor = c /\ m.Type \in {"PutS", "PutM"}
      Acked(m) == m.addr = a /\ m.Type = "PutAck"
  IN  {<<"sent", i>> : i \in Indices(requestToDir[c], Put)}
        \cup {<<"arrived", i>> : i \in Indices(requestFromCache, Put)}
        \cup {<<"acked", i>> : i \in Indices(forwardToCache[c], Acked)}

(* A cache that waits for data has its request in exactly one place, and a *)
(* cache that does not wait has none: no request is lost, served twice, or *)
(* left behind to answer a later one.  Likewise for puts.                  *)
OneAnswerPerRequest ==
  \A c \in Cache, a \in Addr :
    /\ Cardinality(RequestPlaces(c, a)) =
         IF LineState(c, a) \in {"IS_D", "IM_AD", "SM_AD"} THEN 1 ELSE 0
    /\ Cardinality(PutPlaces(c, a)) =
         IF LineState(c, a) \in {"MI_A", "SI_A", "II_A"} THEN 1 ELSE 0

(* The Invs sent on behalf of c, and the InvAcks under way to it.          *)
AcksOwed(c, a) ==
  LET Inv(m) == m.addr = a /\ m.Type = "Inv" /\ m.Requestor = c
      Acked(m) == m.addr = a /\ m.Type = "InvAck"
  IN  UNION {{<<"inv", d, i>> : i \in Indices(forwardToCache[d], Inv)}
               \cup {<<"ack", d, i>> :
                       i \in Indices(responseToCache[c][d], Acked)} :
             d \in Cache}

(* How many acks c counts on: those its TBE has still to see, those the    *)
(* directory's data will tell it of, and those the directory will count    *)
(* when memory answers.  (InvAcks that came first make the TBE negative.)  *)
AcksCounted(c, a) ==
  LET q == responseToCache[c][Directory]
      told == {i \in DOMAIN q : q[i].addr = a}
  IN  line[c][a].AcksOutstanding
        + (IF told = {} THEN 0 ELSE q[CHOOSE i \in told : TRUE].Acks)
        + (IF directory[a].DirState = "M_m"
             THEN AcksFor(directory[a], c) ELSE 0)

(* The count of acks is exact at all times, in whatever order the data and *)
(* the InvAcks arrive: a writer neither starts early nor waits for ever.   *)
AcksAccounted ==
  \A c \in Cache, a \in Addr :
    AcksCounted(c, a) = Cardinality(AcksOwed(c, a))

-----------------------------------------------------------------------------
(* Directory and caches.                                                   *)

(* Owner and Sharers fit the directory's state: what setState asserts of M *)
(* and I, what sendFwdGetS, sendFwdGetM and addOwnerToSharers assert of    *)
(* the owner, and an owner-to-be that is not asked to invalidate itself.   *)
EntryConsistent(e) ==
  /\ e.DirState = "I" => e.Owner = {} /\ e.Sharers = {}
  /\ e.DirState = "MI_m" => e.Owner = {} /\ e.Sharers = {}
  /\ e.DirState = "M" => count(e.Owner) = 1 /\ e.Sharers = {}
  /\ e.DirState = "M_m" => count(e.Owner) = 1 /\ e.Owner \cap e.Sharers = {}
  /\ e.DirState \in {"S", "S_m", "S_D", "SS_m"} => e.Owner = {}

DirectoryConsistent == \A a \in Addr : EntryConsistent(directory[a])

(* The directory waits for memory exactly while one request for the line   *)
(* is there, of the kind its state waits for; a new owner is the cache the *)
(* read is for, which is how sendDataToReq knows to count acks for it.     *)
MemoryConsistent(e, queued) ==
  LET One(type) == \E m \in queued : queued = {m} /\ m.Type = type IN
  /\ e.DirState \in {"S_m", "M_m"} => One("MEMORY_READ")
  /\ e.DirState \in {"MI_m", "SS_m"} => One("MEMORY_WB")
  /\ e.DirState \in {"I", "S", "M", "S_D"} => queued = {}
  /\ e.DirState = "M_m" =>
       \A m \in queued : e.Owner = {m.OriginalRequestor}

AtMemory(a) == {m \in memQueue : m.addr = a}

OneMemoryRequest == \A a \in Addr : MemoryConsistent(directory[a], AtMemory(a))

(* The directory can reach every copy: a cache that may read is a sharer   *)
(* or the owner, or the message that takes its copy away is on its way.    *)
CopiesTracked ==
  \A c \in Cache, a \in Addr :
    LET Coming(types) ==
          \E i \in DOMAIN forwardToCache[c] :
            /\ forwardToCache[c][i].addr = a
            /\ forwardToCache[c][i].Type \in types
    IN  /\ LineState(c, a) = "S" =>
             c \in directory[a].Sharers \/ Coming({"Inv"})
        /\ LineState(c, a) = "M" =>
             c \in directory[a].Owner \/ Coming({"GetS", "GetM"})

(* No message for line a anywhere.                                         *)
Quiet(a) ==
  LET Silent(q) == \A i \in DOMAIN q : q[i].addr # a IN
  /\ Silent(requestFromCache)
  /\ \A m \in memQueue : m.addr # a
  /\ \A c \in Cache :
       /\ Silent(requestToDir[c])
       /\ Silent(forwardToCache[c])
       /\ Silent(responseToDir[c])
       /\ \A s \in Machine : Silent(responseToCache[c][s])

(* When nothing is in flight for a line, no controller waits for anything, *)
(* the directory names exactly the caches that hold the line, and memory   *)
(* is up to date unless an owner is.                                       *)
QuietAgreement ==
  \A a \in Addr : Quiet(a) =>
    LET e == directory[a]
        Holding(state) == {c \in Cache : LineState(c, a) = state}
    IN  /\ \A c \in Cache : LineState(c, a) \in {"I", "S", "M"}
        /\ e.DirState \in {"I", "S", "M"}
        /\ Holding("S") = e.Sharers
        /\ Holding("M") = e.Owner
        /\ e.Owner = {} => memory[a] = latest[a]

(* MSI-msg.sm on functional accesses: "Requests should never have the only *)
(* copy of the most up-to-date data".  It is in a block, in a response or  *)
(* at memory, even while a PutM carries it.                                *)
RequestsNeverOnlyCopy ==
  \A a \in Addr :
    \/ memory[a] = latest[a]
    \/ \E m \in memQueue : m.Type = "MEMORY_WB" /\ m.addr = a
                            /\ m.DataBlk = latest[a]
    \/ \E c \in Cache : line[c][a].block /\ line[c][a].DataBlk = latest[a]
    \/ \E c \in Cache :
         \E q \in {responseToDir[c]} \cup {responseToCache[c][s] : s \in Machine} :
           \E i \in DOMAIN q : q[i].addr = a /\ q[i].Type = "Data"
                                 /\ q[i].DataBlk = latest[a]

-----------------------------------------------------------------------------
(* Blocks, TBEs and assertions.                                            *)

(* What the actions assert with is_valid: a line has a TBE while it counts *)
(* acks or waits for data, and a block in every state but I; a request of  *)
(* the sequencer waits where, and only where, a callback is due for it.    *)
AllocationMatchesState ==
  \A c \in Cache, a \in Addr :
    LET l == line[c][a]
        queued == \E i \in DOMAIN mandatoryQueue[c] :
                    mandatoryQueue[c][i].LineAddress = a
    IN  /\ l.tbe <=> l.State \in Stalled \cup {"IS_D"}
        /\ l.block <=> l.State # "I"
        /\ Cardinality(Blocks(c)) <= Ways
        /\ l.State = "IS_D" => outstanding[c][a] = "Load" /\ ~queued
        /\ l.State \in Stalled => outstanding[c][a] = "Store" /\ ~queued
        /\ outstanding[c][a] # "None" => queued \/ l.tbe

(* No assertion fails and no event finds a state without a transition.     *)
PanicFree == panicked = NoPanic

(* The caches never do so, and the directory only when a PutS arrives      *)
(* while one sharer is left: it is not the sender's, or it is and the data *)
(* for the last reader is still being written to memory (see the runs that *)
(* show it do so).  While memory is read the reader is the last sharer, so *)
(* no PutS finds the directory in S_m that it has no transition for.       *)
OnlyPutSPanics ==
  panicked # NoPanic =>
    \/ panicked[2] = "assert PutS of a sharer"
    \/ panicked[1] = "SS_m" /\ panicked[2] = "PutSLast"

(* MSI-dir.sm: "If there is only a single sharer (i.e., the requestor)" a  *)
(* PutS is the sharer's own.                                               *)
PutSIsOfTheSharer == panicked # NoPanic => panicked[2] = "PutSLast"

(* MSI-dir.sm: "If we get another request for a block that's waiting on    *)
(* memory, stall that request": none ends the simulation.                  *)
WaitingOnMemoryStalls ==
  panicked # NoPanic => panicked[1] \notin {"SS_m", "S_m"}
                          \/ panicked[2] # "PutSLast"

-----------------------------------------------------------------------------
(* Liveness.                                                               *)

(* Every request of a CPU is answered, or an assertion ends the            *)
(* simulation: the stalls of the three virtual networks never wait on each *)
(* other in a circle, across lines and caches.                             *)
RequestsAnswered ==
  \A c \in Cache, a \in Addr :
    outstanding[c][a] # "None" ~> outstanding[c][a] = "None" \/ ~PanicFree

(* Every eviction is acknowledged, or an assertion ends the simulation.    *)
EvictionsEnd ==
  \A c \in Cache, a \in Addr :
    LineState(c, a) \in {"MI_A", "SI_A", "II_A"} ~>
      LineState(c, a) = "I" \/ ~PanicFree

=============================================================================
