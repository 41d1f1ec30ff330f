--------------------------- MODULE MSIDataProofs ---------------------------
(***************************************************************************)
(* The data of the MSI protocol, for any number of caches, lines and       *)
(* values: DataInv says where the value of the last store is while the     *)
(* caches, the directory and memory pass a line on.                        *)
(*                                                                         *)
(* Each handler keeps DataInv, with what MSICoherenceProofs says of the    *)
(* stages of the line.  It follows that a CPU reads the last store, that   *)
(* the data is never in a request alone, that controllers agree once a     *)
(* line is quiet, and that the protocol implements CoherentMemory.         *)
(***************************************************************************)
EXTENDS MSICoherenceProofs

-----------------------------------------------------------------------------
(* The invariant.                                                          *)

(* The states in which the block holds the line's data.                    *)
Copied == {"S", "SM_AD", "SM_A", "IM_A", "M"}

(* Of the forwards F for a line that it is evicting, a cache finds one to  *)
(* answer, or has no acknowledgement of its PutM yet.                      *)
MustAnswer(F) ==
  \/ \A m \in F : m.Type # "PutAck"
  \/ \E m \in F : m.Type \in {"GetS", "GetM"}

(* Cache c has the latest data of line a in its block, though it may not   *)
(* be allowed to read it.                                                  *)
HasLatest(c, a) ==
  \/ LineState(c, a) \in Copied
  \/ LineState(c, a) = "MI_A" /\ MustAnswer(ForwardsOf(a)[c])

(* Channel q brings the data of v: what v has for each line.               *)
Fresh(q, v) == \A i \in DOMAIN q : q[i].Type = "Data" => q[i].DataBlk = v[q[i].addr]

(* Where v has the line's data: in the blocks, in the answers to caches,   *)
(* in what owners send home, at memory to be written, and in memory.       *)
LinesFresh ==
  \A c \in Cache, a \in Addr : HasLatest(c, a) => line[c][a].DataBlk = latest[a]
AnswersFresh(q, v) == \A c \in Cache, s \in Machine : Fresh(q[c][s], v)
HomesFresh(q, v) == \A c \in Cache : Fresh(q[c], v)
WritesFresh(q, v) == \A m \in q : m.Type = "MEMORY_WB" => m.DataBlk = v[m.addr]
MemoryFresh(dir, mem, v) ==
  \A a \in Addr : dir[a].DirState \in {"I", "S", "S_m", "M_m"} => mem[a] = v[a]

(* The PutM of a cache that still owns the line carries its block.         *)
PutCarries(m) ==
  m.Type = "PutM" /\ LineState(m.Requestor, m.addr) = "MI_A" =>
    m.DataBlk = line[m.Requestor][m.addr].DataBlk
PutsCarry ==
  \A a \in Addr :
    /\ \A c \in Cache : \A m \in SentOf(a)[c] : PutCarries(m)
    /\ \A m \in ArrivedOf(a) : PutCarries(m)

(* The data is where the state of the caches and the directory says.       *)
DataInv ==
  /\ LinesFresh
  /\ AnswersFresh(responseToCache, latest)
  /\ HomesFresh(responseToDir, latest)
  /\ WritesFresh(memQueue, latest)
  /\ MemoryFresh(directory, memory, latest)
  /\ PutsCarry

-----------------------------------------------------------------------------
(* Channels.                                                               *)

(* A message sent leaves the channel fresh if it is.                       *)
LEMMA FreshAppend ==
  ASSUME NEW S, NEW q \in Seq(S), NEW m \in S, NEW v, Fresh(q, v),
         m.Type = "Data" => m.DataBlk = v[m.addr]
  PROVE  Fresh(Append(q, m), v)
<1> DEFINE r == Append(q, m)
<1>1. /\ DOMAIN r = 1..(Len(q) + 1) /\ DOMAIN q = 1..Len(q) /\ Len(q) \in Nat
      /\ r[Len(q) + 1] = m
      /\ \A i \in DOMAIN q : r[i] = q[i]
  OBVIOUS
<1> HIDE DEF r
<1>2. Fresh(r, v)
  BY <1>1 DEF Fresh
<1> QED
  BY <1>2 DEF r

(* The first of a fresh channel is, and so is the rest.                    *)
LEMMA FreshTail ==
  ASSUME NEW S, NEW q \in Seq(S), q # <<>>, NEW v, Fresh(q, v)
  PROVE  /\ Fresh(Tail(q), v)
         /\ Head(q).Type = "Data" => Head(q).DataBlk = v[Head(q).addr]
<1> DEFINE r == Tail(q)
           h == Head(q)
<1>1. /\ DOMAIN r = 1..(Len(q) - 1) /\ DOMAIN q = 1..Len(q) /\ Len(q) \in Nat \ {0}
      /\ \A i \in DOMAIN r : r[i] = q[i + 1]
      /\ h = q[1]
  OBVIOUS
<1> HIDE DEF r, h
<1>2. Fresh(r, v)
  BY <1>1 DEF Fresh
<1>3. h.Type = "Data" => h.DataBlk = v[h.addr]
  BY <1>1 DEF Fresh
<1> QED
  BY <1>2, <1>3 DEF r, h

(* Machine s sends cache x the response r.                                 *)
SendsAnswer(x, s, r) ==
  responseToCache' = [responseToCache EXCEPT ![x][s] = Append(@, r)]

(* Likewise for one channel of those between machines and caches.          *)
LEMMA AnswersSent ==
  ASSUME TypeOK, NEW v, AnswersFresh(responseToCache, v),
         NEW x \in Cache, NEW s \in Machine, NEW r \in ResponseMsg,
         r.Type = "Data" => r.DataBlk = v[r.addr], SendsAnswer(x, s, r)
  PROVE  AnswersFresh(responseToCache', v)
<1>1. responseToCache \in [Cache -> [Machine -> Seq(ResponseMsg)]]
  BY DEF TypeOK, ChannelsTypeOK
<1>2. /\ responseToCache'[x][s] = Append(responseToCache[x][s], r)
      /\ responseToCache[x][s] \in Seq(ResponseMsg)
      /\ \A y \in Cache, z \in Machine :
           y # x \/ z # s => responseToCache'[y][z] = responseToCache[y][z]
  BY <1>1, Zenon DEF SendsAnswer
<1>3. Fresh(responseToCache'[x][s], v)
  <2>1. Fresh(responseToCache[x][s], v)
    BY DEF AnswersFresh
  <2> QED
    BY <1>2, <2>1, FreshAppend
<1> QED
  BY <1>2, <1>3 DEF AnswersFresh

(* A cache that takes a response finds the latest data in it.              *)
LEMMA AnswersTaken ==
  ASSUME TypeOK, NEW v, AnswersFresh(responseToCache, v),
         NEW c \in Cache, NEW s \in Machine, responseToCache[c][s] # <<>>,
         NEW m, m = Head(responseToCache[c][s]), popResponseQueue(c, s)
  PROVE  /\ AnswersFresh(responseToCache', v)
         /\ m.Type = "Data" => m.DataBlk = v[m.addr]
<1>1. responseToCache \in [Cache -> [Machine -> Seq(ResponseMsg)]]
      /\ responseToCache' = [responseToCache EXCEPT ![c][s] = Tail(@)]
  BY DEF TypeOK, ChannelsTypeOK, popResponseQueue
<1>2. /\ responseToCache'[c][s] = Tail(responseToCache[c][s])
      /\ responseToCache[c][s] \in Seq(ResponseMsg)
      /\ \A y \in Cache, z \in Machine :
           y # c \/ z # s => responseToCache'[y][z] = responseToCache[y][z]
  BY <1>1, Zenon
<1>3. /\ Fresh(responseToCache'[c][s], v)
      /\ m.Type = "Data" => m.DataBlk = v[m.addr]
  <2>1. Fresh(responseToCache[c][s], v)
    BY DEF AnswersFresh
  <2> QED
    BY <1>2, <2>1, FreshTail
<1> QED
  BY <1>2, <1>3 DEF AnswersFresh

(* And for those from caches to the directory.                             *)
LEMMA HomesSent ==
  ASSUME TypeOK, NEW v, HomesFresh(responseToDir, v),
         NEW c \in Cache, NEW r \in CacheResponse,
         r.Type = "Data" => r.DataBlk = v[r.addr],
         responseToDir' = [responseToDir EXCEPT ![c] = Append(@, r)]
  PROVE  HomesFresh(responseToDir', v)
<1>1. responseToDir \in [Cache -> Seq(CacheResponse)]
  BY DEF TypeOK, ChannelsTypeOK
<1>2. /\ responseToDir'[c] = Append(responseToDir[c], r)
      /\ responseToDir[c] \in Seq(CacheResponse)
      /\ \A y \in Cache : y # c => responseToDir'[y] = responseToDir[y]
  BY <1>1, Zenon
<1>3. Fresh(responseToDir'[c], v)
  <2>1. Fresh(responseToDir[c], v)
    BY DEF HomesFresh
  <2> QED
    BY <1>2, <2>1, FreshAppend
<1> QED
  BY <1>2, <1>3 DEF HomesFresh

(* So does the directory.                                                  *)
LEMMA HomesTaken ==
  ASSUME TypeOK, NEW v, HomesFresh(responseToDir, v),
         NEW c \in Cache, responseToDir[c] # <<>>,
         NEW m, m = Head(responseToDir[c]),
         responseToDir' = [responseToDir EXCEPT ![c] = Tail(@)]
  PROVE  /\ HomesFresh(responseToDir', v)
         /\ m.Type = "Data" => m.DataBlk = v[m.addr]
<1>1. responseToDir \in [Cache -> Seq(CacheResponse)]
  BY DEF TypeOK, ChannelsTypeOK
<1>2. /\ responseToDir'[c] = Tail(responseToDir[c])
      /\ responseToDir[c] \in Seq(CacheResponse)
      /\ \A y \in Cache : y # c => responseToDir'[y] = responseToDir[y]
  BY <1>1, Zenon
<1>3. /\ Fresh(responseToDir'[c], v)
      /\ m.Type = "Data" => m.DataBlk = v[m.addr]
  <2>1. Fresh(responseToDir[c], v)
    BY DEF HomesFresh
  <2> QED
    BY <1>2, <2>1, FreshTail
<1> QED
  BY <1>2, <1>3 DEF HomesFresh

-----------------------------------------------------------------------------
(* Blocks.                                                                 *)

(* A step of one cache's block and TBE changes no other.                   *)
LEMMA BlockUpdated ==
  ASSUME TypeOK, NEW c \in Cache, NEW a \in Addr, NEW l, NEW s, Update(c, a, l, s)
  PROVE  /\ line'[c][a] = setState(l, s)
         /\ \A y \in Cache, b \in Addr :
              y # c \/ b # a => line'[y][b] = line[y][b]
<1> DEFINE k == setState(l, s)
<1>1. line \in [Cache -> [Addr -> Line]]
  BY DEF TypeOK, CacheTypeOK
<1>2. line' = [line EXCEPT ![c] = [line[c] EXCEPT ![a] = k]]
  BY <1>1, Zenon DEF Update
<1> HIDE DEF k
<1>3. /\ line'[c] = [line[c] EXCEPT ![a] = k] /\ line[c] \in [Addr -> Line]
      /\ \A y \in Cache : y # c => line'[y] = line[y]
  BY <1>1, <1>2, Zenon
<1>4. /\ line'[c][a] = k
      /\ \A b \in Addr : b # a => line'[c][b] = line[c][b]
  BY <1>3, Zenon
<1>5. line'[c][a] = setState(l, s)
  BY <1>4 DEF k
<1>6. \A y \in Cache, b \in Addr : y # c \/ b # a => line'[y][b] = line[y][b]
  BY <1>3, <1>4, Zenon
<1> QED
  BY <1>5, <1>6

(* What may change of the other caches and lines.                          *)
OthersKept(c, a) ==
  \A y \in Cache, b \in Addr : y # c \/ b # a =>
    /\ line'[y][b] = line[y][b]
    /\ LineState(y, b) = "MI_A" /\ MustAnswer(ForwardsOf(b)'[y])
         => MustAnswer(ForwardsOf(b)[y])

(* A step that changes no latest data keeps the blocks fresh if it does so *)
(* where it changes one.                                                   *)
LEMMA BlocksFresh ==
  ASSUME LinesFresh, UNCHANGED latest, NEW c \in Cache, NEW a \in Addr, OthersKept(c, a),
         HasLatest(c, a)' => line'[c][a].DataBlk = latest[a]
  PROVE  LinesFresh'
<1>1. ASSUME NEW y \in Cache, NEW b \in Addr, y # c \/ b # a, HasLatest(y, b)'
      PROVE  line'[y][b].DataBlk = latest[b]
  <2>1. line'[y][b] = line[y][b]
    BY <1>1 DEF OthersKept
  <2>2. HasLatest(y, b)
    BY <1>1, <2>1 DEF OthersKept, HasLatest, LineState
  <2> QED
    BY <2>1, <2>2 DEF LinesFresh
<1> QED
  BY <1>1 DEF LinesFresh

(* The PutMs sent before carry their blocks after a step of c that does    *)
(* not bring line a to MI_A.                                               *)
LEMMA PutsKept ==
  ASSUME TypeOK, PutsCarry, NEW c \in Cache, NEW a \in Addr,
         \A y \in Cache, b \in Addr : y # c \/ b # a => line'[y][b] = line[y][b],
         \/ LineState(c, a)' # "MI_A"
         \/ line'[c][a] = line[c][a],
         \A b \in Addr : ArrivedOf(b)' \subseteq ArrivedOf(b)
                           \cup UNION {SentOf(b)[y] : y \in Cache},
         \A b \in Addr, y \in Cache : \A m \in SentOf(b)'[y] :
           m \in SentOf(b)[y] \/ PutCarries(m)'
  PROVE  PutsCarry'
<1>1. ASSUME NEW m \in RequestMsg, PutCarries(m) PROVE PutCarries(m)'
  <2>1. m.Requestor \in Cache /\ m.addr \in Addr
    BY DEF RequestMsg
  <2> QED
    BY <1>1, <2>1 DEF PutCarries, LineState
<1>2. \A b \in Addr : /\ ArrivedOf(b) \in SUBSET RequestMsg
                      /\ \A y \in Cache : SentOf(b)[y] \in SUBSET RequestMsg
  BY LineIsTyped DEF LineTyped, SentType
<1>3. ASSUME NEW b \in Addr, NEW y \in Cache, NEW m \in SentOf(b)'[y] PROVE PutCarries(m)'
  BY <1>1, <1>2, <1>3 DEF PutsCarry
<1>4. ASSUME NEW b \in Addr, NEW m \in ArrivedOf(b)' PROVE PutCarries(m)'
  <2>1. m \in ArrivedOf(b) \/ \E y \in Cache : m \in SentOf(b)[y]
    BY <1>4
  <2> QED
    BY <1>1, <1>2, <2>1 DEF PutsCarry
<1> QED
  BY <1>3, <1>4 DEF PutsCarry

-----------------------------------------------------------------------------
(* Steps of the mandatory queue.                                           *)

(* A step that leaves blocks, channels, directory and memory alone.        *)
LEMMA NothingMoved ==
  ASSUME DataInv, UNCHANGED <<line, latest, channels, dirVars>>
  PROVE  DataInv'
<1>1. UNCHANGED <<line, latest, requestToDir, requestFromCache, forwardToCache,
                  responseToDir, responseToCache, directory, memQueue, memory>>
  BY DEF channels, dirVars
<1>2. \A a \in Addr : /\ SentOf(a)' = SentOf(a) /\ ArrivedOf(a)' = ArrivedOf(a)
                      /\ ForwardsOf(a)' = ForwardsOf(a)
  BY <1>1, Untouched
<1>3. LinesFresh'
  BY <1>1, <1>2 DEF DataInv, LinesFresh, HasLatest, LineState
<1>4. PutsCarry'
  <2>1. \A m : PutCarries(m) => PutCarries(m)'
    BY <1>1 DEF PutCarries, LineState
  <2> QED
    BY <1>2, <2>1 DEF DataInv, PutsCarry
<1> QED
  BY <1>1, <1>3, <1>4 DEF DataInv

(* The PutMs of line a that are on their way.                              *)
LEMMA SentBy ==
  ASSUME TypeOK, LinesInv, NEW a \in Addr
  PROVE  /\ \A c \in Cache : \A m \in SentOf(a)[c] :
              /\ m \in RequestMsg /\ m.addr = a /\ m.Requestor = c
              /\ LineState(c, a) \notin {"I", "S", "M"}
         /\ \A m \in ArrivedOf(a) :
              /\ m \in RequestMsg /\ m.addr = a /\ m.Requestor \in Cache
              /\ LineState(m.Requestor, a) \notin {"I", "S", "M"}
<1>1. PICK stage \in StageType, by \in ByType,
           chain \in Seq(Cache), inv \in SUBSET Cache, ack \in SUBSET Cache :
        LineInvNow(a, stage, by, chain, inv, ack)
  BY Witnesses
<1>2. /\ SentOK(SentOf(a), StateOf(a), stage)
      /\ ArrivedOK(ArrivedOf(a), StateOf(a), stage)
      /\ StageOK(StateOf(a), stage)
  BY <1>1, Zenon DEF LineInvNow, LineInv
<1>3. /\ ArrivedOf(a) \in SUBSET RequestMsg
      /\ \A c \in Cache : SentOf(a)[c] \in SUBSET RequestMsg
  BY LineIsTyped DEF LineTyped, SentType
<1>4. /\ \A c \in Cache : \A m \in SentOf(a)[c] : m.addr = a
      /\ \A m \in ArrivedOf(a) : m.addr = a
  BY DEF SentOf, ArrivedOf, LineOf, Messages
<1>5. \A c \in Cache : StateOf(a)[c] = LineState(c, a)
  BY DEF StateOf, LineState
<1>6. \A m \in RequestMsg : m.Requestor \in Cache
  BY DEF RequestMsg
<1> QED
  BY <1>2, <1>3, <1>4, <1>5, <1>6 DEF SentOK, ArrivedOK, StageOK

(* A cache starts a request or a put.                                      *)
LEMMA StartFresh ==
  ASSUME TypeOK, LinesInv, DataInv,
         NEW c \in Cache, NEW a \in Addr, NEW type, NEW d \in Data, NEW l, NEW t,
         SendRequest(c, type, a, d), Update(c, a, l, t),
         Starts(LineState(c, a), type, t), setState(l, t).State = t,
         t \in {"SM_AD", "MI_A"} => setState(l, t).DataBlk = line[c][a].DataBlk,
         type = "PutM" => d = line[c][a].DataBlk,
         UNCHANGED <<latest, requestFromCache, forwardToCache, responseToDir,
                     responseToCache, dirVars>>
  PROVE  DataInv'
<1> DEFINE m == [Type |-> type, addr |-> a, Requestor |-> c, DataBlk |-> d]
<1>1. /\ m \in RequestMsg /\ m.addr = a /\ m.Requestor = c /\ m.Type = type
      /\ m.DataBlk = d
  BY DEF RequestMsg, Starts
<1>2. requestToDir \in [Cache -> Seq(RequestMsg)]
  BY DEF TypeOK, ChannelsTypeOK
<1>3. requestToDir' = [requestToDir EXCEPT ![c] = Append(@, m)]
  BY DEF SendRequest
<1> HIDE DEF m
<1>4. /\ ChangedAt(SentOf(a), SentOf(a)', c, SentOf(a)[c] \cup {m})
      /\ \A b \in Addr : b # a => SentOf(b)' = SentOf(b)
  <2>1. Sends(requestToDir, requestToDir', c, m)
    BY <1>1, <1>2, <1>3, ArrayAppend, Zenon
  <2> QED
    BY <1>1, <2>1 DEF SentOf, Sends
<1>5. /\ line'[c][a].State = t
      /\ t \in {"SM_AD", "MI_A"} => line'[c][a].DataBlk = line[c][a].DataBlk
      /\ \A y \in Cache, b \in Addr : y # c \/ b # a => line'[y][b] = line[y][b]
  BY BlockUpdated
<1>6. \A b : ForwardsOf(b)' = ForwardsOf(b) /\ ArrivedOf(b)' = ArrivedOf(b)
  BY Untouched
<1>7. LinesFresh'
  <2>1. OthersKept(c, a)
    BY <1>5, <1>6 DEF OthersKept
  <2>2. HasLatest(c, a)' => line'[c][a].DataBlk = latest[a]
    <3>1. HasLatest(c, a)' => t \in {"SM_AD", "MI_A"} /\ LineState(c, a) \in {"S", "M"}
      BY <1>5 DEF HasLatest, LineState, Copied, Starts
    <3>2. LineState(c, a) \in {"S", "M"} => line[c][a].DataBlk = latest[a]
      BY DEF DataInv, LinesFresh, HasLatest, Copied
    <3> QED
      BY <1>5, <3>1, <3>2
  <2> QED
    BY <2>1, <2>2, BlocksFresh DEF DataInv
<1>8. PutCarries(m)'
  BY <1>1, <1>5 DEF PutCarries, LineState, Starts
<1>9. ASSUME NEW k \in RequestMsg, k.Requestor # c \/ k.addr # a, PutCarries(k)
      PROVE  PutCarries(k)'
  <2>1. k.Requestor \in Cache /\ k.addr \in Addr
    BY DEF RequestMsg
  <2> QED
    BY <1>5, <1>9, <2>1 DEF PutCarries, LineState
<1>10. LineState(c, a) \in {"I", "S", "M"}
  BY DEF Starts
<1>11. PutsCarry'
  <2>1. ASSUME NEW b \in Addr, NEW y \in Cache, NEW k \in SentOf(b)'[y]
        PROVE  PutCarries(k)'
    <3>1. k = m \/ k \in SentOf(b)[y]
      BY <1>4, <2>1 DEF ChangedAt
    <3>2. CASE k \in SentOf(b)[y]
      <4>1. k \in RequestMsg /\ (k.Requestor # c \/ k.addr # a) /\ PutCarries(k)
        BY <1>10, <3>2, SentBy DEF DataInv, PutsCarry
      <4> QED
        BY <1>9, <3>2, <4>1, SentBy
    <3> QED
      BY <1>8, <3>1, <3>2
  <2>2. ASSUME NEW b \in Addr, NEW k \in ArrivedOf(b)'
        PROVE  PutCarries(k)'
    <3>1. k \in ArrivedOf(b)
      BY <1>6, <2>2
    <3>2. k \in RequestMsg /\ PutCarries(k) /\ (k.Requestor # c \/ k.addr # a)
      BY <1>10, <3>1, SentBy DEF DataInv, PutsCarry
    <3> QED
      BY <1>9, <3>2
  <2> QED
    BY <2>1, <2>2 DEF PutsCarry
<1> QED
  BY <1>7, <1>11 DEF DataInv, dirVars

-----------------------------------------------------------------------------
(* Forwards.                                                               *)

(* The forward that c sees first.                                          *)
FirstForward(c, m) ==
  forwardToCache[c] # <<>> /\ m = Head(forwardToCache[c]) /\ m.addr \in Addr

(* A cache takes a forward.                                                *)
LEMMA ForwardMoves ==
  ASSUME TypeOK, ChannelInv, DataInv, NEW c \in Cache, NEW m, NEW a, NEW l, NEW t,
         FirstForward(c, m), a = m.addr, popForwardQueue(c),
         Update(c, a, l, t), setState(l, t).State = t, t # "MI_A",
         t \in Copied => setState(l, t).DataBlk = latest[a],
         UNCHANGED <<latest, requestToDir, requestFromCache>>
  PROVE  LinesFresh' /\ PutsCarry'
<1>1. /\ a \in Addr /\ forwardToCache[c] # <<>> /\ m = Head(forwardToCache[c])
  BY DEF FirstForward
<1>2. Takes(forwardToCache, forwardToCache', c, m)
  BY <1>1, ForwardTaken, Zenon
<1>3. /\ ChangedAt(ForwardsOf(a), ForwardsOf(a)', c, ForwardsOf(a)[c] \ {m})
      /\ \A b : b # a => ForwardsOf(b)' = ForwardsOf(b)
  BY <1>2 DEF Takes, ForwardsOf
<1>4. /\ line'[c][a].State = t
      /\ t \in Copied => line'[c][a].DataBlk = latest[a]
      /\ \A y \in Cache, b \in Addr : y # c \/ b # a => line'[y][b] = line[y][b]
  BY <1>1, BlockUpdated
<1>5. OthersKept(c, a)
  BY <1>3, <1>4 DEF OthersKept, ChangedAt
<1>6. HasLatest(c, a)' => line'[c][a].DataBlk = latest[a]
  BY <1>4 DEF HasLatest, LineState
<1>7. LinesFresh'
  BY <1>1, <1>5, <1>6, BlocksFresh DEF DataInv
<1>8. \A b : SentOf(b)' = SentOf(b) /\ ArrivedOf(b)' = ArrivedOf(b)
  BY Untouched
<1>9. LineState(c, a)' # "MI_A"
  BY <1>4 DEF LineState
<1>10. PutsCarry'
  BY <1>1, <1>4, <1>8, <1>9, PutsKept DEF DataInv
<1> QED
  BY <1>7, <1>10

(* What an owner that is asked for the line has.                           *)
LEMMA OwnerHasLatest ==
  ASSUME TypeOK, ChannelInv, DataInv, NEW c \in Cache, NEW m, NEW a, NEW type,
         ForwardIs(c, m, type), a = m.addr, popForwardQueue(c),
         type \in {"GetS", "GetM"}, LineState(c, a) \in {"M", "MI_A"}
  PROVE  line[c][a].DataBlk = latest[a]
<1>1. /\ a \in Addr /\ forwardToCache[c] # <<>> /\ m = Head(forwardToCache[c])
      /\ m.Type = type
  BY DEF ForwardIs
<1>2. Takes(forwardToCache, forwardToCache', c, m)
  BY <1>1, ForwardTaken, Zenon
<1>3. m \in ForwardsOf(a)[c]
  BY <1>2 DEF Takes, ForwardsOf
<1>4. HasLatest(c, a)
  BY <1>1, <1>3 DEF HasLatest, MustAnswer, Copied
<1> QED
  BY <1>1, <1>4 DEF DataInv, LinesFresh

(* A response that a cache sends.                                          *)
LEMMA ResponseFields ==
  ASSUME TypeOK, NEW c \in Cache, NEW type \in {"Data", "InvAck"}, NEW a \in Addr,
         NEW d \in Data
  PROVE  /\ Response(c, type, a, d) \in ResponseMsg
         /\ Response(c, type, a, d) \in CacheResponse
         /\ Response(c, type, a, d).Type = type
         /\ Response(c, type, a, d).addr = a
         /\ Response(c, type, a, d).DataBlk = d
  BY DEF Response, CacheResponse, ResponseMsg, Machine

(* The blocks of a cache.                                                  *)
LEMMA BlockData ==
  ASSUME TypeOK, NEW c \in Cache, NEW a \in Addr
  PROVE  line[c][a] \in Line /\ line[c][a].DataBlk \in Data
<1>1. line[c][a] \in Line
  BY DEF TypeOK, CacheTypeOK
<1> QED
  BY <1>1 DEF Line

(* An owner answers a reader.                                              *)
LEMMA FwdGetSFresh ==
  ASSUME TypeOK, ChannelInv, AllocInv, DataInv, NEW c \in Cache,
         NEW from, NEW to, OwnerFwdGetS(c, from, to), UNCHANGED dirVars,
         \/ from = "M" /\ to = "S"
         \/ from = "MI_A" /\ to = "SI_A"
  PROVE  DataInv'
<1>1. PICK m, a, r, v : /\ m = Head(forwardToCache[c]) /\ a = m.addr
                        /\ r = Response(c, "Data", a, line[c][a].DataBlk)
                        /\ v = latest
  OBVIOUS
<1>2. /\ Forwarded(c, "GetS", {from})
      /\ SendsAnswer(m.Requestor, c, r)
      /\ responseToDir' = [responseToDir EXCEPT ![c] = Append(@, r)]
      /\ Update(c, a, line[c][a], to) /\ popForwardQueue(c)
      /\ UNCHANGED <<latest, requestToDir, requestFromCache, memQueue, memory, directory>>
  BY <1>1 DEF SendsAnswer, OwnerFwdGetS, sendCacheDataToReq, sendCacheDataToDir, dirVars
<1>3. /\ ForwardIs(c, m, "GetS") /\ LineState(c, a) = from
      /\ a \in Addr /\ m.Requestor \in Cache /\ c \in Machine
  BY <1>1, <1>2, ForwardHead DEF ForwardIs, Forwarded, Machine
<1>4. line[c][a].DataBlk = latest[a]
  BY <1>1, <1>2, <1>3, OwnerHasLatest
<1>5. /\ r \in ResponseMsg /\ r \in CacheResponse
      /\ r.Type = "Data" => r.DataBlk = v[r.addr]
  BY <1>1, <1>3, <1>4, BlockData, ResponseFields
<1>6. /\ AnswersFresh(responseToCache, v) /\ HomesFresh(responseToDir, v)
  BY <1>1 DEF DataInv
<1>7. AnswersFresh(responseToCache', v)
  <2>1. /\ m.Requestor \in Cache /\ c \in Machine /\ r \in ResponseMsg
        /\ r.Type = "Data" => r.DataBlk = v[r.addr]
        /\ AnswersFresh(responseToCache, v)
        /\ SendsAnswer(m.Requestor, c, r)
    BY <1>2, <1>3, <1>5, <1>6
  <2> QED
    BY <2>1, AnswersSent
<1>8. HomesFresh(responseToDir', v)
  BY <1>2, <1>5, <1>6, HomesSent
<1>9. /\ setState(line[c][a], to).State = to
      /\ setState(line[c][a], to).DataBlk = line[c][a].DataBlk
  <2>1. line[c][a] \in Line /\ line[c][a].block
    BY <1>3, BlockData DEF AllocInv, AllocationFits, LineState
  <2> QED
    BY <2>1 DEF setState, Line
<1>10. LinesFresh' /\ PutsCarry'
  <2>1. FirstForward(c, m)
    BY <1>1, <1>3 DEF FirstForward, ForwardIs
  <2>2. PICK l : l = line[c][a]
    OBVIOUS
  <2>3. /\ a = m.addr /\ popForwardQueue(c) /\ Update(c, a, l, to)
        /\ setState(l, to).State = to /\ setState(l, to).DataBlk = latest[a]
        /\ to # "MI_A" /\ UNCHANGED <<latest, requestToDir, requestFromCache>>
    BY <1>1, <1>2, <1>4, <1>9, <2>2
  <2> QED
    BY <2>1, <2>3, ForwardMoves
<1>11. latest' = v
  BY <1>1, <1>2
<1> QED
  BY <1>1, <1>2, <1>7, <1>8, <1>10, <1>11 DEF DataInv

(* A cache takes a forward, sends the requestor r and gives up its copy.   *)
LEMMA GivenUp ==
  ASSUME TypeOK, ChannelInv, DataInv, NEW c \in Cache, NEW m, NEW a, NEW l, NEW t,
         NEW type, NEW kind \in {"Data", "InvAck"}, NEW d \in Data,
         ForwardIs(c, m, type), a = m.addr, popForwardQueue(c),
         SendsAnswer(m.Requestor, c, Response(c, kind, a, d)),
         kind = "Data" => d = latest[a],
         Update(c, a, l, t), setState(l, t).State = t, t \in {"I", "II_A", "IM_AD"},
         UNCHANGED <<latest, requestToDir, requestFromCache, responseToDir, dirVars>>
  PROVE  DataInv'
<1>1. PICK r, v : r = Response(c, kind, a, d) /\ v = latest
  OBVIOUS
<1>2. a \in Addr /\ m.Requestor \in Cache /\ c \in Machine
  BY DEF ForwardIs, Machine
<1>3. r \in ResponseMsg /\ (r.Type = "Data" => r.DataBlk = v[r.addr])
  BY <1>1, <1>2, ResponseFields
<1>4. AnswersFresh(responseToCache, v)
  BY <1>1 DEF DataInv
<1>5. SendsAnswer(m.Requestor, c, r)
  BY <1>1
<1>6. AnswersFresh(responseToCache', v)
  <2>1. /\ m.Requestor \in Cache /\ c \in Machine /\ r \in ResponseMsg
        /\ r.Type = "Data" => r.DataBlk = v[r.addr]
        /\ AnswersFresh(responseToCache, v)
        /\ SendsAnswer(m.Requestor, c, r)
    BY <1>2, <1>3, <1>4, <1>5
  <2> QED
    BY <2>1, AnswersSent
<1>7. t # "MI_A" /\ t \notin Copied
  BY DEF Copied
<1>8. LinesFresh' /\ PutsCarry'
  <2>1. FirstForward(c, m)
    BY DEF FirstForward, ForwardIs
  <2> QED
    BY <1>7, <2>1, ForwardMoves
<1>9. latest' = v
  BY <1>1
<1> QED
  BY <1>1, <1>6, <1>8, <1>9 DEF DataInv, dirVars

-----------------------------------------------------------------------------
(* Steps of a cache that write no data.                                    *)

(* The data of a block that changes its state only.                        *)
LEMMA BlockKept ==
  ASSUME TypeOK, NEW c \in Cache, NEW a \in Addr, NEW t
  PROVE  /\ setState(line[c][a], t).DataBlk = line[c][a].DataBlk
         /\ setState(allocateTBE(line[c][a]), t).DataBlk = line[c][a].DataBlk
<1>1. line[c][a] \in Line
  BY BlockData
<1> QED
  BY <1>1 DEF setState, allocateTBE, Line

(* Every step of the mandatory queue but a store that hits.                *)
LEMMA MandatoryFresh ==
  ASSUME TypeOK, AllocInv, LinesInv, DataInv, NEW c \in Cache, NEW a \in Addr,
         \/ I_Load(c, a) \/ I_Store(c, a) \/ LoadHit(c, a) \/ S_Store(c, a)
         \/ S_Replacement(c, a) \/ M_Replacement(c, a),
         UNCHANGED dirVars
  PROVE  DataInv'
<1>1. line[c][a] \in Line /\ line[c][a].DataBlk \in Data /\ ZeroBlock \in Data
  BY BlockData, MSIConstants DEF MSIConstants
<1>2. CASE I_Load(c, a)
  <2>1. PICK l : l = allocateTBE(allocateCacheBlock(line[c][a]))
    OBVIOUS
  <2>2. /\ SendRequest(c, "GetS", a, ZeroBlock) /\ Update(c, a, l, "IS_D")
        /\ Starts(LineState(c, a), "GetS", "IS_D")
        /\ UNCHANGED <<latest, requestFromCache, forwardToCache, responseToDir,
                       responseToCache>>
    BY <1>2, <2>1 DEF I_Load, Mandatory, sendGetS, Starts
  <2>3. setState(l, "IS_D").State = "IS_D"
    BY <1>1, <2>1, StartFields
  <2> QED
    BY <1>1, <2>2, <2>3, StartFresh
<1>3. CASE I_Store(c, a)
  <2>1. PICK l : l = allocateTBE(allocateCacheBlock(line[c][a]))
    OBVIOUS
  <2>2. /\ SendRequest(c, "GetM", a, ZeroBlock) /\ Update(c, a, l, "IM_AD")
        /\ Starts(LineState(c, a), "GetM", "IM_AD")
        /\ UNCHANGED <<latest, requestFromCache, forwardToCache, responseToDir,
                       responseToCache>>
    BY <1>3, <2>1 DEF I_Store, Mandatory, sendGetM, Starts
  <2>3. setState(l, "IM_AD").State = "IM_AD"
    BY <1>1, <2>1, StartFields
  <2> QED
    BY <1>1, <2>2, <2>3, StartFresh
<1>4. CASE LoadHit(c, a)
  <2>1. UNCHANGED <<line, latest, channels, dirVars>>
    BY <1>4 DEF LoadHit, readCallback
  <2> QED
    BY <2>1, NothingMoved
<1>5. CASE S_Store(c, a)
  <2>1. PICK l : l = allocateTBE(line[c][a])
    OBVIOUS
  <2>2. /\ SendRequest(c, "GetM", a, ZeroBlock) /\ Update(c, a, l, "SM_AD")
        /\ Starts(LineState(c, a), "GetM", "SM_AD")
        /\ UNCHANGED <<latest, requestFromCache, forwardToCache, responseToDir,
                       responseToCache>>
    BY <1>5, <2>1 DEF S_Store, Mandatory, sendGetM, Starts
  <2>3. /\ setState(l, "SM_AD").State = "SM_AD"
        /\ setState(l, "SM_AD").DataBlk = line[c][a].DataBlk
    BY <1>1, <2>1, StartFields, BlockKept
  <2> QED
    BY <1>1, <2>2, <2>3, StartFresh
<1>6. CASE S_Replacement(c, a)
  <2>1. PICK l : l = line[c][a]
    OBVIOUS
  <2>2. /\ SendRequest(c, "PutS", a, ZeroBlock) /\ Update(c, a, l, "SI_A")
        /\ Starts(LineState(c, a), "PutS", "SI_A") /\ LineState(c, a) # "I"
        /\ UNCHANGED <<latest, requestFromCache, forwardToCache, responseToDir,
                       responseToCache>>
    BY <1>6, <2>1 DEF S_Replacement, Replacement, sendPutS, Starts
  <2>3. setState(l, "SI_A").State = "SI_A"
    BY <2>1, <2>2, BlockState
  <2> QED
    BY <1>1, <2>2, <2>3, StartFresh
<1>7. CASE M_Replacement(c, a)
  <2>1. PICK l, d : l = line[c][a] /\ d = line[c][a].DataBlk
    OBVIOUS
  <2>2. /\ SendRequest(c, "PutM", a, d) /\ Update(c, a, l, "MI_A") /\ d \in Data
        /\ Starts(LineState(c, a), "PutM", "MI_A") /\ LineState(c, a) # "I"
        /\ UNCHANGED <<latest, requestFromCache, forwardToCache, responseToDir,
                       responseToCache>>
    BY <1>1, <1>7, <2>1 DEF M_Replacement, Replacement, sendPutM, Starts
  <2>3. /\ setState(l, "MI_A").State = "MI_A"
        /\ setState(l, "MI_A").DataBlk = line[c][a].DataBlk
    BY <2>1, <2>2, BlockState, BlockKept
  <2> QED
    BY <2>1, <2>2, <2>3, StartFresh
<1> QED
  BY <1>2, <1>3, <1>4, <1>5, <1>6, <1>7

(* transition(SM_AD, Inv, IM_AD) and transition(SI_A, Inv, II_A).          *)
LEMMA WaitingInvFresh ==
  ASSUME TypeOK, AllocInv, ChannelInv, DataInv, NEW c \in Cache,
         NEW from, NEW to, WaitingInv(c, from, to), UNCHANGED dirVars,
         from # "I", to \in {"IM_AD", "II_A"}
  PROVE  DataInv'
<1>1. PICK m, a, l : m = Head(forwardToCache[c]) /\ a = m.addr /\ l = line[c][a]
  OBVIOUS
<1>2. /\ Forwarded(c, "Inv", {from})
      /\ SendsAnswer(m.Requestor, c, Response(c, "InvAck", a, ZeroBlock))
      /\ Update(c, a, l, to) /\ popForwardQueue(c)
      /\ UNCHANGED <<latest, requestToDir, requestFromCache, responseToDir>>
  BY <1>1 DEF SendsAnswer, WaitingInv, sendInvAcktoReq
<1>3. ForwardIs(c, m, "Inv") /\ LineState(c, a) = from /\ a \in Addr
  BY <1>1, <1>2, ForwardHead DEF ForwardIs, Forwarded
<1>4. setState(l, to).State = to /\ ZeroBlock \in Data
  BY <1>1, <1>3, BlockState, MSIConstants DEF MSIConstants
<1> QED
  BY <1>1, <1>2, <1>3, <1>4, GivenUp

(* Every step of a cache that takes a forward.                             *)
LEMMA ForwardFresh ==
  ASSUME TypeOK, AllocInv, ChannelInv, DataInv, NEW c \in Cache,
         ForwardStep(c), UNCHANGED dirVars
  PROVE  DataInv'
<1>1. PICK m, a : m = Head(forwardToCache[c]) /\ a = m.addr
  OBVIOUS
<1>2. CASE M_FwdGetS(c) \/ MI_A_FwdGetS(c)
  BY <1>2, FwdGetSFresh DEF M_FwdGetS, MI_A_FwdGetS
<1>3. CASE M_FwdGetM(c)
  <2>1. PICK l, d : l = deallocateCacheBlock(line[c][a]) /\ d = line[c][a].DataBlk
    OBVIOUS
  <2>2. /\ Forwarded(c, "GetM", {"M"})
        /\ SendsAnswer(m.Requestor, c, Response(c, "Data", a, d))
        /\ Update(c, a, l, "I") /\ popForwardQueue(c)
        /\ UNCHANGED <<latest, requestToDir, requestFromCache, responseToDir>>
    BY <1>1, <1>3, <2>1 DEF SendsAnswer, M_FwdGetM, sendCacheDataToReq
  <2>3. ForwardIs(c, m, "GetM") /\ LineState(c, a) = "M" /\ a \in Addr
    BY <1>1, <2>2, ForwardHead DEF ForwardIs, Forwarded
  <2>4. setState(l, "I").State = "I" /\ d \in Data
    BY <2>1, <2>3, BlockData DEF setState, deallocateCacheBlock, Line
  <2>5. d = latest[a]
    BY <1>1, <2>1, <2>2, <2>3, OwnerHasLatest
  <2> QED
    BY <1>1, <2>2, <2>3, <2>4, <2>5, GivenUp
<1>4. CASE MI_A_FwdGetM(c)
  <2>1. PICK l, d : l = line[c][a] /\ d = line[c][a].DataBlk
    OBVIOUS
  <2>2. /\ Forwarded(c, "GetM", {"MI_A"})
        /\ SendsAnswer(m.Requestor, c, Response(c, "Data", a, d))
        /\ Update(c, a, l, "II_A") /\ popForwardQueue(c)
        /\ UNCHANGED <<latest, requestToDir, requestFromCache, responseToDir>>
    BY <1>1, <1>4, <2>1 DEF SendsAnswer, MI_A_FwdGetM, sendCacheDataToReq
  <2>3. ForwardIs(c, m, "GetM") /\ LineState(c, a) = "MI_A" /\ a \in Addr
    BY <1>1, <2>2, ForwardHead DEF ForwardIs, Forwarded
  <2>4. setState(l, "II_A").State = "II_A" /\ d \in Data
    BY <2>1, <2>3, BlockData, BlockState
  <2>5. d = latest[a]
    BY <1>1, <2>1, <2>2, <2>3, OwnerHasLatest
  <2> QED
    BY <1>1, <2>2, <2>3, <2>4, <2>5, GivenUp
<1>5. CASE S_Inv(c)
  <2>1. PICK l : l = deallocateCacheBlock(line[c][a])
    OBVIOUS
  <2>2. /\ Forwarded(c, "Inv", {"S"})
        /\ SendsAnswer(m.Requestor, c, Response(c, "InvAck", a, ZeroBlock))
        /\ Update(c, a, l, "I") /\ popForwardQueue(c)
        /\ UNCHANGED <<latest, requestToDir, requestFromCache, responseToDir>>
    BY <1>1, <1>5, <2>1 DEF SendsAnswer, S_Inv, sendInvAcktoReq
  <2>3. ForwardIs(c, m, "Inv") /\ a \in Addr
    BY <1>1, <2>2, ForwardHead DEF ForwardIs, Forwarded
  <2>4. setState(l, "I").State = "I" /\ ZeroBlock \in Data
    BY <2>1, <2>3, BlockData, MSIConstants
       DEF setState, deallocateCacheBlock, Line, MSIConstants
  <2> QED
    BY <1>1, <2>2, <2>3, <2>4, GivenUp
<1>6. CASE SM_AD_Inv(c)
  BY <1>6, WaitingInvFresh DEF SM_AD_Inv
<1>7. CASE SI_A_Inv(c)
  BY <1>7, WaitingInvFresh DEF SI_A_Inv
<1>8. CASE PutAck(c)
  <2>1. PICK l : l = deallocateCacheBlock(line[c][a])
    OBVIOUS
  <2>2. /\ Forwarded(c, "PutAck", {"MI_A", "SI_A", "II_A"})
        /\ Update(c, a, l, "I") /\ popForwardQueue(c)
        /\ UNCHANGED <<latest, requestToDir, requestFromCache, responseToDir,
                       responseToCache>>
    BY <1>1, <1>8, <2>1 DEF PutAck
  <2>3. FirstForward(c, m) /\ a \in Addr
    BY <1>1, <2>2, ForwardHead DEF FirstForward, Forwarded
  <2>4. setState(l, "I").State = "I" /\ "I" \notin Copied
    BY <2>1, <2>3, BlockData DEF setState, deallocateCacheBlock, Line, Copied
  <2>5. LinesFresh' /\ PutsCarry'
    BY <1>1, <2>2, <2>3, <2>4, ForwardMoves
  <2> QED
    BY <2>2, <2>5 DEF DataInv, dirVars
<1> QED
  BY <1>2, <1>3, <1>4, <1>5, <1>6, <1>7, <1>8 DEF ForwardStep

-----------------------------------------------------------------------------
(* Responses that write no data.                                           *)

(* A cache takes a response.                                               *)
LEMMA CollectFresh ==
  ASSUME TypeOK, ChannelInv, DataInv, NEW c \in Cache, NEW s \in Machine,
         NEW m, NEW a, NEW l, NEW t, Collects(c, s, m, l, t), a = m.addr,
         setState(l, t).State = t, t # "MI_A",
         t \in Copied => setState(l, t).DataBlk = latest[a],
         UNCHANGED <<latest, memory>>
  PROVE  DataInv'
<1>1. PICK v : v = latest
  OBVIOUS
<1>2. /\ responseToCache[c][s] # <<>> /\ m = Head(responseToCache[c][s])
      /\ popResponseQueue(c, s) /\ Update(c, a, l, t)
      /\ UNCHANGED <<requestToDir, requestFromCache, forwardToCache, responseToDir,
                     memQueue, directory>>
  BY DEF Collects
<1>3. a \in Addr
  BY <1>2, ResponseHead
<1>4. AnswersFresh(responseToCache', v)
  <2>1. AnswersFresh(responseToCache, v)
    BY <1>1 DEF DataInv
  <2> QED
    BY <1>2, <2>1, AnswersTaken
<1>5. /\ line'[c][a].State = t
      /\ t \in Copied => line'[c][a].DataBlk = latest[a]
      /\ \A y \in Cache, b \in Addr : y # c \/ b # a => line'[y][b] = line[y][b]
  BY <1>2, <1>3, BlockUpdated
<1>6. \A b : /\ ForwardsOf(b)' = ForwardsOf(b)
             /\ SentOf(b)' = SentOf(b) /\ ArrivedOf(b)' = ArrivedOf(b)
  BY <1>2, Untouched
<1>7. LinesFresh'
  <2>1. OthersKept(c, a)
    BY <1>5, <1>6 DEF OthersKept
  <2>2. HasLatest(c, a)' => line'[c][a].DataBlk = latest[a]
    BY <1>5 DEF HasLatest, LineState
  <2> QED
    BY <1>3, <2>1, <2>2, BlocksFresh DEF DataInv
<1>8. PutsCarry'
  <2>1. LineState(c, a)' # "MI_A"
    BY <1>5 DEF LineState
  <2> QED
    BY <1>3, <1>5, <1>6, <2>1, PutsKept DEF DataInv
<1>9. latest' = v
  BY <1>1
<1> QED
  BY <1>1, <1>2, <1>4, <1>7, <1>8, <1>9 DEF DataInv

(* The data that a cache takes is the line's.                              *)
LEMMA LatestTaken ==
  ASSUME TypeOK, DataInv, NEW c \in Cache, NEW s \in Machine,
         NEW m, NEW l, NEW t, Collects(c, s, m, l, t), m.Type = "Data"
  PROVE  m.DataBlk = latest[m.addr]
<1>1. PICK v : v = latest
  OBVIOUS
<1>2. /\ responseToCache[c][s] # <<>> /\ m = Head(responseToCache[c][s])
      /\ popResponseQueue(c, s)
  BY DEF Collects
<1>3. AnswersFresh(responseToCache, v)
  BY <1>1 DEF DataInv
<1>4. m.DataBlk = v[m.addr]
  BY <1>2, <1>3, AnswersTaken
<1> QED
  BY <1>1, <1>4

(* The block of a line that takes data.                                    *)
LEMMA DataWritten ==
  ASSUME NEW k \in Line, k.block, NEW d, NEW n, NEW t
  PROVE  /\ setState(deallocateTBE(writeDataToCache(k, d)), t).DataBlk = d
         /\ setState(storeAcks(writeDataToCache(k, d), n), t).DataBlk = d
         /\ setState(decrAcks(k), t).DataBlk = k.DataBlk
         /\ setState(writeDataToCache(k, d), t).DataBlk = d
         /\ setState(writeDataToCache(k, d), t).State = t
  BY DEF setState, deallocateTBE, writeDataToCache, storeAcks, decrAcks, Line

(* A cache that takes a response has the line's block.                     *)
LEMMA ResponseBlock ==
  ASSUME TypeOK, AllocInv, NEW c \in Cache, NEW s \in Machine, NEW m, NEW l, NEW t,
         Collects(c, s, m, l, t), ResponseAssertsHold(c, m),
         LineState(c, m.addr) # "I"
  PROVE  m.addr \in Addr /\ line[c][m.addr] \in Line /\ line[c][m.addr].block
<1>1. m.addr \in Addr
  BY ResponseHead DEF Collects
<1>2. line[c][m.addr].tbe
  BY DEF ResponseAssertsHold
<1> QED
  BY <1>1, <1>2, HasBoth

(* Every step of a cache that takes a response and finishes no store.      *)
LEMMA ResponseFresh ==
  ASSUME TypeOK, AllocInv, ChannelInv, DataInv, NEW c \in Cache, NEW s \in Machine,
         \/ IS_D_Data(c, s) \/ InvAck(c, s)
         \/ IM_AD_DataDirAcks(c, s) \/ SM_AD_DataDirAcks(c, s),
         UNCHANGED dirVars
  PROVE  DataInv'
<1>1. PICK m, a, d, n : /\ m = Head(responseToCache[c][s]) /\ a = m.addr
                        /\ d = m.DataBlk /\ n = m.Acks
  OBVIOUS
<1>2. responseToCache[c][s] # <<>> => m \in ResponseMsg /\ m.Type \in {"Data", "InvAck"}
  BY <1>1, ResponseHead DEF ResponseMsg
<1>3. CASE IS_D_Data(c, s)
  <2>1. PICK l : l = deallocateTBE(writeDataToCache(line[c][a], d))
    OBVIOUS
  <2>2. /\ Collects(c, s, m, l, "S") /\ ResponseAssertsHold(c, m)
        /\ ResponseEvent(m, line[c][a].AcksOutstanding) \in {"DataDirNoAcks", "DataOwner"}
        /\ LineState(c, a) = "IS_D" /\ UNCHANGED <<latest, memory>>
    BY <1>1, <1>3, <2>1 DEF IS_D_Data, Responded, Collects, dirVars, readCallback
  <2>3. m.Type = "Data"
    BY <1>2, <2>2 DEF ResponseEvent, ResponseAssertsHold, Collects
  <2>4. a \in Addr /\ line[c][a] \in Line /\ line[c][a].block
    BY <1>1, <2>2, ResponseBlock
  <2>5. setState(l, "S").State = "S" /\ setState(l, "S").DataBlk = d
    BY <2>1, <2>4, Finished, DataWritten
  <2>6. d = latest[a]
    BY <1>1, <2>2, <2>3, LatestTaken
  <2> QED
    BY <1>1, <2>2, <2>5, <2>6, CollectFresh
<1>4. CASE InvAck(c, s)
  <2>1. PICK l, t : l = decrAcks(line[c][a]) /\ t = LineState(c, a)
    OBVIOUS
  <2>2. /\ Collects(c, s, m, l, t) /\ ResponseAssertsHold(c, m)
        /\ LineState(c, a) \in Stalled /\ UNCHANGED <<latest, memory>>
    BY <1>1, <1>4, <2>1 DEF InvAck, Responded, Collects, dirVars, Stalled
  <2>3. a \in Addr /\ line[c][a] \in Line /\ line[c][a].block
    BY <1>1, <2>2, ResponseBlock DEF Stalled
  <2>4. setState(l, t).State = t /\ setState(l, t).DataBlk = line[c][a].DataBlk
    BY <2>1, <2>3, Decreased, DataWritten
  <2>5. t # "MI_A" /\ (t \in Copied => line[c][a].DataBlk = latest[a])
    BY <2>1, <2>2, <2>3 DEF DataInv, LinesFresh, HasLatest, Stalled
  <2> QED
    BY <1>1, <2>2, <2>4, <2>5, CollectFresh
<1>5. ASSUME NEW from, NEW to, DataDirAcks(c, s, from, to), from # "I", to # "MI_A"
      PROVE  DataInv'
  <2>1. PICK l : l = storeAcks(writeDataToCache(line[c][a], d), n)
    OBVIOUS
  <2>2. /\ Collects(c, s, m, l, to) /\ ResponseAssertsHold(c, m)
        /\ ResponseEvent(m, line[c][a].AcksOutstanding) \in {"DataDirAcks"}
        /\ LineState(c, a) = from /\ UNCHANGED <<latest, memory>>
    BY <1>1, <1>5, <2>1 DEF DataDirAcks, Responded, Collects, dirVars
  <2>3. m.Type = "Data"
    BY <1>2, <2>2 DEF ResponseEvent, ResponseAssertsHold, Collects
  <2>4. a \in Addr /\ line[c][a] \in Line /\ line[c][a].block
    BY <1>1, <1>5, <2>2, ResponseBlock
  <2>5. setState(l, to).State = to /\ setState(l, to).DataBlk = d
    BY <2>1, <2>4, Stored, DataWritten
  <2>6. d = latest[a]
    BY <1>1, <2>2, <2>3, LatestTaken
  <2> QED
    BY <1>1, <1>5, <2>2, <2>5, <2>6, CollectFresh
<1> QED
  BY <1>3, <1>4, <1>5 DEF IM_AD_DataDirAcks, SM_AD_DataDirAcks

-----------------------------------------------------------------------------
(* Stores.                                                                 *)

(* A cache that evicts a line still owns it while it has a forward to      *)
(* answer, or no acknowledgement.                                          *)
LEMMA OwningIsAsked ==
  ASSUME NEW a \in Addr, NEW forwards \in ForwardsType(a), NEW state, NEW stage, NEW by,
         AskedOK(a, forwards, state, stage, by), AckedOK(a, forwards, stage),
         NEW c \in Cache, state[c] = "MI_A"
  PROVE  Owning(c, state, stage, by) <=> MustAnswer(forwards[c])
<1>1. Owning(c, state, stage, by) <=> stage[c] # "acked" \/ Asked(c, stage, by)
  BY DEF Owning
<1>2. stage[c] # "acked" <=> \A m \in forwards[c] : m.Type # "PutAck"
  BY DEF AckedOK, ForwardOf
<1>3. Asked(c, stage, by) <=> \E m \in forwards[c] : m.Type \in {"GetS", "GetM"}
  <2>1. ASSUME NEW m \in forwards[c], m.Type \in {"GetS", "GetM"}
        PROVE  Asked(c, stage, by)
    BY <2>1, ForwardTypes DEF AskedOK, Asked
  <2>2. ASSUME Asked(c, stage, by)
        PROVE  \E m \in forwards[c] : m.Type \in {"GetS", "GetM"}
    <3>1. PICK x \in Cache : stage[x] = "forwarded" /\ by[x] = c
      BY <2>2 DEF Asked
    <3>2. PICK type, m : /\ type = IF state[x] = "IS_D" THEN "GetS" ELSE "GetM"
                         /\ m = ForwardOf(type, a, x)
      OBVIOUS
    <3>3. m \in forwards[c]
      BY <3>1, <3>2 DEF AskedOK
    <3>4. m.Type = type /\ type \in {"GetS", "GetM"}
      BY <3>2 DEF ForwardOf
    <3> QED
      BY <3>3, <3>4
  <2> QED
    BY <2>1, <2>2
<1> QED
  BY <1>1, <1>2, <1>3 DEF MustAnswer

(* Nothing else anywhere has the data of line a, which c may write.        *)
OnlyCopy(c, a) ==
  /\ \A y \in Cache : y # c => ~HasLatest(y, a)
  /\ \A y \in Cache, s \in Machine : \A m \in AnswersOf(a)[y][s] : m.Type # "Data"
  /\ \A y \in Cache : HomeOf(a)[y] = {}
  /\ \A m \in AtMemory(a) : m.Type # "MEMORY_WB"
  /\ directory[a].DirState \in {"M", "S_D"}

(* While a cache has the line in M its block is the only copy.             *)
LEMMA WriterHasOnlyCopy ==
  ASSUME TypeOK, DirInv, LinesInv, NEW c \in Cache, NEW a \in Addr, LineState(c, a) = "M"
  PROVE  OnlyCopy(c, a)
<1>1. PICK stage \in StageType, by \in ByType,
           chain \in Seq(Cache), inv \in SUBSET Cache, ack \in SUBSET Cache :
        LineInvNow(a, stage, by, chain, inv, ack)
  BY Witnesses
<1>2. PICK state, forwards, e : state = StateOf(a) /\ forwards = ForwardsOf(a) /\ e = directory[a]
  OBVIOUS
<1>3. /\ AskedOK(a, forwards, state, stage, by) /\ AckedOK(a, forwards, stage)
      /\ DataSentOK(AnswersOf(a), stage, by) /\ HomeOK(HomeOf(a), e, chain)
      /\ StageOK(state, stage) /\ OwnersOK(state, stage, by, chain)
      /\ LinksOK(stage, by, chain) /\ EntryOK(e, stage, chain)
      /\ InvsOK(state, stage, chain, inv, ack) /\ CopiesOK(e, state, stage, chain, inv)
  BY <1>1, <1>2, Zenon DEF LineInvNow, LineInv
<1>4. /\ LineTyped(a) /\ \A y \in Cache : state[y] = LineState(y, a)
      /\ forwards \in ForwardsType(a) /\ state \in StateType
  BY <1>2, LineIsTyped DEF StateOf, LineState, LineTyped
<1>5. state[c] = "M" /\ stage[c] = "none"
  BY <1>3, <1>4 DEF StageOK
<1>6. ASSUME NEW y \in Cache, y # c
      PROVE  ~(Owning(y, state, stage, by) /\ stage[y] # "forwarded")
  BY <1>3, <1>4, <1>5, <1>6, FirstOfChain DEF Owning
<1>7. chain # <<>> /\ chain[1] = c
  BY <1>3, <1>4, <1>5, FirstOfChain DEF Owning
<1>8. ASSUME NEW y \in Cache, y # c PROVE ~Holds(y, state, stage)
  <2>1. inv = {}
    BY <1>3, <1>5, <1>7 DEF InvsOK, Stalled
  <2> QED
    BY <1>3, <1>7, <1>8, <2>1 DEF CopiesOK, Settled
<1>9. ASSUME NEW y \in Cache, y # c, HasLatest(y, a) PROVE FALSE
  <2>1. CASE state[y] \in {"S", "SM_AD"}
    BY <1>8, <1>9, <2>1 DEF Holds
  <2>2. CASE state[y] \in {"M", "IM_A", "SM_A"}
    BY <1>3, <1>6, <1>9, <2>2 DEF Owning, StageOK
  <2>3. CASE state[y] = "MI_A" /\ MustAnswer(forwards[y])
    <3>1. Owning(y, state, stage, by)
      BY <1>3, <1>4, <2>3, OwningIsAsked
    <3>2. stage[y] # "forwarded"
      BY <1>3, <2>3 DEF StageOK, GetStates
    <3> QED
      BY <1>6, <1>9, <3>1, <3>2
  <2> QED
    BY <1>2, <1>4, <1>9, <2>1, <2>2, <2>3 DEF HasLatest, Copied
<1>10. ASSUME NEW y \in Cache, NEW s \in Machine, NEW m \in AnswersOf(a)[y][s],
              m.Type = "Data"
       PROVE  FALSE
  <2>1. stage[y] = "answered" /\ state[y] \in GetStates
    BY <1>3, <1>10 DEF DataSentOK, StageOK
  <2>2. y # c
    BY <1>5, <2>1
  <2> QED
    BY <1>6, <1>8, <2>1, <2>2 DEF Holds, Owning, GetStates
<1>11. \A y \in Cache : HomeOf(a)[y] = {}
  BY <1>3, <1>7 DEF HomeOK
<1>12. e.DirState \in {"M", "S_D"}
  BY <1>3, <1>5, <1>7 DEF EntryOK
<1>13. AtMemory(a) = {}
  BY <1>2, <1>12 DEF DirInv, OneMemoryRequest, MemoryConsistent
<1> QED
  BY <1>2, <1>9, <1>10, <1>11, <1>12, <1>13 DEF OnlyCopy

(* So it is for every cache and line.                                      *)
WritersAlone == \A c \in Cache, a \in Addr : LineState(c, a) = "M" => OnlyCopy(c, a)

(* A primed copy of WriterHasOnlyCopy, for every line and cache.           *)
LEMMA NextWriters == TypeOK' /\ DirInv' /\ LinesInv' => WritersAlone'
<1>1. TypeOK /\ DirInv /\ LinesInv => WritersAlone
  BY WriterHasOnlyCopy DEF WritersAlone
<1>2. TypeOK' /\ DirInv' /\ LinesInv' => WritersAlone'
  BY <1>1, PTL
<1> QED
  BY <1>2

(* What is fresh for v is so for w if they differ at line a only and there *)
(* is no data for it.                                                      *)
LEMMA FreshElsewhere ==
  ASSUME NEW S, NEW q \in Seq(S), \A m \in S : m.addr \in Addr, NEW a, NEW v, NEW w,
         \A b \in Addr : b # a => v[b] = w[b],
         \A m \in Messages(q, a) : m.Type # "Data", Fresh(q, v)
  PROVE  Fresh(q, w)
<1>1. ASSUME NEW i \in DOMAIN q, q[i].Type = "Data" PROVE q[i].DataBlk = w[q[i].addr]
  <2>1. q[i].addr # a
    BY <1>1, IndicesSeen
  <2>2. q[i].addr \in Addr
    BY <1>1
  <2> QED
    BY <1>1, <2>1, <2>2 DEF Fresh
<1> QED
  BY <1>1 DEF Fresh

(* The written block is the line's data, and other lines keep theirs.      *)
LEMMA WriteFresh ==
  ASSUME TypeOK, TypeOK', DirInv', LinesInv', DataInv,
         NEW c \in Cache, NEW a \in Addr, NEW d, NEW l, Update(c, a, l, "M"),
         setState(l, "M").State = "M", setState(l, "M").DataBlk = d,
         latest' = [latest EXCEPT ![a] = d],
         NEW v, v = latest, AnswersFresh(responseToCache', v),
         UNCHANGED <<requestToDir, requestFromCache, forwardToCache, responseToDir, dirVars>>
  PROVE  DataInv'
<1>1. /\ line'[c][a].State = "M" /\ line'[c][a].DataBlk = d
      /\ \A y \in Cache, b \in Addr : y # c \/ b # a => line'[y][b] = line[y][b]
  BY BlockUpdated
<1>2. OnlyCopy(c, a)'
  <2>1. WritersAlone'
    BY NextWriters
  <2>2. LineState(c, a)' = "M"
    BY <1>1 DEF LineState
  <2> QED
    BY <2>1, <2>2 DEF WritersAlone
<1>3. /\ latest'[a] = d
      /\ \A b \in Addr : b # a => latest'[b] = v[b]
  BY DEF TypeOK, CacheTypeOK
<1>4. PICK w : w = latest'
  OBVIOUS
<1>5. \A b : /\ ForwardsOf(b)' = ForwardsOf(b)
             /\ SentOf(b)' = SentOf(b) /\ ArrivedOf(b)' = ArrivedOf(b)
  BY Untouched
<1>6. LinesFresh'
  <2>1. ASSUME NEW y \in Cache, NEW b \in Addr, HasLatest(y, b)'
        PROVE  line'[y][b].DataBlk = latest'[b]
    <3>1. CASE b = a
      BY <1>1, <1>2, <1>3, <2>1, <3>1 DEF OnlyCopy
    <3>2. CASE b # a
      <4>1. line'[y][b] = line[y][b] /\ latest'[b] = latest[b]
        BY <1>1, <1>3, <3>2
      <4>2. HasLatest(y, b)
        BY <1>5, <2>1, <4>1 DEF HasLatest, LineState
      <4> QED
        BY <4>1, <4>2 DEF DataInv, LinesFresh
    <3> QED
      BY <3>1, <3>2
  <2> QED
    BY <2>1 DEF LinesFresh
<1>7. \A m \in ResponseMsg : m.addr \in Addr
  BY DEF ResponseMsg
<1>8. \A b \in Addr : b # a => v[b] = w[b]
  BY <1>3, <1>4
<1>9. AnswersFresh(responseToCache', w)
  <2>1. ASSUME NEW y \in Cache, NEW s \in Machine PROVE Fresh(responseToCache'[y][s], w)
    <3>1. responseToCache'[y][s] \in Seq(ResponseMsg)
      BY DEF TypeOK, ChannelsTypeOK
    <3>2. \A m \in Messages(responseToCache'[y][s], a) : m.Type # "Data"
      BY <1>2 DEF OnlyCopy, AnswersOf, LineOfPairs
    <3>3. Fresh(responseToCache'[y][s], v)
      BY DEF AnswersFresh
    <3> QED
      BY <1>7, <1>8, <3>1, <3>2, <3>3, FreshElsewhere
  <2> QED
    BY <2>1 DEF AnswersFresh
<1>10. HomesFresh(responseToDir', w)
  <2>1. ASSUME NEW y \in Cache PROVE Fresh(responseToDir'[y], w)
    <3>1. responseToDir'[y] \in Seq(CacheResponse)
      BY DEF TypeOK, ChannelsTypeOK
    <3>2. Messages(responseToDir'[y], a) = {}
      BY <1>2 DEF OnlyCopy, HomeOf, LineOf
    <3>3. Fresh(responseToDir'[y], v)
      BY DEF DataInv, HomesFresh
    <3>4. \A m \in CacheResponse : m.addr \in Addr
      BY <1>7 DEF CacheResponse
    <3> QED
      BY <1>8, <3>1, <3>2, <3>3, <3>4, FreshElsewhere
  <2> QED
    BY <2>1 DEF HomesFresh
<1>11. WritesFresh(memQueue', w)
  <2>1. ASSUME NEW m \in memQueue', m.Type = "MEMORY_WB" PROVE m.DataBlk = w[m.addr]
    <3>1. m \in MemoryMsg /\ m.addr \in Addr
      BY <2>1 DEF TypeOK, DirTypeOK, MemoryMsg
    <3>2. m.addr # a
      BY <1>2, <2>1 DEF OnlyCopy, AtMemory
    <3>3. m.DataBlk = v[m.addr]
      BY <2>1 DEF DataInv, WritesFresh, dirVars
    <3> QED
      BY <1>8, <3>1, <3>2, <3>3
  <2> QED
    BY <2>1 DEF WritesFresh
<1>12. MemoryFresh(directory', memory', w)
  <2>1. directory'[a].DirState \in {"M", "S_D"}
    BY <1>2 DEF OnlyCopy
  <2>2. MemoryFresh(directory', memory', v)
    BY DEF DataInv, dirVars
  <2> QED
    BY <1>8, <2>1, <2>2 DEF MemoryFresh
<1>13. PutsCarry'
  <2>1. LineState(c, a)' # "MI_A"
    BY <1>1 DEF LineState
  <2> QED
    BY <1>1, <1>5, <2>1, PutsKept DEF DataInv
<1> QED
  BY <1>4, <1>6, <1>9, <1>10, <1>11, <1>12, <1>13 DEF DataInv

(* Every step of a cache that finishes a store.                            *)
LEMMA StoreFresh ==
  ASSUME TypeOK, TypeOK', DirInv', AllocInv, LinesInv', DataInv, NEW c \in Cache,
         NEW d \in Data,
         \/ \E a \in Addr : M_Store(c, a, d)
         \/ \E s \in Machine : Upgrade_Data(c, s, d) \/ LastInvAck(c, s, d),
         UNCHANGED dirVars
  PROVE  DataInv'
<1>1. PICK v : v = latest
  OBVIOUS
<1>2. AnswersFresh(responseToCache, v)
  BY <1>1 DEF DataInv
<1>3. ASSUME NEW a \in Addr, M_Store(c, a, d) PROVE DataInv'
  <2>1. PICK l : l = writeDataToCache(line[c][a], d)
    OBVIOUS
  <2>2. /\ LineState(c, a) = "M" /\ Update(c, a, l, "M")
        /\ latest' = [latest EXCEPT ![a] = d]
        /\ UNCHANGED <<requestToDir, requestFromCache, forwardToCache, responseToDir,
                       responseToCache>>
    BY <1>3, <2>1 DEF M_Store, Mandatory, writeCallback, channels
  <2>3. line[c][a] \in Line /\ line[c][a].block
    BY <1>3, <2>2, BlockData DEF AllocInv, AllocationFits, LineState
  <2>4. setState(l, "M").State = "M" /\ setState(l, "M").DataBlk = d
    BY <2>1, <2>3, DataWritten
  <2>5. AnswersFresh(responseToCache', v)
    BY <1>2, <2>2
  <2> QED
    BY <1>1, <1>3, <2>2, <2>4, <2>5, WriteFresh
<1>4. ASSUME NEW s \in Machine, Upgrade_Data(c, s, d) \/ LastInvAck(c, s, d) PROVE DataInv'
  <2>1. PICK m, a, l : /\ m = Head(responseToCache[c][s]) /\ a = m.addr
                       /\ l = deallocateTBE(writeDataToCache(line[c][a], d))
    OBVIOUS
  <2>2. /\ Collects(c, s, m, l, "M") /\ ResponseAssertsHold(c, m)
        /\ LineState(c, a) # "I" /\ latest' = [latest EXCEPT ![a] = d]
    BY <1>4, <2>1 DEF Upgrade_Data, LastInvAck, Responded, Collects, dirVars, writeCallback
  <2>3. a \in Addr /\ line[c][a] \in Line /\ line[c][a].block
    BY <2>1, <2>2, ResponseBlock
  <2>4. setState(l, "M").State = "M" /\ setState(l, "M").DataBlk = d
    BY <2>1, <2>3, Finished, DataWritten
  <2>5. /\ responseToCache[c][s] # <<>> /\ popResponseQueue(c, s) /\ Update(c, a, l, "M")
        /\ UNCHANGED <<requestToDir, requestFromCache, forwardToCache, responseToDir>>
    BY <2>1, <2>2 DEF Collects
  <2>6. AnswersFresh(responseToCache', v)
    BY <1>2, <2>1, <2>5, AnswersTaken
  <2> QED
    BY <1>1, <2>2, <2>3, <2>4, <2>5, <2>6, WriteFresh
<1> QED
  BY <1>3, <1>4

-----------------------------------------------------------------------------
(* The requests that the directory serves.                                 *)

(* Each cache of D gets forward k of line a.                               *)
Forwarding(D, a, k) ==
  /\ \A c \in Cache : ForwardsOf(a)'[c] =
       ForwardsOf(a)[c] \cup (IF c \in D THEN {k} ELSE {})
  /\ \A b : b # a => ForwardsOf(b)' = ForwardsOf(b)

(* Sending a forward to the caches of D gives each of them one.            *)
LEMMA ForwardsAre ==
  ASSUME TypeOK, NEW D, NEW type, NEW a \in Addr, NEW r, Forward(D, type, a, r),
         NEW k \in ForwardMsg, k = ForwardOf(type, a, r)
  PROVE  Forwarding(D, a, k)
<1>1. /\ forwardToCache \in [Cache -> Seq(ForwardMsg)]
      /\ forwardToCache' =
           [c \in Cache |-> IF c \in D THEN Append(forwardToCache[c], k)
                                       ELSE forwardToCache[c]]
  BY Zenon DEF TypeOK, ChannelsTypeOK, Forward, ForwardOf
<1>2. Broadcasts(forwardToCache, forwardToCache', D, k)
  BY <1>1, ArrayBroadcast, Zenon
<1>3. k.addr = a
  BY DEF ForwardOf
<1> QED
  BY <1>2, <1>3 DEF Broadcasts, Forwarding, ForwardsOf

(* A step that sends none gives it to no cache.                            *)
LEMMA NoForward ==
  ASSUME UNCHANGED forwardToCache, NEW a, NEW k
  PROVE  Forwarding({}, a, k)
BY Untouched DEF Forwarding

(* A forward of line a reaches a cache that evicts it while it has to      *)
(* answer one: k is no question, or an acknowledgement is not there yet.   *)
LEMMA QuestionsAnswered ==
  ASSUME NEW F, NEW k, k.Type \in {"GetS", "GetM"} => MustAnswer(F),
         MustAnswer(F \cup {k})
  PROVE  MustAnswer(F)
BY DEF MustAnswer

(* A request taken, whatever is sent for it.                               *)
LEMMA RequestMoves ==
  ASSUME TypeOK, ChannelInv, DataInv, NEW m, NEW a, Serves(m), a = m.addr,
         NEW D, NEW k, Forwarding(D, a, k),
         k.Type \in {"GetS", "GetM"} => \A y \in D :
           LineState(y, a) = "MI_A" => MustAnswer(ForwardsOf(a)[y]),
         UNCHANGED <<line, latest, requestToDir>>
  PROVE  LinesFresh' /\ PutsCarry'
<1>1. a \in Addr /\ ArrivedOf(a)' \subseteq ArrivedOf(a)
      /\ \A b : b # a => ArrivedOf(b)' = ArrivedOf(b)
  BY RequestServed
<1>2. \A b : SentOf(b)' = SentOf(b)
  BY Untouched
<1>3. ASSUME NEW y \in Cache, NEW b \in Addr, LineState(y, b) = "MI_A",
             MustAnswer(ForwardsOf(b)'[y])
      PROVE  MustAnswer(ForwardsOf(b)[y])
  <2>1. CASE b # a
    BY <1>3, <2>1 DEF Forwarding
  <2>2. CASE b = a /\ y \notin D
    <3>1. ForwardsOf(a)'[y] = ForwardsOf(a)[y]
      BY <2>2 DEF Forwarding
    <3> QED
      BY <1>3, <2>2, <3>1
  <2>3. CASE b = a /\ y \in D
    <3>1. ForwardsOf(a)'[y] = ForwardsOf(a)[y] \cup {k}
      BY <2>3 DEF Forwarding
    <3>2. k.Type \in {"GetS", "GetM"} => MustAnswer(ForwardsOf(a)[y])
      BY <1>3, <2>3
    <3>3. MustAnswer(ForwardsOf(a)[y] \cup {k})
      BY <1>3, <2>3, <3>1
    <3> QED
      BY <2>3, <3>2, <3>3, QuestionsAnswered
  <2> QED
    BY <2>1, <2>2, <2>3
<1>4. LinesFresh'
  <2>1. ASSUME NEW y \in Cache, NEW b \in Addr, HasLatest(y, b)'
        PROVE  HasLatest(y, b)
    BY <1>3, <2>1 DEF HasLatest, LineState
  <2> QED
    BY <2>1 DEF DataInv, LinesFresh
<1>5. PutsCarry'
  <2>1. \A n : PutCarries(n) => PutCarries(n)'
    BY DEF PutCarries, LineState
  <2> QED
    BY <1>1, <1>2, <2>1 DEF DataInv, PutsCarry
<1> QED
  BY <1>4, <1>5

(* The states in which memory has the line's data.                         *)
Home == {"I", "S", "S_m", "M_m"}

(* The directory never enters one of them without.                         *)
LEMMA MemoryKept ==
  ASSUME TypeOK, NEW v, MemoryFresh(directory, memory, v), UNCHANGED memory,
         NEW a \in Addr, NEW e \in Entry, NEW s, UpdateEntry(a, e, s),
         s \in Home => dirState(a) \in Home
  PROVE  MemoryFresh(directory', memory', v)
<1>1. directory'[a].DirState = s
  BY EntryUpdated, StateSet
<1>2. \A b \in Addr : b # a => directory'[b] = directory[b]
  BY EntryUpdated
<1> QED
  BY <1>1, <1>2 DEF MemoryFresh, dirState, Home

(* What is written to memory is the line's data.                           *)
LEMMA WritesQueued ==
  ASSUME NEW v, WritesFresh(memQueue, v), NEW type, NEW a, NEW r, NEW d,
         queueMemory(type, a, r, d), type = "MEMORY_WB" => d = v[a]
  PROVE  WritesFresh(memQueue', v)
BY DEF WritesFresh, queueMemory

(* An owner has the line's data, or is to get it: if it evicts the line it *)
(* has not been acknowledged.                                              *)
LEMMA OwnerAnswers ==
  ASSUME TypeOK, LinesInv, NEW a \in Addr, dirState(a) = "M",
         NEW y \in directory[a].Owner
  PROVE  /\ y \in Cache
         /\ LineState(y, a) \in PutStates => LineState(y, a) = "MI_A"
         /\ LineState(y, a) = "MI_A" => MustAnswer(ForwardsOf(a)[y])
<1>1. PICK stage \in StageType, by \in ByType,
           chain \in Seq(Cache), inv \in SUBSET Cache, ack \in SUBSET Cache :
        LineInvNow(a, stage, by, chain, inv, ack)
  BY Witnesses
<1>2. PICK state, forwards, e : state = StateOf(a) /\ forwards = ForwardsOf(a) /\ e = directory[a]
  OBVIOUS
<1>3. /\ AskedOK(a, forwards, state, stage, by) /\ AckedOK(a, forwards, stage)
      /\ OwnersOK(state, stage, by, chain) /\ EntryOK(e, stage, chain)
  BY <1>1, <1>2, Zenon DEF LineInvNow, LineInv
<1>4. forwards \in ForwardsType(a) /\ y \in Cache /\ state[y] = LineState(y, a)
  BY <1>2, LineIsTyped DEF LineTyped, Entry, StateOf, LineState
<1>5. chain # <<>> /\ y = LastOf(chain)
  BY <1>2, <1>3 DEF EntryOK, dirState
<1>6. InChain(y, chain)
  <2>1. Len(chain) \in 1..Len(chain)
    BY <1>5
  <2> QED
    BY <1>5, <2>1 DEF InChain, LastOf
<1>7. Owning(y, state, stage, by)
  BY <1>3, <1>4, <1>6 DEF OwnersOK
<1>8. state[y] = "MI_A" => MustAnswer(forwards[y])
  BY <1>3, <1>4, <1>7, OwningIsAsked
<1>9. state[y] \in PutStates => state[y] = "MI_A"
  BY <1>7 DEF Owning, PutStates
<1> QED
  BY <1>2, <1>4, <1>8, <1>9

(* The data of the owner's PutM.                                           *)
LEMMA PutCarriesLatest ==
  ASSUME TypeOK, LinesInv, DataInv, NEW a \in Addr, dirState(a) = "M",
         NEW m \in ArrivedOf(a), m.Type = "PutM", m.Requestor \in directory[a].Owner
  PROVE  m.DataBlk = latest[a]
<1>1. PICK stage \in StageType, by \in ByType,
           chain \in Seq(Cache), inv \in SUBSET Cache, ack \in SUBSET Cache :
        LineInvNow(a, stage, by, chain, inv, ack)
  BY Witnesses
<1>2. ArrivedOK(ArrivedOf(a), StateOf(a), stage)
  BY <1>1, Zenon DEF LineInvNow, LineInv
<1>3. PICK r : r = m.Requestor
  OBVIOUS
<1>4. /\ r \in Cache
      /\ LineState(r, a) \in PutStates => LineState(r, a) = "MI_A"
      /\ LineState(r, a) = "MI_A" => MustAnswer(ForwardsOf(a)[r])
  BY <1>3, OwnerAnswers
<1>5. LineState(r, a) = "MI_A"
  BY <1>2, <1>3, <1>4 DEF ArrivedOK, Fits, StateOf, LineState
<1>6. line[r][a].DataBlk = latest[a]
  BY <1>4, <1>5 DEF DataInv, LinesFresh, HasLatest
<1>7. m.addr = a
  BY DEF ArrivedOf, Messages
<1> QED
  BY <1>3, <1>5, <1>6, <1>7 DEF DataInv, PutsCarry, PutCarries

-----------------------------------------------------------------------------
(* The directory serves a request: what is left to show of it.             *)
LEMMA ServedFresh ==
  ASSUME TypeOK, ChannelInv, DataInv, NEW m, NEW a, Serves(m), a = m.addr,
         NEW D, NEW k, Forwarding(D, a, k),
         k.Type \in {"GetS", "GetM"} => \A y \in D :
           LineState(y, a) = "MI_A" => MustAnswer(ForwardsOf(a)[y]),
         NEW v, v = latest, WritesFresh(memQueue', v), MemoryFresh(directory', memory', v),
         UNCHANGED <<line, latest, requestToDir, responseToDir, responseToCache>>
  PROVE  DataInv'
<1>1. LinesFresh' /\ PutsCarry'
  BY RequestMoves
<1>2. AnswersFresh(responseToCache', v) /\ HomesFresh(responseToDir', v)
  BY DEF DataInv, AnswersFresh, HomesFresh, Fresh
<1>3. latest' = v
  OBVIOUS
<1> QED
  BY <1>1, <1>2, <1>3 DEF DataInv

(* transition({I, S}, GetS, S_m)                                           *)
LEMMA ReadFresh ==
  ASSUME TypeOK, ChannelInv, DataInv, IS_GetS, UNCHANGED cacheVars
  PROVE  DataInv'
<1>1. PICK m, a, r, e, v : /\ m = Head(requestFromCache) /\ a = m.addr /\ r = m.Requestor
                           /\ e = addReqToSharers(directory[a], r) /\ v = latest
  OBVIOUS
<1>2. /\ Serves(m) /\ dirState(a) \in {"I", "S"}
      /\ queueMemory("MEMORY_READ", a, r, ZeroBlock) /\ UpdateEntry(a, e, "S_m")
      /\ UNCHANGED <<memory, requestToDir, forwardToCache, responseToDir, responseToCache,
                     line, latest>>
  BY <1>1 DEF IS_GetS, Requested, Serves, sendMemRead, cacheVars
<1>3. a \in Addr /\ r \in Cache
  BY <1>1, <1>2, RequestServed
<1>4. directory[a] \in Entry
  BY <1>3 DEF TypeOK, DirTypeOK
<1>5. e \in Entry
  BY <1>1, <1>3, <1>4, SharerAdded
<1>6. WritesFresh(memQueue', v)
  BY <1>1, <1>2, WritesQueued DEF DataInv
<1>7. MemoryFresh(directory', memory', v)
  BY <1>1, <1>2, <1>3, <1>5, MemoryKept DEF DataInv, Home
<1>8. PICK k : k = ForwardOf("Inv", a, r)
  OBVIOUS
<1>9. Forwarding({}, a, k)
  BY <1>2, NoForward
<1> QED
  BY <1>1, <1>2, <1>6, <1>7, <1>9, ServedFresh

(* transition(I, GetM, M_m) and transition(S, GetM, M_m)                   *)
LEMMA ReadToWriteFresh ==
  ASSUME TypeOK, ChannelInv, DataInv, I_GetM \/ S_GetM, UNCHANGED cacheVars
  PROVE  DataInv'
<1>1. PICK m, a, r, k, v : /\ m = Head(requestFromCache) /\ a = m.addr /\ r = m.Requestor
                           /\ k = ForwardOf("Inv", a, r) /\ v = latest
  OBVIOUS
<1>2. /\ Serves(m) /\ dirState(a) \in {"I", "S"}
      /\ queueMemory("MEMORY_READ", a, r, ZeroBlock)
      /\ UNCHANGED <<memory, requestToDir, responseToDir, responseToCache, line, latest>>
  BY <1>1 DEF I_GetM, S_GetM, Requested, Serves, sendMemRead, cacheVars
<1>3. a \in Addr /\ r \in Cache
  BY <1>1, <1>2, RequestServed
<1>4. directory[a] \in Entry
  BY <1>3 DEF TypeOK, DirTypeOK
<1>5. k \in ForwardMsg /\ k.Type = "Inv"
  BY <1>1, <1>3 DEF ForwardOf, ForwardMsg
<1>6. PICK D, e : e \in Entry /\ UpdateEntry(a, e, "M_m") /\ Forwarding(D, a, k)
  <2>1. CASE I_GetM
    <3>1. PICK e : e = setOwner(directory[a], r)
      OBVIOUS
    <3>2. e \in Entry
      BY <1>3, <1>4, <3>1, OwnerSet
    <3>3. UpdateEntry(a, e, "M_m") /\ UNCHANGED forwardToCache
      BY <1>1, <2>1, <3>1 DEF I_GetM
    <3> QED
      BY <3>2, <3>3, NoForward
  <2>2. CASE S_GetM
    <3>1. PICK d, e, D : /\ d = removeReqFromSharers(directory[a], r)
                         /\ e = setOwner(d, r) /\ D = d.Sharers
      OBVIOUS
    <3>2. d \in Entry
      BY <1>4, <3>1, SharerRemoved
    <3>3. e \in Entry
      BY <1>3, <3>1, <3>2, OwnerSet
    <3>4. UpdateEntry(a, e, "M_m") /\ Forward(D, "Inv", a, r)
      BY <1>1, <2>2, <3>1 DEF S_GetM, sendInvToSharers
    <3>5. Forwarding(D, a, k)
      BY <1>1, <1>3, <1>5, <3>4, ForwardsAre
    <3> QED
      BY <3>3, <3>4, <3>5
  <2> QED
    BY <2>1, <2>2
<1>7. WritesFresh(memQueue', v)
  BY <1>1, <1>2, WritesQueued DEF DataInv
<1>8. MemoryFresh(directory', memory', v)
  BY <1>1, <1>2, <1>3, <1>6, MemoryKept DEF DataInv, Home
<1> QED
  BY <1>1, <1>2, <1>5, <1>6, <1>7, <1>8, ServedFresh

(* transition(M, GetS, S_D) and transition(M, GetM)                        *)
LEMMA ForwardedFresh ==
  ASSUME TypeOK, ChannelInv, LinesInv, DataInv, M_GetS \/ M_GetM, UNCHANGED cacheVars
  PROVE  DataInv'
<1>1. PICK m, a, r, d, D, v : /\ m = Head(requestFromCache) /\ a = m.addr /\ r = m.Requestor
                              /\ d = directory[a] /\ D = d.Owner /\ v = latest
  OBVIOUS
<1>2. /\ Serves(m) /\ dirState(a) = "M"
      /\ UNCHANGED <<memory, memQueue, requestToDir, responseToDir, responseToCache, line,
                     latest>>
  BY <1>1 DEF M_GetS, M_GetM, Requested, Serves, cacheVars
<1>3. a \in Addr /\ r \in Cache
  BY <1>1, <1>2, RequestServed
<1>4. d \in Entry
  BY <1>1, <1>3 DEF TypeOK, DirTypeOK
<1>5. PICK e, s, type : /\ e \in Entry /\ s \in {"S_D", "M"} /\ UpdateEntry(a, e, s)
                        /\ type \in {"GetS", "GetM"} /\ Forward(D, type, a, r)
  <2>1. CASE M_GetS
    <3>1. PICK f : f = addReqToSharers(d, r)
      OBVIOUS
    <3>2. PICK g : g = addOwnerToSharers(f)
      OBVIOUS
    <3>3. PICK e : e = clearOwner(g)
      OBVIOUS
    <3>4. f \in Entry
      BY <1>3, <1>4, <3>1, SharerAdded
    <3>5. g \in Entry
      BY <3>2, <3>4, OwnerAdded
    <3>6. e \in Entry
      BY <3>3, <3>5, OwnerCleared
    <3>7. UpdateEntry(a, e, "S_D") /\ Forward(D, "GetS", a, r)
      BY <1>1, <2>1, <3>1, <3>2, <3>3 DEF M_GetS, sendFwdGetS
    <3> QED
      BY <3>6, <3>7
  <2>2. CASE M_GetM
    <3>1. PICK f : f = clearOwner(d)
      OBVIOUS
    <3>2. PICK e : e = setOwner(f, r)
      OBVIOUS
    <3>3. f \in Entry
      BY <1>4, <3>1, OwnerCleared
    <3>4. e \in Entry
      BY <1>3, <3>2, <3>3, OwnerSet
    <3>5. UpdateEntry(a, e, "M") /\ Forward(D, "GetM", a, r)
      BY <1>1, <2>2, <3>1, <3>2 DEF M_GetM, sendFwdGetM
    <3> QED
      BY <3>4, <3>5
  <2> QED
    BY <2>1, <2>2
<1>6. PICK k : k = ForwardOf(type, a, r)
  OBVIOUS
<1>7. k \in ForwardMsg
  BY <1>3, <1>5, <1>6 DEF ForwardOf, ForwardMsg
<1>8. Forwarding(D, a, k)
  BY <1>3, <1>5, <1>6, <1>7, ForwardsAre
<1>9. \A y \in D : LineState(y, a) = "MI_A" => MustAnswer(ForwardsOf(a)[y])
  BY <1>1, <1>2, <1>3, OwnerAnswers
<1>10. WritesFresh(memQueue', v)
  BY <1>1, <1>2 DEF DataInv, WritesFresh
<1>11. MemoryFresh(directory', memory', v)
  BY <1>1, <1>2, <1>3, <1>5, MemoryKept DEF DataInv, Home
<1> QED
  BY <1>1, <1>2, <1>8, <1>9, <1>10, <1>11, ServedFresh

(* The directory acknowledges a put.                                       *)
LEMMA PutAckForwarded ==
  ASSUME TypeOK, NEW a \in Addr, NEW r, Forward({r}, "PutAck", a, Directory)
  PROVE  \E k : k.Type = "PutAck" /\ Forwarding({r}, a, k)
<1>1. PICK k : k = ForwardOf("PutAck", a, Directory)
  OBVIOUS
<1>2. k \in ForwardMsg /\ k.Type = "PutAck"
  BY <1>1 DEF ForwardOf, ForwardMsg
<1>3. Forwarding({r}, a, k)
  BY <1>1, <1>2, ForwardsAre
<1> QED
  BY <1>2, <1>3

(* A put that takes no ownership away leaves memory as it is.              *)
LEMMA PutFresh ==
  ASSUME TypeOK, ChannelInv, DataInv,
         I_Put \/ M_Put \/ Shared_Put \/ S_PutSLast \/ S_D_PutSLast, UNCHANGED cacheVars
  PROVE  DataInv'
<1>1. PICK m, a, r, e, v : /\ m = Head(requestFromCache) /\ a = m.addr /\ r = m.Requestor
                           /\ e = removeReqFromSharers(directory[a], r) /\ v = latest
  OBVIOUS
<1>2. UNCHANGED <<line, latest>>
  BY DEF cacheVars
<1>3. /\ Serves(m) /\ Forward({r}, "PutAck", a, Directory)
      /\ \/ UNCHANGED directory
         \/ \E s : UpdateEntry(a, e, s) /\ (s \in Home => dirState(a) \in Home)
      /\ UNCHANGED <<memory, memQueue, requestToDir, responseToDir, responseToCache>>
  <2>1. CASE I_Put \/ M_Put
    BY <1>1, <2>1 DEF I_Put, M_Put, StalePut, Requested, Serves, sendPutAck, dirVars
  <2>2. CASE Shared_Put
    <3>1. UpdateEntry(a, e, dirState(a))
      BY <1>1, <2>2 DEF Shared_Put, dirState
    <3> QED
      BY <1>1, <2>2, <3>1 DEF Shared_Put, Requested, Serves, sendPutAck
  <2>3. CASE S_PutSLast
    <3>1. UpdateEntry(a, e, "I") /\ dirState(a) = "S"
      BY <1>1, <2>3 DEF S_PutSLast, Requested
    <3>2. dirState(a) \in Home
      BY <3>1 DEF Home
    <3> QED
      BY <1>1, <2>3, <3>1, <3>2 DEF S_PutSLast, Requested, Serves, sendPutAck
  <2>4. CASE S_D_PutSLast
    <3>1. UpdateEntry(a, e, "S_D") /\ "S_D" \notin Home
      BY <1>1, <2>4 DEF S_D_PutSLast, Home
    <3> QED
      BY <1>1, <2>4, <3>1 DEF S_D_PutSLast, Requested, Serves, sendPutAck
  <2> QED
    BY <2>1, <2>2, <2>3, <2>4
<1>4. a \in Addr
  BY <1>1, <1>3, RequestServed
<1>5. directory[a] \in Entry
  BY <1>4 DEF TypeOK, DirTypeOK
<1>6. e \in Entry
  BY <1>1, <1>5, SharerRemoved
<1>7. WritesFresh(memQueue', v)
  BY <1>1, <1>3 DEF DataInv, WritesFresh
<1>8. MemoryFresh(directory', memory', v)
  <2>1. MemoryFresh(directory, memory, v)
    BY <1>1 DEF DataInv
  <2>2. CASE UNCHANGED directory
    BY <1>3, <2>1, <2>2 DEF MemoryFresh
  <2>3. CASE \E s : UpdateEntry(a, e, s) /\ (s \in Home => dirState(a) \in Home)
    <3>1. PICK s : UpdateEntry(a, e, s) /\ (s \in Home => dirState(a) \in Home)
      BY <2>3
    <3> QED
      BY <1>3, <1>4, <1>6, <2>1, <3>1, MemoryKept
  <2> QED
    BY <1>3, <2>2, <2>3
<1>9. PICK k : k.Type = "PutAck" /\ Forwarding({r}, a, k)
  BY <1>3, <1>4, PutAckForwarded
<1> QED
  BY <1>1, <1>2, <1>3, <1>7, <1>8, <1>9, ServedFresh

(* transition(M, PutMOwner, MI_m)                                          *)
LEMMA OwnerPutFresh ==
  ASSUME TypeOK, ChannelInv, LinesInv, DataInv, M_PutMOwner, UNCHANGED cacheVars
  PROVE  DataInv'
<1>1. PICK m, a, r, d, e, v :
        /\ m = Head(requestFromCache) /\ a = m.addr /\ r = m.Requestor /\ d = m.DataBlk
        /\ e = clearOwner(directory[a]) /\ v = latest
  OBVIOUS
<1>2. /\ Serves(m) /\ dirState(a) = "M" /\ RequestEvent(m) = "PutMOwner"
      /\ queueMemory("MEMORY_WB", a, r, d) /\ UpdateEntry(a, e, "MI_m")
      /\ Forward({r}, "PutAck", a, Directory)
      /\ UNCHANGED <<memory, requestToDir, responseToDir, responseToCache, line, latest>>
  BY <1>1 DEF M_PutMOwner, Requested, Serves, sendDataToMem, sendPutAck, cacheVars
<1>3. a \in Addr /\ r \in Cache /\ m \in ArrivedOf(a) /\ m \in RequestMsg
  BY <1>1, <1>2, RequestServed
<1>4. m.Type = "PutM" /\ m.Requestor \in directory[a].Owner
  BY <1>1, <1>2, <1>3, RequestEvents
<1>5. d = v[a]
  BY <1>1, <1>2, <1>3, <1>4, PutCarriesLatest
<1>6. directory[a] \in Entry
  BY <1>3 DEF TypeOK, DirTypeOK
<1>7. e \in Entry
  BY <1>1, <1>6, OwnerCleared
<1>8. WritesFresh(memQueue', v)
  BY <1>1, <1>2, <1>5, WritesQueued DEF DataInv
<1>9. MemoryFresh(directory', memory', v)
  BY <1>1, <1>2, <1>3, <1>7, MemoryKept DEF DataInv, Home
<1>10. PICK k : k.Type = "PutAck" /\ Forwarding({r}, a, k)
  BY <1>2, <1>3, PutAckForwarded
<1> QED
  BY <1>1, <1>2, <1>8, <1>9, <1>10, ServedFresh

(* Every request that the directory serves leaves the data where it was.   *)
LEMMA RequestStepFresh ==
  ASSUME TypeOK, ChannelInv, LinesInv, DataInv, RequestStep, UNCHANGED cacheVars
  PROVE  DataInv'
BY ReadFresh, ReadToWriteFresh, ForwardedFresh, PutFresh, OwnerPutFresh DEF RequestStep

-----------------------------------------------------------------------------
(* Steps of the directory that serve no request.                           *)

(* Blocks, forwards and requests untouched.                                *)
LEMMA CachesStill ==
  ASSUME DataInv, UNCHANGED <<line, latest, requestToDir, requestFromCache, forwardToCache>>
  PROVE  LinesFresh' /\ PutsCarry'
<1>1. \A a \in Addr : /\ SentOf(a)' = SentOf(a) /\ ArrivedOf(a)' = ArrivedOf(a)
                      /\ ForwardsOf(a)' = ForwardsOf(a)
  BY Untouched
<1>2. LinesFresh'
  BY <1>1 DEF DataInv, LinesFresh, HasLatest, LineState
<1>3. \A m : PutCarries(m) => PutCarries(m)'
  BY DEF PutCarries, LineState
<1> QED
  BY <1>1, <1>2, <1>3 DEF DataInv, PutsCarry

(* transition(S_D, Data, SS_m)                                             *)
LEMMA HomeFresh ==
  ASSUME TypeOK, DataInv, NEW c \in Cache, S_D_Data(c), UNCHANGED cacheVars
  PROVE  DataInv'
<1>1. PICK m, a, r, d, e, v : /\ m = Head(responseToDir[c]) /\ a = m.addr /\ r = m.Sender
                              /\ d = m.DataBlk /\ e = directory[a] /\ v = latest
  OBVIOUS
<1>2. /\ responseToDir[c] # <<>> /\ m.Type = "Data"
      /\ queueMemory("MEMORY_WB", a, r, d) /\ UpdateEntry(a, e, "SS_m")
      /\ responseToDir' = [responseToDir EXCEPT ![c] = Tail(@)]
      /\ UNCHANGED <<memory, requestToDir, requestFromCache, forwardToCache, responseToCache,
                     line, latest>>
  BY <1>1 DEF S_D_Data, sendRespDataToMem, popResponseFromCache, cacheVars
<1>3. responseToDir[c] \in Seq(CacheResponse)
  BY DEF TypeOK, ChannelsTypeOK
<1>4. m \in CacheResponse
  BY <1>1, <1>2, <1>3
<1>5. a \in Addr
  BY <1>1, <1>4 DEF CacheResponse, ResponseMsg
<1>6. e \in Entry
  BY <1>1, <1>5 DEF TypeOK, DirTypeOK
<1>7. HomesFresh(responseToDir, v)
  BY <1>1 DEF DataInv
<1>8. HomesFresh(responseToDir', v) /\ d = v[a]
  BY <1>1, <1>2, <1>7, HomesTaken
<1>9. WritesFresh(memQueue', v)
  BY <1>1, <1>2, <1>8, WritesQueued DEF DataInv
<1>10. MemoryFresh(directory', memory', v)
  BY <1>1, <1>2, <1>5, <1>6, MemoryKept DEF DataInv, Home
<1>11. AnswersFresh(responseToCache', v)
  BY <1>1, <1>2 DEF DataInv
<1>12. LinesFresh' /\ PutsCarry'
  BY <1>2, CachesStill
<1> QED
  BY <1>1, <1>2, <1>8, <1>9, <1>10, <1>11, <1>12 DEF DataInv

(* What is left for memory when it has answered m.                         *)
LEMMA WritesPopped ==
  ASSUME NEW v, WritesFresh(memQueue, v), NEW m, popMemQueue(m)
  PROVE  WritesFresh(memQueue', v)
BY DEF WritesFresh, popMemQueue

(* transition(S_m, MemData, S) and transition(M_m, MemData, M)             *)
LEMMA MemDataFresh ==
  ASSUME TypeOK, DataInv, NEW m \in memQueue, S_m_MemData(m) \/ M_m_MemData(m),
         UNCHANGED cacheVars
  PROVE  DataInv'
<1>1. PICK a, r, n, e, d, v :
        /\ a = m.addr /\ r = m.OriginalRequestor /\ e = directory[a] /\ n = AcksFor(e, r)
        /\ d = [Type |-> "Data", addr |-> a, Sender |-> Directory, Acks |-> n,
                DataBlk |-> memory[a]]
        /\ v = latest
  OBVIOUS
<1>2. /\ popMemQueue(m) /\ SendsAnswer(r, Directory, d)
      /\ e.DirState \in Home
      /\ UNCHANGED <<memory, requestToDir, requestFromCache, forwardToCache, responseToDir,
                     line, latest>>
  BY <1>1 DEF S_m_MemData, M_m_MemData, sendDataToReq, SendsAnswer, cacheVars, dirState, Home
<1>3. a \in Addr /\ r \in Cache
  BY <1>1 DEF TypeOK, DirTypeOK, MemoryMsg
<1>4. e \in Entry /\ memory[a] \in Data
  BY <1>1, <1>3 DEF TypeOK, DirTypeOK
<1>5. n \in Int
  BY <1>1, <1>4, AcksForType
<1>6. /\ d \in ResponseMsg /\ d.addr = a /\ d.DataBlk = memory[a]
      /\ Directory \in Machine
  BY <1>1, <1>3, <1>4, <1>5 DEF ResponseMsg, Machine
<1>7. memory[a] = v[a]
  BY <1>1, <1>2, <1>3 DEF DataInv, MemoryFresh, Home
<1>8. PICK f, s : f \in Entry /\ UpdateEntry(a, f, s)
  <2>1. CASE S_m_MemData(m)
    BY <1>1, <1>4, <2>1 DEF S_m_MemData
  <2>2. CASE M_m_MemData(m)
    <3>1. PICK f : f = clearSharers(e)
      OBVIOUS
    <3>2. f \in Entry
      BY <1>4, <3>1 DEF clearSharers, Entry
    <3>3. UpdateEntry(a, f, "M")
      BY <1>1, <2>2, <3>1 DEF M_m_MemData
    <3> QED
      BY <3>2, <3>3
  <2> QED
    BY <2>1, <2>2
<1>9. AnswersFresh(responseToCache', v)
  <2>1. AnswersFresh(responseToCache, v)
    BY <1>1 DEF DataInv
  <2> QED
    BY <1>2, <1>3, <1>6, <1>7, <2>1, AnswersSent
<1>10. WritesFresh(memQueue', v)
  BY <1>1, <1>2, WritesPopped DEF DataInv
<1>11. MemoryFresh(directory', memory', v)
  BY <1>1, <1>2, <1>3, <1>8, MemoryKept DEF DataInv, dirState
<1>12. HomesFresh(responseToDir', v)
  BY <1>1, <1>2 DEF DataInv
<1>13. LinesFresh' /\ PutsCarry'
  BY <1>2, CachesStill
<1> QED
  BY <1>1, <1>2, <1>9, <1>10, <1>11, <1>12, <1>13 DEF DataInv

(* transition(MI_m, MemAck, I) and transition(SS_m, MemAck, S)             *)
LEMMA MemAckFresh ==
  ASSUME TypeOK, DataInv, NEW m \in memQueue, MI_m_MemAck(m) \/ SS_m_MemAck(m),
         UNCHANGED cacheVars
  PROVE  DataInv'
<1>1. PICK a, e, v : a = m.addr /\ e = directory[a] /\ v = latest
  OBVIOUS
<1>2. /\ m.Type = "MEMORY_WB" /\ popMemQueue(m)
      /\ memory' = [memory EXCEPT ![a] = m.DataBlk]
      /\ UNCHANGED <<channels, line, latest>>
  BY <1>1 DEF MI_m_MemAck, SS_m_MemAck, MemAck, cacheVars
<1>3. a \in Addr
  BY <1>1 DEF TypeOK, DirTypeOK, MemoryMsg
<1>4. PICK s : UpdateEntry(a, e, s)
  BY <1>1 DEF MI_m_MemAck, SS_m_MemAck, MemAck
<1>5. m.DataBlk = v[a]
  BY <1>1, <1>2 DEF DataInv, WritesFresh
<1>6. MemoryFresh(directory', memory', v)
  <2>1. /\ memory'[a] = v[a]
        /\ \A b \in Addr : b # a => memory'[b] = memory[b]
    BY <1>2, <1>3, <1>5 DEF TypeOK, DirTypeOK
  <2>2. \A b \in Addr : b # a => directory'[b] = directory[b]
    BY <1>3, <1>4, EntryUpdated
  <2>3. MemoryFresh(directory, memory, v)
    BY <1>1 DEF DataInv
  <2> QED
    BY <2>1, <2>2, <2>3 DEF MemoryFresh
<1>7. WritesFresh(memQueue', v)
  BY <1>1, <1>2, WritesPopped DEF DataInv
<1>8. AnswersFresh(responseToCache', v) /\ HomesFresh(responseToDir', v)
  BY <1>1, <1>2 DEF DataInv, channels
<1>9. LinesFresh' /\ PutsCarry'
  BY <1>2, CachesStill DEF channels
<1> QED
  BY <1>1, <1>2, <1>6, <1>7, <1>8, <1>9 DEF DataInv

(* Every step of the directory.                                            *)
LEMMA DirStepFresh ==
  ASSUME TypeOK, ChannelInv, LinesInv, DataInv, DirNext, UNCHANGED cacheVars
  PROVE  DataInv'
BY RequestStepFresh, HomeFresh, MemDataFresh, MemAckFresh DEF DirNext, MemoryStep

(* A request reaches the directory.                                        *)
LEMMA DeliverFresh ==
  ASSUME TypeOK, ChannelInv, DataInv, NEW c \in Cache, Deliver(c),
         UNCHANGED <<cacheVars, dirVars>>
  PROVE  DataInv'
<1>1. PICK m, a : m = Head(requestToDir[c]) /\ a = m.addr
  OBVIOUS
<1>2. /\ requestToDir[c] # <<>>
      /\ requestToDir' = [requestToDir EXCEPT ![c] = Tail(@)]
      /\ requestFromCache' = Append(requestFromCache, m)
      /\ UNCHANGED <<forwardToCache, responseToDir, responseToCache, line, latest,
                     memQueue, memory, directory>>
  BY <1>1 DEF Deliver, cacheVars, dirVars
<1>3. /\ requestToDir \in [Cache -> Seq(RequestMsg)] /\ requestFromCache \in Seq(RequestMsg)
      /\ \A y \in Cache : Injective(requestToDir[y])
  BY DEF TypeOK, ChannelsTypeOK, ChannelInv
<1>4. m \in RequestMsg /\ Takes(requestToDir, requestToDir', c, m)
  BY <1>1, <1>2, <1>3, ArrayTail, Zenon
<1>5. a \in Addr
  BY <1>1, <1>4 DEF RequestMsg
<1>6. /\ m \in SentOf(a)[c]
      /\ ChangedAt(SentOf(a), SentOf(a)', c, SentOf(a)[c] \ {m})
      /\ \A b : b # a => SentOf(b)' = SentOf(b)
  BY <1>1, <1>4 DEF Takes, SentOf
<1>7. /\ ArrivedOf(a)' = ArrivedOf(a) \cup {m}
      /\ \A b : b # a => ArrivedOf(b)' = ArrivedOf(b)
  <2>1. /\ Messages(Append(requestFromCache, m), m.addr)
            = Messages(requestFromCache, m.addr) \cup {m}
        /\ OthersSee(requestFromCache, Append(requestFromCache, m), m.addr)
    BY <1>3, <1>4, MessagesAppended, ZenonT(30)
  <2>2. /\ Messages(requestFromCache', m.addr) = Messages(requestFromCache, m.addr) \cup {m}
        /\ OthersSee(requestFromCache, requestFromCache', m.addr)
    BY <1>2, <2>1, Zenon
  <2> QED
    BY <1>1, <2>2 DEF OthersSee, ArrivedOf
<1>8. ASSUME NEW b \in Addr
      PROVE  ArrivedOf(b)' \subseteq ArrivedOf(b) \cup UNION {SentOf(b)[y] : y \in Cache}
  BY <1>6, <1>7
<1>9. ASSUME NEW b \in Addr, NEW y \in Cache
      PROVE  SentOf(b)'[y] \subseteq SentOf(b)[y]
  BY <1>6 DEF ChangedAt
<1>10. PutsCarry'
  BY <1>2, <1>5, <1>8, <1>9, PutsKept DEF DataInv
<1>11. LinesFresh'
  <2>1. \A b \in Addr : ForwardsOf(b)' = ForwardsOf(b)
    BY <1>2, Untouched
  <2> QED
    BY <1>2, <2>1 DEF DataInv, LinesFresh, HasLatest, LineState
<1> QED
  BY <1>2, <1>10, <1>11 DEF DataInv

-----------------------------------------------------------------------------
(* The invariant.                                                          *)

(* Every step of a cache.                                                  *)
LEMMA CacheStepFresh ==
  ASSUME TypeOK, TypeOK', DirInv', AllocInv, ChannelInv, LinesInv, LinesInv', DataInv,
         CacheNext, UNCHANGED dirVars
  PROVE  DataInv'
<1>1. PICK c \in Cache :
        \/ \E a \in Addr, type \in RequestType : Issue(c, a, type)
        \/ MandatoryStep(c) \/ ForwardStep(c)
        \/ \E s \in Machine : ResponseStep(c, s)
  BY DEF CacheNext
<1>2. CASE \E a \in Addr, type \in RequestType : Issue(c, a, type)
  <2>1. UNCHANGED <<line, latest, channels, dirVars>>
    BY <1>2 DEF Issue
  <2> QED
    BY <2>1, NothingMoved
<1>3. CASE MandatoryStep(c)
  BY <1>3, MandatoryFresh, StoreFresh DEF MandatoryStep
<1>4. CASE ForwardStep(c)
  BY <1>4, ForwardFresh
<1>5. CASE \E s \in Machine : ResponseStep(c, s)
  BY <1>5, ResponseFresh, StoreFresh DEF ResponseStep
<1> QED
  BY <1>1, <1>2, <1>3, <1>4, <1>5

(* Every step of the protocol.                                             *)
LEMMA NextData ==
  ASSUME TypeOK, TypeOK', DirInv', AllocInv, ChannelInv, LinesInv, LinesInv', DataInv,
         [Next]_vars
  PROVE  DataInv'
<1>1. CASE CacheNext /\ UNCHANGED dirVars
  BY <1>1, CacheStepFresh
<1>2. CASE DirNext /\ UNCHANGED cacheVars
  BY <1>2, DirStepFresh
<1>3. ASSUME NEW c \in Cache, Deliver(c), UNCHANGED <<cacheVars, dirVars>>
      PROVE  DataInv'
  BY <1>3, DeliverFresh
<1>4. CASE PanicStep
  BY <1>4, NothingMoved DEF PanicStep, Panic, cacheVars
<1>5. CASE UNCHANGED vars
  BY <1>5, NothingMoved DEF vars, cacheVars
<1> QED
  BY <1>1, <1>2, <1>3, <1>4, <1>5 DEF Next

(* At first every line is at home, and nothing is on its way.              *)
LEMMA InitData == Init => DataInv
<1> SUFFICES ASSUME Init PROVE DataInv
  OBVIOUS
<1>1. \A c \in Cache, a \in Addr : LineState(c, a) = "I"
  BY DEF Init, CacheInit, LineState, Absent
<1>2. LinesFresh
  BY <1>1 DEF LinesFresh, HasLatest, Copied
<1>3. /\ \A c \in Cache : /\ responseToDir[c] = <<>>
                          /\ \A s \in Machine : responseToCache[c][s] = <<>>
      /\ memQueue = {}
  BY DEF Init, ChannelsInit, DirInit
<1>4. /\ AnswersFresh(responseToCache, latest) /\ HomesFresh(responseToDir, latest)
      /\ WritesFresh(memQueue, latest)
  BY <1>3 DEF AnswersFresh, HomesFresh, WritesFresh, Fresh
<1>5. MemoryFresh(directory, memory, latest)
  BY DEF Init, CacheInit, DirInit, MemoryFresh
<1>6. \A a \in Addr : ArrivedOf(a) = {} /\ \A c \in Cache : SentOf(a)[c] = {}
  BY EmptyChannel DEF Init, ChannelsInit, SentOf, ArrivedOf, LineOf
<1>7. PutsCarry
  BY <1>6 DEF PutsCarry
<1> QED
  BY <1>2, <1>4, <1>5, <1>7 DEF DataInv

(* The data of every line is, throughout, where DataInv says.              *)
LEMMA DataInvariant == Spec => []DataInv
<1>1. Init => DataInv
  BY InitData
<1>2. /\ TypeOK /\ TypeOK' /\ DirInv' /\ AllocInv /\ CoherenceInv /\ CoherenceInv' /\ DataInv
      /\ [Next]_vars
      => DataInv'
  BY NextData DEF CoherenceInv
<1> QED
  BY <1>1, <1>2, TypeCorrect, DirInvariant, AllocInvariant, CoherenceInvariant, PTL DEF Spec

(* A cache that may be read has the line's data.                           *)
LEMMA DataGivesValue == DataInv => DataValue
BY DEF DataInv, LinesFresh, HasLatest, Copied, DataValue, Readable

(* For any number of caches, lines and values, and whatever the order in   *)
(* which the networks deliver: a block that a CPU may read holds what the  *)
(* last store to the line wrote, whether it came from memory, from an      *)
(* owner, or was kept through an upgrade.                                  *)
THEOREM ReadersHaveLatest == Spec => []DataValue
  BY DataInvariant, DataGivesValue, PTL

-----------------------------------------------------------------------------
(* Where the latest data is.                                               *)

(* It is with the first of the owners, or under way to it: in its block or *)
(* in an answer.                                                           *)
LEMMA FirstOwnerHasData ==
  ASSUME TypeOK, AllocInv, DataInv, NEW a \in Addr, dirState(a) \in {"M", "S_D"},
         NEW stage \in StageType, NEW by \in ByType, NEW chain \in Seq(Cache),
         NEW inv \in SUBSET Cache, NEW ack \in SUBSET Cache,
         LineInvNow(a, stage, by, chain, inv, ack), chain # <<>>
  PROVE  \E c \in Cache :
           \/ line[c][a].block /\ line[c][a].DataBlk = latest[a]
           \/ \E s \in Machine : \E m \in AnswersOf(a)[c][s] : m.Type = "Data"
<1>1. PICK state, forwards, e, c :
        /\ state = StateOf(a) /\ forwards = ForwardsOf(a) /\ e = directory[a]
        /\ c = chain[1]
  OBVIOUS
<1>2. /\ AskedOK(a, forwards, state, stage, by) /\ AckedOK(a, forwards, stage)
      /\ DataSentOK(AnswersOf(a), stage, by)
      /\ OwnersOK(state, stage, by, chain) /\ LinksOK(stage, by, chain)
      /\ MemoryOK(e, state, stage)
  BY <1>1, Zenon DEF LineInvNow, LineInv
<1>3. /\ c \in Cache /\ forwards \in ForwardsType(a) /\ state[c] = LineState(c, a)
      /\ by[c] \in Machine
  <2>1. c \in Cache
    BY <1>1
  <2>2. forwards \in ForwardsType(a)
    BY <1>1, LineIsTyped DEF LineTyped
  <2> QED
    BY <1>1, <2>1, <2>2, ByTypes DEF StateOf, LineState
<1>4. 1 \in 1..Len(chain)
  OBVIOUS
<1>5. Owning(c, state, stage, by) /\ stage[c] # "forwarded"
  BY <1>1, <1>2, <1>3, <1>4 DEF OwnersOK, LinksOK, InChain
<1>6. CASE stage[c] = "answered"
  BY <1>2, <1>3, <1>6 DEF DataSentOK
<1>7. CASE stage[c] # "answered"
  <2>1. stage[c] # "memory"
    BY <1>1, <1>2, <1>3 DEF MemoryOK, dirState
  <2>2. state[c] = "MI_A" => MustAnswer(forwards[c])
    BY <1>2, <1>3, <1>5, OwningIsAsked
  <2>3. state[c] \in {"M", "IM_A", "SM_A", "MI_A"}
    BY <1>5, <1>7, <2>1 DEF Owning
  <2>4. HasLatest(c, a)
    BY <1>1, <1>3, <2>2, <2>3 DEF HasLatest, Copied
  <2>5. line[c][a].block
    BY <1>3, <2>3 DEF AllocInv, AllocationFits, LineState
  <2> QED
    BY <1>3, <2>4, <2>5 DEF DataInv, LinesFresh
<1> QED
  BY <1>6, <1>7

(* A line's data in a channel between machines and caches.                 *)
LEMMA AnswerHasData ==
  ASSUME DataInv, NEW a \in Addr, NEW c \in Cache, NEW s \in Machine,
         NEW m \in AnswersOf(a)[c][s], m.Type = "Data"
  PROVE  \E i \in DOMAIN responseToCache[c][s] :
           /\ responseToCache[c][s][i].addr = a
           /\ responseToCache[c][s][i].Type = "Data"
           /\ responseToCache[c][s][i].DataBlk = latest[a]
<1>1. PICK q : q = responseToCache[c][s]
  OBVIOUS
<1>2. Fresh(q, latest)
  BY <1>1 DEF DataInv, AnswersFresh
<1>3. m \in Messages(q, a)
  BY <1>1 DEF AnswersOf, LineOfPairs
<1>4. PICK i \in DOMAIN q : q[i].addr = a /\ q[i] = m
  BY <1>3, SeenInChannel
<1>5. q[i].Type = "Data" /\ q[i].DataBlk = latest[a]
  BY <1>2, <1>4 DEF Fresh
<1> QED
  BY <1>1, <1>4, <1>5

(* A line's data in a channel from a cache to the directory.               *)
LEMMA HomeHasData ==
  ASSUME DataInv, NEW a \in Addr, NEW c \in Cache, NEW m \in HomeOf(a)[c], m.Type = "Data"
  PROVE  \E i \in DOMAIN responseToDir[c] :
           /\ responseToDir[c][i].addr = a
           /\ responseToDir[c][i].Type = "Data"
           /\ responseToDir[c][i].DataBlk = latest[a]
<1>1. PICK q : q = responseToDir[c]
  OBVIOUS
<1>2. Fresh(q, latest)
  BY <1>1 DEF DataInv, HomesFresh
<1>3. m \in Messages(q, a)
  BY <1>1 DEF HomeOf, LineOf
<1>4. PICK i \in DOMAIN q : q[i].addr = a /\ q[i] = m
  BY <1>3, SeenInChannel
<1>5. q[i].Type = "Data" /\ q[i].DataBlk = latest[a]
  BY <1>2, <1>4 DEF Fresh
<1> QED
  BY <1>1, <1>4, <1>5

(* Whatever the directory's state, the data is somewhere but in a request. *)
LEMMA DataIsSomewhere ==
  ASSUME TypeOK, DirInv, AllocInv, LinesInv, DataInv
  PROVE  RequestsNeverOnlyCopy
<1> SUFFICES ASSUME NEW a \in Addr
    PROVE  \/ memory[a] = latest[a]
           \/ \E m \in memQueue : m.Type = "MEMORY_WB" /\ m.addr = a
                                   /\ m.DataBlk = latest[a]
           \/ \E c \in Cache : line[c][a].block /\ line[c][a].DataBlk = latest[a]
           \/ \E c \in Cache :
                \E q \in {responseToDir[c]} \cup {responseToCache[c][s] : s \in Machine} :
                  \E i \in DOMAIN q : q[i].addr = a /\ q[i].Type = "Data"
                                        /\ q[i].DataBlk = latest[a]
  BY DEF RequestsNeverOnlyCopy
<1>1. directory[a].DirState \in DirState
  BY DEF TypeOK, DirTypeOK, Entry
<1>2. CASE directory[a].DirState \in Home
  BY <1>2 DEF DataInv, MemoryFresh, Home
<1>3. CASE directory[a].DirState \in {"MI_m", "SS_m"}
  <2>1. PICK m : m \in AtMemory(a) /\ m.Type = "MEMORY_WB"
    BY <1>3 DEF DirInv, OneMemoryRequest, MemoryConsistent
  <2>2. m \in memQueue /\ m.addr = a
    BY <2>1 DEF AtMemory
  <2>3. m.DataBlk = latest[a]
    BY <2>1, <2>2 DEF DataInv, WritesFresh
  <2> QED
    BY <2>1, <2>2, <2>3
<1>4. CASE directory[a].DirState \in {"M", "S_D"}
  <2>1. PICK stage \in StageType, by \in ByType,
             chain \in Seq(Cache), inv \in SUBSET Cache, ack \in SUBSET Cache :
          LineInvNow(a, stage, by, chain, inv, ack)
    BY Witnesses
  <2>2. CASE chain # <<>>
    <3>1. dirState(a) \in {"M", "S_D"}
      BY <1>4 DEF dirState
    <3>2. PICK c \in Cache :
            \/ line[c][a].block /\ line[c][a].DataBlk = latest[a]
            \/ \E s \in Machine : \E m \in AnswersOf(a)[c][s] : m.Type = "Data"
      BY <2>1, <2>2, <3>1, FirstOwnerHasData
    <3>3. CASE \E s \in Machine : \E m \in AnswersOf(a)[c][s] : m.Type = "Data"
      <4>1. PICK s \in Machine : \E m \in AnswersOf(a)[c][s] : m.Type = "Data"
        BY <3>3
      <4>2. PICK q : q = responseToCache[c][s]
        OBVIOUS
      <4>3. \E i \in DOMAIN q : q[i].addr = a /\ q[i].Type = "Data" /\ q[i].DataBlk = latest[a]
        BY <4>1, <4>2, AnswerHasData
      <4>4. q \in {responseToDir[c]} \cup {responseToCache[c][z] : z \in Machine}
        BY <4>2
      <4> QED
        BY <4>3, <4>4
    <3> QED
      BY <3>2, <3>3
  <2>3. CASE chain = <<>>
    <3>1. HomeOK(HomeOf(a), directory[a], chain) /\ EntryOK(directory[a], stage, chain)
      BY <2>1, Zenon DEF LineInvNow, LineInv
    <3>2. PICK c, m : c \in Cache /\ m \in HomeOf(a)[c] /\ m.Type = "Data"
      BY <1>4, <2>3, <3>1 DEF HomeOK, EntryOK
    <3>3. PICK q : q = responseToDir[c]
      OBVIOUS
    <3>4. \E i \in DOMAIN q : q[i].addr = a /\ q[i].Type = "Data" /\ q[i].DataBlk = latest[a]
      BY <3>2, <3>3, HomeHasData
    <3> QED
      BY <3>2, <3>3, <3>4
  <2> QED
    BY <2>2, <2>3
<1> QED
  BY <1>1, <1>2, <1>3, <1>4 DEF DirState, Home

(* The most up-to-date data of a line is in memory, on its way there, in a *)
(* block or in a response at all times: never in a PutM alone, as the      *)
(* comment on functional accesses in MSI-msg.sm has it.                    *)
THEOREM DataNeverOnlyInRequests == Spec => []RequestsNeverOnlyCopy
<1>1. /\ TypeOK /\ DirInv /\ AllocInv /\ CoherenceInv /\ DataInv
      => RequestsNeverOnlyCopy
  BY DataIsSomewhere DEF CoherenceInv
<1> QED
  BY <1>1, TypeCorrect, DirInvariant, AllocInvariant, CoherenceInvariant, DataInvariant, PTL

-----------------------------------------------------------------------------
(* What a step of a cache makes of a line.                                 *)

(* What a load of a line in this state returns, and that a cache that only *)
(* waits for acks has some to wait for.                                    *)
Seen(k) == IF k.State \in Readable THEN k.DataBlk ELSE Nothing
Waits(k) == k.State \in {"IM_A", "SM_A"} => k.AcksOutstanding >= 1
AcksAwaited == \A c \in Cache, a \in Addr : Waits(line[c][a])

(* Line a of cache c comes to be k, and no other changes.                  *)
Becomes(c, a, k) ==
  /\ line'[c][a] = k
  /\ \A y \in Cache, b \in Addr : y # c \/ b # a => line'[y][b] = line[y][b]

(* ... a line of which a CPU sees what it saw or nothing any more.         *)
Quietly(c, a, k) ==
  Becomes(c, a, k) /\ Waits(k) /\ Seen(k) \in {Nothing, Seen(line[c][a])}

(* What a state written changes: the state, unless neither block nor TBE   *)
(* is there to write it to.                                                *)
LEMMA StateWritten ==
  ASSUME NEW l \in Line, NEW s, NEW k, k = setState(l, s)
  PROVE  /\ k.State \in {s, "I"} /\ k.DataBlk = l.DataBlk
         /\ k.AcksOutstanding = l.AcksOutstanding
  BY DEF setState, Line

(* A line that is updated so that no CPU sees new data in it.              *)
LEMMA UpdatedQuietly ==
  ASSUME TypeOK, NEW c \in Cache, NEW a \in Addr, NEW l \in Line, NEW s, Update(c, a, l, s),
         s \in {"IM_A", "SM_A"} => l.AcksOutstanding >= 1,
         s \in Readable => LineState(c, a) \in Readable /\ l.DataBlk = line[c][a].DataBlk
  PROVE  \E k : Quietly(c, a, k)
<1>1. PICK k : k = setState(l, s)
  OBVIOUS
<1>2. /\ k.State \in {s, "I"} /\ k.DataBlk = l.DataBlk
      /\ k.AcksOutstanding = l.AcksOutstanding
  BY <1>1, StateWritten
<1>3. Becomes(c, a, k)
  BY <1>1, BlockUpdated DEF Becomes
<1>4. Waits(k)
  BY <1>2 DEF Waits
<1>5. Seen(k) \in {Nothing, Seen(line[c][a])}
  <2>1. CASE k.State \in Readable
    BY <1>2, <2>1 DEF Seen, Readable, LineState
  <2>2. CASE k.State \notin Readable
    BY <2>2 DEF Seen
  <2> QED
    BY <2>1, <2>2
<1> QED
  BY <1>3, <1>4, <1>5 DEF Quietly

(* A line and what becomes of it when a cache allocates and deallocates.   *)
LEMMA LineWritten ==
  ASSUME TypeOK, NEW c \in Cache, NEW a \in Addr, NEW l, l = line[c][a]
  PROVE  /\ l \in Line /\ allocateTBE(allocateCacheBlock(l)) \in Line
         /\ allocateTBE(l) \in Line /\ allocateTBE(l).DataBlk = l.DataBlk
         /\ deallocateCacheBlock(l) \in Line
<1>1. l \in Line
  BY DEF TypeOK, CacheTypeOK
<1>2. allocateTBE(l).DataBlk = l.DataBlk
  BY <1>1 DEF allocateTBE, Line
<1> QED
  BY <1>1, <1>2, LineOperators

(* Requests of the CPU that miss, and evictions.                           *)
LEMMA MissIsQuiet ==
  ASSUME TypeOK, NEW c \in Cache, NEW a \in Addr,
         \/ I_Load(c, a) \/ I_Store(c, a) \/ S_Store(c, a)
         \/ S_Replacement(c, a) \/ M_Replacement(c, a)
  PROVE  (\E k : Quietly(c, a, k)) /\ UNCHANGED <<outstanding, latest>>
<1>1. PICK l : l = line[c][a]
  OBVIOUS
<1>2. /\ l \in Line /\ allocateTBE(allocateCacheBlock(l)) \in Line
      /\ allocateTBE(l) \in Line /\ allocateTBE(l).DataBlk = l.DataBlk
  BY <1>1, LineWritten
<1>3. CASE I_Load(c, a) \/ I_Store(c, a)
  <2>1. PICK k : k = allocateTBE(allocateCacheBlock(l))
    OBVIOUS
  <2>2. PICK s : s \in {"IS_D", "IM_AD"} /\ Update(c, a, k, s)
    BY <1>1, <1>3, <2>1 DEF I_Load, I_Store
  <2>3. s \notin Readable /\ s \notin {"IM_A", "SM_A"}
    BY <2>2 DEF Readable
  <2> QED
    BY <1>2, <1>3, <2>1, <2>2, <2>3, UpdatedQuietly DEF I_Load, I_Store
<1>4. CASE S_Store(c, a)
  <2>1. PICK k : k = allocateTBE(l)
    OBVIOUS
  <2>2. Update(c, a, k, "SM_AD") /\ LineState(c, a) = "S"
    BY <1>1, <1>4, <2>1 DEF S_Store, Mandatory
  <2> QED
    BY <1>1, <1>2, <1>4, <2>1, <2>2, UpdatedQuietly DEF S_Store, Readable
<1>5. CASE S_Replacement(c, a) \/ M_Replacement(c, a)
  <2>1. PICK s : s \in {"SI_A", "MI_A"} /\ Update(c, a, l, s)
    BY <1>1, <1>5 DEF S_Replacement, M_Replacement
  <2>2. s \notin Readable /\ s \notin {"IM_A", "SM_A"}
    BY <2>1 DEF Readable
  <2> QED
    BY <1>2, <1>5, <2>1, <2>2, UpdatedQuietly DEF S_Replacement, M_Replacement
<1> QED
  BY <1>3, <1>4, <1>5

(* Forwards: an owner that answers a reader keeps what it sees.            *)
LEMMA ForwardIsQuiet ==
  ASSUME TypeOK, NEW c \in Cache, ForwardStep(c)
  PROVE  (\E a \in Addr : \E k : Quietly(c, a, k)) /\ UNCHANGED <<outstanding, latest>>
<1>1. PICK m, a, l : m = Head(forwardToCache[c]) /\ a = m.addr /\ l = line[c][a]
  OBVIOUS
<1>2. a \in Addr
  BY <1>1, ForwardHead DEF ForwardStep, M_FwdGetS, MI_A_FwdGetS, OwnerFwdGetS, M_FwdGetM,
     MI_A_FwdGetM, S_Inv, SM_AD_Inv, SI_A_Inv, WaitingInv, PutAck
<1>3. l \in Line /\ deallocateCacheBlock(l) \in Line
  BY <1>1, <1>2, LineWritten
<1>4. PICK k, s :
        /\ k \in Line /\ Update(c, a, k, s)
        /\ s \in {"S", "SI_A", "I", "II_A", "IM_AD"}
        /\ s = "S" => LineState(c, a) = "M" /\ k.DataBlk = l.DataBlk
  <2>1. CASE M_FwdGetS(c)
    BY <1>1, <1>3, <2>1 DEF M_FwdGetS, OwnerFwdGetS, Forwarded
  <2>2. CASE MI_A_FwdGetS(c)
    BY <1>1, <1>3, <2>2 DEF MI_A_FwdGetS, OwnerFwdGetS
  <2>3. CASE M_FwdGetM(c)
    BY <1>1, <1>3, <2>3 DEF M_FwdGetM
  <2>4. CASE MI_A_FwdGetM(c)
    BY <1>1, <1>3, <2>4 DEF MI_A_FwdGetM
  <2>5. CASE S_Inv(c)
    BY <1>1, <1>3, <2>5 DEF S_Inv
  <2>6. CASE SM_AD_Inv(c) \/ SI_A_Inv(c)
    BY <1>1, <1>3, <2>6 DEF SM_AD_Inv, SI_A_Inv, WaitingInv
  <2>7. CASE PutAck(c)
    BY <1>1, <1>3, <2>7 DEF PutAck
  <2> QED
    BY <2>1, <2>2, <2>3, <2>4, <2>5, <2>6, <2>7 DEF ForwardStep
<1>5. /\ s \notin {"IM_A", "SM_A"}
      /\ s \in Readable => LineState(c, a) \in Readable /\ k.DataBlk = line[c][a].DataBlk
  BY <1>1, <1>4 DEF Readable
<1>6. \E j : Quietly(c, a, j)
  BY <1>2, <1>4, <1>5, UpdatedQuietly
<1>7. UNCHANGED <<outstanding, latest>>
  BY DEF ForwardStep, M_FwdGetS, MI_A_FwdGetS, OwnerFwdGetS, M_FwdGetM,
     MI_A_FwdGetM, S_Inv, SM_AD_Inv, SI_A_Inv, WaitingInv, PutAck
<1> QED
  BY <1>2, <1>6, <1>7

(* Responses that finish neither a load nor a store: the data that a cache *)
(* in SM_AD takes is what it has.                                          *)
LEMMA ResponseIsQuiet ==
  ASSUME TypeOK, AllocInv, DataInv, AcksAwaited, NEW c \in Cache, NEW s \in Machine,
         InvAck(c, s) \/ IM_AD_DataDirAcks(c, s) \/ SM_AD_DataDirAcks(c, s),
         UNCHANGED dirVars
  PROVE  (\E a \in Addr : \E k : Quietly(c, a, k)) /\ UNCHANGED <<outstanding, latest>>
<1>1. PICK m, a, d, n, k : /\ m = Head(responseToCache[c][s]) /\ a = m.addr
                           /\ d = m.DataBlk /\ n = m.Acks /\ k = line[c][a]
  OBVIOUS
<1>2. responseToCache[c][s] # <<>>
  BY DEF InvAck, IM_AD_DataDirAcks, SM_AD_DataDirAcks, DataDirAcks, Responded
<1>3. m \in ResponseMsg /\ m.Type \in {"Data", "InvAck"} /\ a \in Addr /\ d \in Data /\ n \in Int
  BY <1>1, <1>2, ResponseHead DEF ResponseMsg
<1>4. k \in Line /\ k.AcksOutstanding \in Int
  BY <1>1, <1>3, LineWritten DEF Line
<1>5. CASE InvAck(c, s)
  <2>1. PICK l, t : l = decrAcks(k) /\ t = LineState(c, a)
    OBVIOUS
  <2>2. /\ Update(c, a, l, t) /\ k.AcksOutstanding # 1 /\ UNCHANGED <<outstanding, latest>>
    <3>1. ResponseEvent(m, k.AcksOutstanding) = "InvAck"
      BY <1>1, <1>5 DEF InvAck, Responded
    <3>2. k.AcksOutstanding # 1
      BY <3>1 DEF ResponseEvent
    <3> QED
      BY <1>1, <1>5, <2>1, <3>2 DEF InvAck
  <2>3. l \in Line /\ l.DataBlk = k.DataBlk /\ l.AcksOutstanding = k.AcksOutstanding - 1
    BY <1>4, <2>1, LineOperators DEF decrAcks, Line
  <2>4. t \in {"IM_A", "SM_A"} => k.AcksOutstanding >= 1
    BY <1>1, <1>3, <2>1 DEF AcksAwaited, Waits, LineState
  <2>5. t \in {"IM_A", "SM_A"} => l.AcksOutstanding >= 1
    BY <1>4, <2>2, <2>3, <2>4
  <2>6. \E j : Quietly(c, a, j)
    BY <1>1, <1>3, <2>1, <2>2, <2>3, <2>5, UpdatedQuietly
  <2> QED
    BY <1>3, <2>2, <2>6
<1>6. ASSUME NEW from, NEW to, DataDirAcks(c, s, from, to),
             \/ from = "IM_AD" /\ to = "IM_A"
             \/ from = "SM_AD" /\ to = "SM_A"
      PROVE  (\E b \in Addr : \E j : Quietly(c, b, j)) /\ UNCHANGED <<outstanding, latest>>
  <2>1. PICK w, l : w = writeDataToCache(k, d) /\ l = storeAcks(w, n)
    OBVIOUS
  <2>2. /\ Collects(c, s, m, l, to) /\ ResponseAssertsHold(c, m)
        /\ ResponseEvent(m, k.AcksOutstanding) = "DataDirAcks"
        /\ LineState(c, a) = from /\ UNCHANGED <<outstanding, latest>>
    BY <1>1, <1>6, <2>1 DEF DataDirAcks, Responded, Collects, dirVars
  <2>3. m.Sender = Directory /\ n + k.AcksOutstanding # 0
    BY <1>1, <2>2 DEF ResponseEvent
  <2>4. m.Type = "Data" /\ n + k.AcksOutstanding >= 0
    BY <1>1, <2>2, <2>3 DEF ResponseAssertsHold
  <2>5. w \in Line /\ w.DataBlk = d /\ w.AcksOutstanding = k.AcksOutstanding
    BY <1>3, <1>4, <2>1, LineOperators DEF writeDataToCache, Line
  <2>6. l \in Line /\ l.DataBlk = d /\ l.AcksOutstanding = n + k.AcksOutstanding
    BY <1>3, <1>4, <2>1, <2>5, LineOperators DEF storeAcks, Line
  <2>7. l.AcksOutstanding >= 1
    BY <1>3, <1>4, <2>3, <2>4, <2>6
  <2>8. d = latest[a]
    BY <1>1, <2>2, <2>4, LatestTaken
  <2>9. from = "SM_AD" => k.DataBlk = latest[a]
    BY <1>1, <1>3, <2>2 DEF DataInv, LinesFresh, HasLatest, Copied
  <2>10. to \in Readable => LineState(c, a) \in Readable /\ l.DataBlk = line[c][a].DataBlk
    BY <1>1, <1>6, <2>2, <2>6, <2>8, <2>9 DEF Readable
  <2>11. Update(c, a, l, to)
    BY <1>1, <2>2 DEF Collects
  <2>12. \E j : Quietly(c, a, j)
    BY <1>3, <2>6, <2>7, <2>10, <2>11, UpdatedQuietly
  <2> QED
    BY <1>3, <2>2, <2>12
<1> QED
  BY <1>5, <1>6 DEF IM_AD_DataDirAcks, SM_AD_DataDirAcks

-----------------------------------------------------------------------------
(* Answers to the CPU.                                                     *)

(* The callback of the sequencer for the request of this type.             *)
Answered(c, a, type) == outstanding[c][a] = type /\ Callback(c, a)

(* A load that returns the latest data, and a store of d.                  *)
LoadAnswered(c, a, k) ==
  /\ Answered(c, a, "Load") /\ UNCHANGED latest
  /\ Becomes(c, a, k) /\ k.State \in Readable /\ k.DataBlk = latest[a] /\ Waits(k)

StoreAnswered(c, a, k, d) ==
  /\ Answered(c, a, "Store") /\ latest' = [latest EXCEPT ![a] = d]
  /\ Becomes(c, a, k) /\ k.State = "M" /\ k.DataBlk = d

(* The line of a transaction that is over.                                 *)
LEMMA WrittenThenSet ==
  ASSUME NEW l \in Line, l.block, NEW d, NEW s, NEW k,
         k = setState(deallocateTBE(writeDataToCache(l, d)), s)
  PROVE  k.State = s /\ k.DataBlk = d
<1>1. k.State = s
  BY Finished
<1>2. k.DataBlk = d
  BY DataWritten
<1> QED
  BY <1>1, <1>2

(* What a cache takes from its mandatory queue is outstanding.             *)
LEMMA TakenIsOutstanding ==
  ASSUME TypeOK, AllocInv, NEW c \in Cache, NEW a \in Addr, NEW type, NEW states,
         Mandatory(c, a, type, states)
  PROVE  outstanding[c][a] = type
<1>1. PICK q, out, e : /\ q = mandatoryQueue[c] /\ out = outstanding[c]
                       /\ e = [Type |-> type, LineAddress |-> a]
  OBVIOUS
<1>2. q # <<>> /\ Head(q) = e
  BY <1>1 DEF Mandatory
<1>3. q \in Seq(CPURequest) /\ QueueAgrees(q, out)
  BY <1>1 DEF TypeOK, CacheTypeOK, AllocInv
<1>4. out[Head(q).LineAddress] = Head(q).Type
  BY <1>2, <1>3, QueueTaken
<1>5. e.LineAddress = a /\ e.Type = type
  BY <1>1
<1> QED
  BY <1>1, <1>2, <1>4, <1>5

(* Loads that hit.                                                         *)
LEMMA LoadHitAnswers ==
  ASSUME TypeOK, AllocInv, DataInv, AcksAwaited, NEW c \in Cache, NEW a \in Addr, LoadHit(c, a)
  PROVE  \E k : LoadAnswered(c, a, k)
<1>1. PICK k : k = line[c][a]
  OBVIOUS
<1>2. Mandatory(c, a, "Load", {"S", "SM_AD", "SM_A", "M"})
  BY DEF LoadHit
<1>3. outstanding[c][a] = "Load"
  BY <1>2, TakenIsOutstanding
<1>4. k.State \in Readable
  BY <1>1, <1>2 DEF Mandatory, Readable, LineState
<1>5. k.DataBlk = latest[a] /\ Waits(k)
  BY <1>1, <1>4, DataGivesValue DEF DataValue, AcksAwaited, LineState
<1>6. Becomes(c, a, k) /\ Callback(c, a) /\ UNCHANGED latest
  BY <1>1 DEF LoadHit, readCallback, Becomes
<1> QED
  BY <1>3, <1>4, <1>5, <1>6 DEF LoadAnswered, Answered

(* Stores that hit.                                                        *)
LEMMA StoreHitAnswers ==
  ASSUME TypeOK, AllocInv, NEW c \in Cache, NEW a \in Addr, NEW d \in Data, M_Store(c, a, d)
  PROVE  \E k : StoreAnswered(c, a, k, d)
<1>1. PICK l, w, k : l = line[c][a] /\ w = writeDataToCache(l, d) /\ k = setState(w, "M")
  OBVIOUS
<1>2. /\ Mandatory(c, a, "Store", {"M"}) /\ Update(c, a, w, "M")
      /\ Callback(c, a) /\ latest' = [latest EXCEPT ![a] = d]
  BY <1>1 DEF M_Store, writeCallback
<1>3. outstanding[c][a] = "Store"
  BY <1>2, TakenIsOutstanding
<1>4. l \in Line /\ l.block
  <2>1. l \in Line
    BY <1>1, LineWritten
  <2>2. l.State = "M"
    BY <1>1, <1>2 DEF Mandatory, LineState
  <2> QED
    BY <1>1, <2>1, <2>2 DEF AllocInv, AllocationFits
<1>5. k.State = "M" /\ k.DataBlk = d
  BY <1>1, <1>4, DataWritten
<1>6. Becomes(c, a, k)
  BY <1>1, <1>2, BlockUpdated DEF Becomes
<1> QED
  BY <1>2, <1>3, <1>5, <1>6 DEF StoreAnswered, Answered

(* The data a load waits for: it is the line's.                            *)
LEMMA LoadDataAnswers ==
  ASSUME TypeOK, AllocInv, DataInv, NEW c \in Cache, NEW s \in Machine, IS_D_Data(c, s),
         UNCHANGED dirVars
  PROVE  \E a \in Addr : \E k : LoadAnswered(c, a, k)
<1>1. PICK m, a, d, w : /\ m = Head(responseToCache[c][s]) /\ a = m.addr /\ d = m.DataBlk
                        /\ w = deallocateTBE(writeDataToCache(line[c][a], d))
  OBVIOUS
<1>2. /\ Collects(c, s, m, w, "S") /\ ResponseAssertsHold(c, m)
      /\ ResponseEvent(m, line[c][a].AcksOutstanding) \in {"DataDirNoAcks", "DataOwner"}
      /\ LineState(c, a) = "IS_D" /\ Callback(c, a) /\ UNCHANGED latest
  BY <1>1 DEF IS_D_Data, Responded, Collects, dirVars, readCallback
<1>3. a \in Addr /\ line[c][a] \in Line /\ line[c][a].block
  BY <1>1, <1>2, ResponseBlock
<1>4. m.Type = "Data"
  <2>1. m \in ResponseMsg
    BY <1>1, <1>2, ResponseHead DEF Collects
  <2> QED
    BY <1>2, <2>1 DEF ResponseEvent, ResponseAssertsHold, ResponseMsg
<1>5. d = latest[a]
  BY <1>1, <1>2, <1>4, LatestTaken
<1>6. PICK k : k = setState(w, "S")
  OBVIOUS
<1>7. k.State = "S" /\ k.DataBlk = d
  <2>1. PICK l : l = line[c][a]
    OBVIOUS
  <2>2. l \in Line /\ l.block /\ k = setState(deallocateTBE(writeDataToCache(l, d)), "S")
    BY <1>1, <1>3, <1>6, <2>1
  <2> QED
    BY <2>2, WrittenThenSet
<1>8. Becomes(c, a, k)
  <2>1. Update(c, a, w, "S")
    BY <1>1, <1>2 DEF Collects
  <2> QED
    BY <1>3, <1>6, <2>1, BlockUpdated DEF Becomes
<1>9. outstanding[c][a] = "Load"
  BY <1>2, <1>3 DEF AllocInv, RequestHeld, LineState
<1>10. LoadAnswered(c, a, k)
  BY <1>2, <1>5, <1>7, <1>8, <1>9 DEF LoadAnswered, Answered, Readable, Waits
<1> QED
  BY <1>3, <1>10

(* The data, or the last ack, a store waits for.                           *)
LEMMA StoreDataAnswers ==
  ASSUME TypeOK, AllocInv, NEW c \in Cache, NEW s \in Machine, NEW d \in Data,
         Upgrade_Data(c, s, d) \/ LastInvAck(c, s, d), UNCHANGED dirVars
  PROVE  \E a \in Addr : \E k : StoreAnswered(c, a, k, d)
<1>1. PICK m, a, w : /\ m = Head(responseToCache[c][s]) /\ a = m.addr
                     /\ w = deallocateTBE(writeDataToCache(line[c][a], d))
  OBVIOUS
<1>2. /\ Collects(c, s, m, w, "M") /\ ResponseAssertsHold(c, m)
      /\ LineState(c, a) \in Stalled /\ Callback(c, a) /\ latest' = [latest EXCEPT ![a] = d]
  BY <1>1 DEF Upgrade_Data, LastInvAck, Responded, Collects, dirVars, writeCallback, Stalled
<1>3. a \in Addr /\ line[c][a] \in Line /\ line[c][a].block
  BY <1>1, <1>2, ResponseBlock DEF Stalled
<1>4. PICK k : k = setState(w, "M")
  OBVIOUS
<1>5. k.State = "M" /\ k.DataBlk = d
  <2>1. PICK l : l = line[c][a]
    OBVIOUS
  <2>2. l \in Line /\ l.block /\ k = setState(deallocateTBE(writeDataToCache(l, d)), "M")
    BY <1>1, <1>3, <1>4, <2>1
  <2> QED
    BY <2>2, WrittenThenSet
<1>6. Becomes(c, a, k)
  <2>1. Update(c, a, w, "M")
    BY <1>1, <1>2 DEF Collects
  <2> QED
    BY <1>3, <1>4, <2>1, BlockUpdated DEF Becomes
<1>7. outstanding[c][a] = "Store"
  BY <1>2, <1>3 DEF AllocInv, RequestHeld, LineState
<1>8. StoreAnswered(c, a, k, d)
  BY <1>2, <1>5, <1>6, <1>7 DEF StoreAnswered, Answered
<1> QED
  BY <1>3, <1>8

(* A step of a cache issues a request, answers one, or does neither.       *)
Issues == \E c \in Cache, a \in Addr, type \in RequestType : Issue(c, a, type)
AnswersLoad == \E c \in Cache, a \in Addr : \E k : LoadAnswered(c, a, k)
AnswersStore ==
  \E c \in Cache, a \in Addr, d \in Data : \E k : StoreAnswered(c, a, k, d)
WorksOn ==
  /\ \E c \in Cache, a \in Addr : \E k : Quietly(c, a, k)
  /\ UNCHANGED <<outstanding, latest>>

(* No step of a cache does anything else.                                  *)
LEMMA CacheSteps ==
  ASSUME TypeOK, AllocInv, DataInv, AcksAwaited, CacheNext, UNCHANGED dirVars
  PROVE  Issues \/ AnswersLoad \/ AnswersStore \/ WorksOn
<1>1. PICK c \in Cache :
        \/ \E a \in Addr, type \in RequestType : Issue(c, a, type)
        \/ MandatoryStep(c) \/ ForwardStep(c)
        \/ \E s \in Machine : ResponseStep(c, s)
  BY DEF CacheNext
<1>2. CASE \E a \in Addr, type \in RequestType : Issue(c, a, type)
  BY <1>2 DEF Issues
<1>3. CASE MandatoryStep(c)
  <2>1. PICK a \in Addr :
          \/ I_Load(c, a) \/ I_Store(c, a) \/ LoadHit(c, a) \/ S_Store(c, a)
          \/ \E d \in Data : M_Store(c, a, d)
          \/ S_Replacement(c, a) \/ M_Replacement(c, a)
    BY <1>3 DEF MandatoryStep
  <2>2. CASE \/ I_Load(c, a) \/ I_Store(c, a) \/ S_Store(c, a)
             \/ S_Replacement(c, a) \/ M_Replacement(c, a)
    BY <2>2, MissIsQuiet DEF WorksOn
  <2>3. CASE LoadHit(c, a)
    BY <2>3, LoadHitAnswers DEF AnswersLoad
  <2>4. CASE \E d \in Data : M_Store(c, a, d)
    BY <2>4, StoreHitAnswers DEF AnswersStore
  <2> QED
    BY <2>1, <2>2, <2>3, <2>4
<1>4. CASE ForwardStep(c)
  BY <1>4, ForwardIsQuiet DEF WorksOn
<1>5. CASE \E s \in Machine : ResponseStep(c, s)
  <2>1. PICK s \in Machine : ResponseStep(c, s)
    BY <1>5
  <2>2. CASE IS_D_Data(c, s)
    BY <2>2, LoadDataAnswers DEF AnswersLoad
  <2>3. CASE InvAck(c, s) \/ IM_AD_DataDirAcks(c, s) \/ SM_AD_DataDirAcks(c, s)
    BY <2>3, ResponseIsQuiet DEF WorksOn
  <2>4. CASE \E d \in Data : Upgrade_Data(c, s, d) \/ LastInvAck(c, s, d)
    BY <2>4, StoreDataAnswers DEF AnswersStore
  <2> QED
    BY <2>1, <2>2, <2>3, <2>4 DEF ResponseStep
<1> QED
  BY <1>1, <1>2, <1>3, <1>4, <1>5

-----------------------------------------------------------------------------
(* A cache that only waits for acks has some to wait for.                  *)
LEMMA BecomesWaiting ==
  ASSUME AcksAwaited, NEW c \in Cache, NEW a \in Addr, NEW k, Becomes(c, a, k), Waits(k)
  PROVE  AcksAwaited'
BY DEF AcksAwaited, Becomes, Waits

(* Every step leaves it so.                                                *)
LEMMA NextAwaited ==
  ASSUME TypeOK, AllocInv, DataInv, AcksAwaited, [Next]_vars
  PROVE  AcksAwaited'
<1>1. CASE CacheNext /\ UNCHANGED dirVars
  <2>1. CASE Issues
    BY <2>1 DEF Issues, Issue, AcksAwaited, Waits
  <2>2. CASE AnswersLoad
    BY <2>2, BecomesWaiting DEF AnswersLoad, LoadAnswered
  <2>3. CASE AnswersStore
    <3>1. PICK c \in Cache, a \in Addr, d \in Data : \E k : StoreAnswered(c, a, k, d)
      BY <2>3 DEF AnswersStore
    <3>2. PICK k : StoreAnswered(c, a, k, d)
      BY <3>1
    <3>3. Becomes(c, a, k) /\ Waits(k)
      BY <3>2 DEF StoreAnswered, Waits
    <3> QED
      BY <3>3, BecomesWaiting
  <2>4. CASE WorksOn
    BY <2>4, BecomesWaiting DEF WorksOn, Quietly
  <2> QED
    BY <1>1, <2>1, <2>2, <2>3, <2>4, CacheSteps
<1>2. ASSUME UNCHANGED line PROVE AcksAwaited'
  BY <1>2 DEF AcksAwaited, Waits
<1> QED
  BY <1>1, <1>2 DEF Next, PanicStep, vars, cacheVars

(* So it is throughout.                                                    *)
LEMMA AwaitedInvariant == Spec => []AcksAwaited
<1>1. Init => AcksAwaited
  BY DEF Init, CacheInit, AcksAwaited, Waits, Absent
<1>2. TypeOK /\ AllocInv /\ DataInv /\ AcksAwaited /\ [Next]_vars => AcksAwaited'
  BY NextAwaited
<1> QED
  BY <1>1, <1>2, TypeCorrect, AllocInvariant, DataInvariant, PTL DEF Spec

-----------------------------------------------------------------------------
(* A line for which nothing is in flight.                                  *)

(* A line sees nothing of a channel that has none of its messages.         *)
LEMMA SilentChannel ==
  ASSUME NEW q, NEW a, \A i \in DOMAIN q : q[i].addr # a
  PROVE  Messages(q, a) = {}
  BY DEF Messages

(* Nobody has a message of the line.                                       *)
LEMMA NothingSeen ==
  ASSUME NEW a, Quiet(a)
  PROVE  /\ ArrivedOf(a) = {} /\ AtMemory(a) = {}
         /\ \A c \in Cache : SentOf(a)[c] = {} /\ ForwardsOf(a)[c] = {} /\ HomeOf(a)[c] = {}
         /\ \A c \in Cache, s \in Machine : AnswersOf(a)[c][s] = {}
<1>1. ArrivedOf(a) = {}
  BY SilentChannel DEF Quiet, ArrivedOf
<1>2. AtMemory(a) = {}
  BY DEF Quiet, AtMemory
<1>3. ASSUME NEW c \in Cache PROVE SentOf(a)[c] = {}
  BY SilentChannel DEF Quiet, SentOf, LineOf
<1>4. ASSUME NEW c \in Cache PROVE ForwardsOf(a)[c] = {}
  BY SilentChannel DEF Quiet, ForwardsOf, LineOf
<1>5. ASSUME NEW c \in Cache PROVE HomeOf(a)[c] = {}
  BY SilentChannel DEF Quiet, HomeOf, LineOf
<1>6. ASSUME NEW c \in Cache, NEW s \in Machine PROVE AnswersOf(a)[c][s] = {}
  <2>1. Messages(responseToCache[c][s], a) = {}
    BY SilentChannel DEF Quiet
  <2> QED
    BY <2>1, Zenon DEF AnswersOf, LineOfPairs
<1> QED
  BY <1>1, <1>2, <1>3, <1>4, <1>5, <1>6

(* No transaction of the line is under way: every stage is at a message.   *)
LEMMA NothingRequested ==
  ASSUME NEW sent, NEW arrived, NEW queued, NEW state, NEW stage,
         SentOK(sent, state, stage), ArrivedOK(arrived, state, stage),
         QueuedOK(queued, stage), \A c \in Cache : sent[c] = {}, arrived = {}, queued = {}
  PROVE  \A c \in Cache : stage[c] \notin {"sent", "arrived", "memory"}
  BY DEF SentOK, ArrivedOK, QueuedOK

(* Likewise those that wait for a cache.                                   *)
LEMMA NothingAnswered ==
  ASSUME NEW a, NEW forwards, NEW answers, NEW state, NEW stage, NEW by \in ByType,
         AskedOK(a, forwards, state, stage, by), AckedOK(a, forwards, stage),
         DataSentOK(answers, stage, by), \A c \in Cache : forwards[c] = {},
         \A c \in Cache, s \in Machine : answers[c][s] = {}
  PROVE  \A c \in Cache : stage[c] \notin {"forwarded", "acked", "answered"}
<1> SUFFICES ASSUME NEW c \in Cache PROVE stage[c] \notin {"forwarded", "acked", "answered"}
  OBVIOUS
<1>1. by[c] \in Machine
  BY ByTypes
<1> QED
  BY <1>1 DEF AskedOK, AckedOK, DataSentOK

(* Nor is an invalidation.                                                 *)
LEMMA NothingInvalidated ==
  ASSUME NEW a, NEW forwards, NEW answers, NEW state, NEW stage,
         NEW chain \in Seq(Cache), NEW inv \in SUBSET Cache, NEW ack \in SUBSET Cache,
         InvSentOK(a, forwards, chain, inv), InvAckSentOK(answers, chain, ack),
         InvsOK(state, stage, chain, inv, ack),
         \A c \in Cache : forwards[c] = {},
         \A c \in Cache, s \in Machine : answers[c][s] = {}
  PROVE  inv = {} /\ ack = {}
<1>1. inv = {}
  BY DEF InvSentOK
<1>2. ASSUME NEW s \in ack PROVE FALSE
  <2>1. chain # <<>>
    BY <1>2 DEF InvsOK
  <2>2. chain[1] \in Cache /\ s \in Machine
    BY <1>2, <2>1 DEF Machine
  <2> QED
    BY <1>2, <2>2 DEF InvAckSentOK
<1> QED
  BY <1>1, <1>2

(* A cache that waits for nothing has no acks to wait for either.          *)
LEMMA NothingAwaited ==
  ASSUME NEW e, NEW answers, NEW state, NEW acks, NEW stage, NEW by, NEW chain,
         StageOK(state, stage), \A c \in Cache : stage[c] = "none",
         AcksOK(e, answers, state, acks, stage, by, chain, {}, {}),
         NEW c \in Cache, state[c] \in {"IM_A", "SM_A"} => acks[c] >= 1
  PROVE  state[c] \in {"I", "S", "M"}
<1>1. Due(c, chain, {}, {}) = 0
  <2>1. {} \cup {} = {} /\ Cardinality({}) = 0
    BY FS_EmptySet
  <2> QED
    BY <2>1, Zenon DEF Due
<1>2. acks[c] = 0
  BY <1>1 DEF AcksOK
<1> QED
  BY <1>2 DEF StageOK

(* The owner the directory names is the cache that may write.              *)
LEMMA OwnerIsWriter ==
  ASSUME NEW state, NEW stage, NEW by, NEW chain \in Seq(Cache), NEW e,
         \A c \in Cache : stage[c] = "none" /\ state[c] \in {"I", "S", "M"},
         OwnersOK(state, stage, by, chain), LinksOK(stage, by, chain),
         EntryOK(e, stage, chain), EntryConsistent(e),
         e.DirState \in {"I", "S", "M"}, NEW c \in Cache
  PROVE  /\ c \in e.Owner <=> state[c] = "M"
         /\ InChain(c, chain) <=> state[c] = "M"
<1>1. InChain(c, chain) <=> state[c] = "M"
  BY DEF OwnersOK, Owning
<1>2. ASSUME chain # <<>> PROVE LastOf(chain) = chain[1]
  <2>1. PICK n : n = Len(chain)
    OBVIOUS
  <2>2. n \in Nat /\ n \in 1..Len(chain) /\ chain[n] \in Cache
    BY <1>2, <2>1
  <2>3. n = 1
    BY <2>2 DEF LinksOK
  <2> QED
    BY <2>1, <2>3 DEF LastOf
<1>3. ASSUME chain # <<>> PROVE InChain(c, chain) <=> c = chain[1]
  <2>1. 1 \in 1..Len(chain)
    BY <1>3
  <2>2. \A i \in 1..Len(chain) : chain[i] \in Cache
    OBVIOUS
  <2>3. \A i \in 1..Len(chain) : i = 1
    BY <2>2 DEF LinksOK
  <2> QED
    BY <2>1, <2>3 DEF InChain
<1>4. CASE chain # <<>>
  <2>1. e.DirState = "M" /\ e.Owner = {chain[1]}
    BY <1>2, <1>4 DEF EntryOK
  <2> QED
    BY <1>1, <1>3, <1>4, <2>1
<1>5. CASE chain = <<>>
  <2>1. e.Owner = {}
    BY <1>5 DEF EntryOK, EntryConsistent
  <2>2. ~InChain(c, chain)
    BY <1>5 DEF InChain
  <2> QED
    BY <1>1, <2>1, <2>2
<1> QED
  BY <1>4, <1>5

(* The sharers it names are the caches that may read.                      *)
LEMMA SharersAreReaders ==
  ASSUME NEW state, NEW stage, NEW by, NEW chain \in Seq(Cache), NEW e,
         \A c \in Cache : stage[c] = "none" /\ state[c] \in {"I", "S", "M"},
         \A c \in Cache : InChain(c, chain) <=> state[c] = "M",
         EntryOK(e, stage, chain), EntryConsistent(e), e.DirState \in {"I", "S", "M"},
         CopiesOK(e, state, stage, chain, {}), SharersOK(e, state, stage, chain),
         NEW c \in Cache
  PROVE  c \in e.Sharers <=> state[c] = "S"
<1>1. ASSUME state[c] = "S" PROVE c \in e.Sharers
  <2>1. chain # <<>> => c # chain[1]
    <3>1. SUFFICES ASSUME chain # <<>>, c = chain[1] PROVE FALSE
      OBVIOUS
    <3>2. 1 \in 1..Len(chain)
      BY <3>1
    <3>3. InChain(c, chain)
      BY <3>1, <3>2 DEF InChain
    <3> QED
      BY <1>1, <3>3
  <2> QED
    BY <1>1, <2>1 DEF CopiesOK, Holds
<1>2. ASSUME c \in e.Sharers PROVE state[c] = "S"
  <2>1. e.DirState = "S"
    BY <1>2 DEF EntryConsistent
  <2>2. Settled(e, chain)
    BY <2>1 DEF EntryOK, Settled
  <2> QED
    BY <1>2, <2>2 DEF SharersOK
<1> QED
  BY <1>1, <1>2

(* The directory does not wait for the line either.                        *)
LEMMA NothingExpected ==
  ASSUME NEW e \in Entry, NEW home, NEW state, NEW stage, NEW by, NEW chain \in Seq(Cache),
         MemoryConsistent(e, {}), HomeOK(home, e, chain), \A c \in Cache : home[c] = {},
         ReaderOK(e, state, stage, by, chain), \A c \in Cache : stage[c] = "none"
  PROVE  e.DirState \in {"I", "S", "M"}
<1>1. e.DirState \in DirState
  BY DEF Entry
<1>2. e.DirState \notin {"S_m", "M_m", "MI_m", "SS_m"}
  BY DEF MemoryConsistent
<1>3. e.DirState # "S_D"
  BY DEF HomeOK, ReaderOK, Asked
<1> QED
  BY <1>1, <1>2, <1>3 DEF DirState

(* What the invariants say of such a line.                                 *)
LEMMA QuietLineAgrees ==
  ASSUME TypeOK, DirInv, LinesInv, DataInv, AcksAwaited, NEW a \in Addr, Quiet(a),
         NEW e, e = directory[a]
  PROVE  /\ \A c \in Cache : LineState(c, a) \in {"I", "S", "M"}
         /\ e.DirState \in {"I", "S", "M"}
         /\ \A c \in Cache : LineState(c, a) = "S" <=> c \in e.Sharers
         /\ \A c \in Cache : LineState(c, a) = "M" <=> c \in e.Owner
         /\ e.Owner = {} => memory[a] = latest[a]
<1>1. PICK stage \in StageType, by \in ByType,
           chain \in Seq(Cache), inv \in SUBSET Cache, ack \in SUBSET Cache :
        LineInvNow(a, stage, by, chain, inv, ack)
  BY Witnesses
<1>2. PICK sent, arrived, queued, forwards, answers, home, state, acks :
        /\ sent = SentOf(a) /\ arrived = ArrivedOf(a) /\ queued = AtMemory(a)
        /\ forwards = ForwardsOf(a) /\ answers = AnswersOf(a) /\ home = HomeOf(a)
        /\ state = StateOf(a) /\ acks = AcksOf(a)
  BY Zenon
<1>3. LineInv(a, sent, arrived, queued, forwards, answers, home, e, state, acks,
              stage, by, chain, inv, ack)
  BY <1>1, <1>2, Zenon DEF LineInvNow
<1>4. /\ arrived = {} /\ queued = {}
      /\ \A c \in Cache : sent[c] = {} /\ forwards[c] = {} /\ home[c] = {}
      /\ \A c \in Cache, s \in Machine : answers[c][s] = {}
  BY <1>2, NothingSeen
<1>5. \A c \in Cache : stage[c] = "none"
  <2>1. /\ SentOK(sent, state, stage) /\ ArrivedOK(arrived, state, stage)
        /\ QueuedOK(queued, stage) /\ AskedOK(a, forwards, state, stage, by)
        /\ AckedOK(a, forwards, stage) /\ DataSentOK(answers, stage, by)
    BY <1>3, Zenon DEF LineInv
  <2>2. \A c \in Cache : stage[c] \notin {"sent", "arrived", "memory"}
    BY <1>4, <2>1, NothingRequested
  <2>3. \A c \in Cache : stage[c] \notin {"forwarded", "acked", "answered"}
    BY <1>4, <2>1, NothingAnswered
  <2> QED
    BY <2>2, <2>3 DEF StageType, Stage
<1>6. inv = {} /\ ack = {}
  BY <1>3, <1>4, NothingInvalidated DEF LineInv
<1>7. /\ StageOK(state, stage) /\ OwnersOK(state, stage, by, chain)
      /\ LinksOK(stage, by, chain) /\ EntryOK(e, stage, chain)
      /\ HomeOK(home, e, chain) /\ ReaderOK(e, state, stage, by, chain)
      /\ AcksOK(e, answers, state, acks, stage, by, chain, {}, {})
      /\ CopiesOK(e, state, stage, chain, {}) /\ SharersOK(e, state, stage, chain)
  BY <1>3, <1>6, Zenon DEF LineInv
<1>8. \A c \in Cache : state[c] = LineState(c, a) /\ acks[c] = line[c][a].AcksOutstanding
  BY <1>2 DEF StateOf, AcksOf, LineState
<1>9. \A c \in Cache : state[c] \in {"I", "S", "M"}
  <2>1. ASSUME NEW c \in Cache PROVE state[c] \in {"IM_A", "SM_A"} => acks[c] >= 1
    BY <1>8 DEF AcksAwaited, Waits, LineState
  <2> QED
    BY <1>5, <1>7, <2>1, NothingAwaited
<1>10. e \in Entry /\ EntryConsistent(e) /\ MemoryConsistent(e, {})
  BY <1>2, <1>4 DEF TypeOK, DirTypeOK, DirInv, DirectoryConsistent, OneMemoryRequest
<1>11. e.DirState \in {"I", "S", "M"}
  BY <1>4, <1>5, <1>7, <1>10, NothingExpected
<1>12. \A c \in Cache : /\ c \in e.Owner <=> state[c] = "M"
                        /\ InChain(c, chain) <=> state[c] = "M"
  BY <1>5, <1>7, <1>9, <1>10, <1>11, OwnerIsWriter
<1>13. \A c \in Cache : c \in e.Sharers <=> state[c] = "S"
  BY <1>5, <1>7, <1>9, <1>10, <1>11, <1>12, SharersAreReaders
<1>14. e.Owner = {} => memory[a] = latest[a]
  <2>1. e.DirState = "M" => e.Owner # {}
    BY <1>7 DEF EntryOK
  <2> QED
    BY <1>11, <2>1 DEF DataInv, MemoryFresh
<1> QED
  BY <1>8, <1>9, <1>11, <1>12, <1>13, <1>14

(* Which is QuietAgreement.                                                *)
LEMMA QuietLinesAgree ==
  TypeOK /\ DirInv /\ LinesInv /\ DataInv /\ AcksAwaited => QuietAgreement
<1> SUFFICES ASSUME TypeOK, DirInv, LinesInv, DataInv, AcksAwaited, NEW a \in Addr, Quiet(a)
    PROVE  /\ \A c \in Cache : LineState(c, a) \in {"I", "S", "M"}
           /\ directory[a].DirState \in {"I", "S", "M"}
           /\ {c \in Cache : LineState(c, a) = "S"} = directory[a].Sharers
           /\ {c \in Cache : LineState(c, a) = "M"} = directory[a].Owner
           /\ directory[a].Owner = {} => memory[a] = latest[a]
  BY DEF QuietAgreement
<1>1. PICK e : e = directory[a]
  OBVIOUS
<1>2. /\ \A c \in Cache : LineState(c, a) \in {"I", "S", "M"}
      /\ e.DirState \in {"I", "S", "M"}
      /\ \A c \in Cache : LineState(c, a) = "S" <=> c \in e.Sharers
      /\ \A c \in Cache : LineState(c, a) = "M" <=> c \in e.Owner
      /\ e.Owner = {} => memory[a] = latest[a]
  BY <1>1, QuietLineAgrees
<1>3. e.Sharers \in SUBSET Cache /\ e.Owner \in SUBSET Cache
  BY <1>1, EntryTypes DEF TypeOK, DirTypeOK
<1> QED
  BY <1>1, <1>2, <1>3

(* When no message of a line is in flight, no controller waits for one,    *)
(* the directory names exactly the caches that hold the line, and memory   *)
(* is up to date unless an owner is.                                       *)
THEOREM QuietMeansAgreed == Spec => []QuietAgreement
<1>1. TypeOK /\ DirInv /\ CoherenceInv /\ DataInv /\ AcksAwaited => QuietAgreement
  BY QuietLinesAgree DEF CoherenceInv
<1> QED
  BY <1>1, TypeCorrect, DirInvariant, CoherenceInvariant, DataInvariant, AwaitedInvariant, PTL

-----------------------------------------------------------------------------
(* The coherent memory.                                                    *)

(* What the CPUs see of the lines.                                         *)
LEMMA ViewSeen ==
  /\ View = [x \in Cache |-> [b \in Addr |-> Seen(line[x][b])]]
  /\ View' = [x \in Cache |-> [b \in Addr |-> Seen(line'[x][b])]]
  BY DEF View, Seen, LineState

(* It changes where a line does.                                           *)
LEMMA ViewBecomes ==
  ASSUME NEW c \in Cache, NEW a \in Addr, NEW k, Becomes(c, a, k),
         NEW d, d = Seen(k)
  PROVE  View' = [View EXCEPT ![c][a] = d]
<1>1. PICK f : f = View
  OBVIOUS
<1>2. f = [x \in Cache |-> [b \in Addr |-> f[x][b]]]
  BY <1>1, ViewSeen
<1>3. View' = [x \in Cache |-> [b \in Addr |-> IF x = c /\ b = a THEN d ELSE f[x][b]]]
  <2>1. ASSUME NEW x \in Cache, NEW b \in Addr
        PROVE  Seen(line'[x][b]) = IF x = c /\ b = a THEN d ELSE f[x][b]
    <3>1. f[x][b] = Seen(line[x][b])
      BY <1>1, ViewSeen
    <3> QED
      BY <3>1 DEF Becomes
  <2> QED
    BY <2>1, ViewSeen
<1>4. [f EXCEPT ![c][a] = d]
        = [x \in Cache |-> [b \in Addr |-> IF x = c /\ b = a THEN d ELSE f[x][b]]]
  BY <1>2
<1> QED
  BY <1>1, <1>3, <1>4

(* It does not where none does.                                            *)
LEMMA ViewStill ==
  ASSUME UNCHANGED line
  PROVE  UNCHANGED View
  BY ViewSeen

(* Steps of the caches.                                                    *)
LEMMA IssueMaps ==
  ASSUME Issues
  PROVE  Abstract!Next
<1>1. PICK c \in Cache, a \in Addr, type \in RequestType : Issue(c, a, type)
  BY DEF Issues
<1>2. UNCHANGED View
  BY <1>1, ViewStill DEF Issue
<1>3. Abstract!Issue(c, a, type)
  BY <1>1, <1>2 DEF Issue, Abstract!Issue
<1>4. type \in {"Load", "Store"}
  BY <1>1 DEF RequestType
<1> QED
  BY <1>3, <1>4 DEF Abstract!Next

(* A load is answered with the value of the last store.                    *)
LEMMA LoadMaps ==
  ASSUME AnswersLoad
  PROVE  Abstract!Next
<1>1. PICK c \in Cache, a \in Addr : \E k : LoadAnswered(c, a, k)
  BY DEF AnswersLoad
<1>2. PICK k : /\ Becomes(c, a, k) /\ Seen(k) = latest[a] /\ UNCHANGED latest
               /\ outstanding[c][a] = "Load" /\ Callback(c, a)
  BY <1>1 DEF LoadAnswered, Answered, Seen
<1>3. View' = [View EXCEPT ![c][a] = latest[a]]
  BY <1>2, ViewBecomes
<1>4. Abstract!Load(c, a)
  BY <1>2, <1>3 DEF Abstract!Load, Abstract!Answer, Callback
<1> QED
  BY <1>4 DEF Abstract!Next

(* A store takes effect where no other cache sees the line.                *)
LEMMA StoreMaps ==
  ASSUME AnswersStore, SWMR'
  PROVE  Abstract!Next
<1>1. PICK c \in Cache, a \in Addr, d \in Data : \E k : StoreAnswered(c, a, k, d)
  BY DEF AnswersStore
<1>2. PICK k : /\ Becomes(c, a, k) /\ k.State = "M" /\ Seen(k) = d
               /\ latest' = [latest EXCEPT ![a] = d]
               /\ outstanding[c][a] = "Store" /\ Callback(c, a)
  BY <1>1 DEF StoreAnswered, Answered, Seen, Readable
<1>3. View' = [View EXCEPT ![c][a] = d]
  BY <1>2, ViewBecomes
<1>4. ASSUME NEW x \in Cache \ {c} PROVE View[x][a] = Nothing
  <2>1. line'[c][a].State = "M" /\ line'[x][a] = line[x][a]
    BY <1>2 DEF Becomes
  <2>2. line'[x][a].State \notin Readable
    BY <2>1 DEF SWMR, LineState
  <2>3. View[x][a] = Seen(line[x][a])
    BY ViewSeen
  <2> QED
    BY <2>1, <2>2, <2>3 DEF Seen
<1>5. Abstract!Store(c, a, d)
  BY <1>2, <1>3, <1>4 DEF Abstract!Store, Abstract!Answer, Callback
<1> QED
  BY <1>5 DEF Abstract!Next

(* The others take a line from a CPU, or change nothing it can tell.       *)
LEMMA WorkMaps ==
  ASSUME WorksOn
  PROVE  Abstract!Next \/ UNCHANGED Abstract!vars
<1>1. PICK c \in Cache, a \in Addr : \E k : Quietly(c, a, k)
  BY DEF WorksOn
<1>2. PICK k : /\ Becomes(c, a, k) /\ Seen(k) \in {Nothing, Seen(line[c][a])}
               /\ UNCHANGED <<outstanding, latest>>
  BY <1>1 DEF WorksOn, Quietly
<1>3. CASE Seen(k) = Nothing
  <2>1. View' = [View EXCEPT ![c][a] = Nothing]
    BY <1>2, <1>3, ViewBecomes
  <2>2. Abstract!Lose(c, a)
    BY <1>2, <2>1 DEF Abstract!Lose
  <2> QED
    BY <2>2 DEF Abstract!Next
<1>4. CASE Seen(k) = Seen(line[c][a])
  <2>1. \A x \in Cache, b \in Addr : Seen(line'[x][b]) = Seen(line[x][b])
    BY <1>2, <1>4 DEF Becomes
  <2>2. UNCHANGED View
    BY <2>1, ViewSeen
  <2> QED
    BY <1>2, <2>2 DEF Abstract!vars
<1> QED
  BY <1>2, <1>3, <1>4

(* Steps of the directory, of the network and of the simulation.           *)
LEMMA StillMaps ==
  ASSUME UNCHANGED <<line, outstanding, latest>>
  PROVE  UNCHANGED Abstract!vars
  BY ViewStill DEF Abstract!vars

(* The caches implement one memory.                                        *)
LEMMA NextMaps ==
  ASSUME TypeOK, AllocInv, DataInv, AcksAwaited, SWMR', [Next]_vars
  PROVE  Abstract!Next \/ UNCHANGED Abstract!vars
<1>1. CASE CacheNext /\ UNCHANGED dirVars
  BY <1>1, CacheSteps, IssueMaps, LoadMaps, StoreMaps, WorkMaps
<1>2. CASE UNCHANGED cacheVars
  BY <1>2, StillMaps DEF cacheVars
<1> QED
  BY <1>1, <1>2 DEF Next, PanicStep, vars

(* At first no CPU sees a line.                                            *)
LEMMA InitMaps == Init => Abstract!Init
<1> SUFFICES ASSUME Init PROVE Abstract!Init
  OBVIOUS
<1>1. \A x \in Cache, b \in Addr : Seen(line[x][b]) = Nothing
  BY DEF Init, CacheInit, Absent, Seen, Readable
<1>2. View = [x \in Cache |-> [b \in Addr |-> Nothing]]
  BY <1>1, ViewSeen
<1> QED
  BY <1>2 DEF Init, CacheInit, Abstract!Init

(* The caches and the directory together are one coherent memory: a load   *)
(* returns the last store, a store takes effect while no other CPU sees    *)
(* the line, and each request is answered by the callback of its own type. *)
THEOREM CachesImplementCoherentMemory == Spec => ImplementsCoherentMemory
<1>1. TypeOK /\ AllocInv /\ DataInv /\ AcksAwaited /\ SWMR' /\ [Next]_vars
        => [Abstract!Next]_Abstract!vars
  BY NextMaps
<1> QED
  BY <1>1, InitMaps, TypeCorrect, AllocInvariant, DataInvariant, AwaitedInvariant, SingleWriter,
     PTL DEF Spec, ImplementsCoherentMemory, Abstract!Spec

=============================================================================
