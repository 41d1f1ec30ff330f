---------------------------- MODULE MSILineSteps ----------------------------
(***************************************************************************)
(* The MSI protocol seen one line at a time.  A step of the protocol       *)
(* concerns one line; what the other lines see of the channels, of the     *)
(* directory and of the caches stays as it is.  LineInv is the invariant   *)
(* of what one line sees, from which the coherence properties of           *)
(* MSIProperties follow.                                                   *)
(*                                                                         *)
(* LineInv speaks of the line's messages through five values that describe *)
(* where its transactions stand:                                           *)
(*   stage[c]  where the one request or put of cache c for the line is;    *)
(*   by[c]     the cache that has been asked to answer it, or the machine  *)
(*             that answered it;                                           *)
(*   chain     the caches that own the line or will: the first is to get   *)
(*             the data or has it, and each of the others is waiting for   *)
(*             the one before it;                                          *)
(*   inv, ack  the caches that have been told to give up their copy for    *)
(*             the first of the chain, and those whose InvAck is under way *)
(*             to it.                                                      *)
(*                                                                         *)
(* The lemmas say what each step of the protocol does to the line it       *)
(* concerns, and that LineInv holds afterwards: one lemma for the steps    *)
(* that change what the line sees in the same way.                         *)
(***************************************************************************)
EXTENDS MSIProperties, FiniteSetTheorems, TLAPS

-----------------------------------------------------------------------------
(* Views.                                                                  *)

(* The messages for line a in channel q.                                   *)
Messages(q, a) == {q[i] : i \in {j \in DOMAIN q : q[j].addr = a}}

LineOf(channel, a) == [c \in Cache |-> Messages(channel[c], a)]
LineOfPairs(channel, a) ==
  [c \in Cache |-> [s \in Machine |-> Messages(channel[c][s], a)]]

SentOf(a) == LineOf(requestToDir, a)
ArrivedOf(a) == Messages(requestFromCache, a)
ForwardsOf(a) == LineOf(forwardToCache, a)
AnswersOf(a) == LineOfPairs(responseToCache, a)
HomeOf(a) == LineOf(responseToDir, a)
StateOf(a) == [c \in Cache |-> line[c][a].State]
AcksOf(a) == [c \in Cache |-> line[c][a].AcksOutstanding]

(* The types of what a line sees, of the stages and of by.                 *)
ForwardsFor(a) == {m \in ForwardMsg : m.addr = a}

SentType == [Cache -> SUBSET RequestMsg]
ForwardsType(a) == [Cache -> SUBSET ForwardsFor(a)]
AnswersType == [Cache -> [Machine -> SUBSET ResponseMsg]]
HomeType == [Cache -> SUBSET CacheResponse]
StateType == [Cache -> CacheState]
AcksType == [Cache -> Int]

(* The view changes in one place only.                                     *)
ChangedAt(f, g, c, e) == g[c] = e /\ \A y \in Cache : y # c => g[y] = f[y]

PairChangedAt(f, g, c, s, e) ==
  /\ g[c][s] = e
  /\ \A y \in Cache, z \in Machine : y # c \/ z # s => g[y][z] = f[y][z]

(* No channel holds a message twice, and a PutAck is the last that its     *)
(* cache receives for a line.                                              *)
Injective(q) == \A i, j \in DOMAIN q : q[i] = q[j] => i = j

PutAckLast(q) ==
  \A i, j \in DOMAIN q :
    i < j /\ q[i].addr = q[j].addr => q[i].Type # "PutAck"

ChannelInv ==
  /\ Injective(requestFromCache)
  /\ \A c \in Cache :
       /\ Injective(requestToDir[c])
       /\ Injective(forwardToCache[c])
       /\ PutAckLast(forwardToCache[c])
       /\ Injective(responseToDir[c])
       /\ \A s \in Machine : Injective(responseToCache[c][s])

-----------------------------------------------------------------------------
(* The messages of a line and the stages of its transactions.              *)

Stage == {"none", "sent", "arrived", "memory", "forwarded", "answered", "acked"}
StageType == [Cache -> Stage]
ByType == [Cache -> Machine]

GetStates == {"IS_D", "IM_AD", "SM_AD"}
PutStates == {"MI_A", "SI_A", "II_A"}

(* The request a cache in state s may have on its way.                     *)
Fits(type, s) ==
  /\ type = "GetS" => s = "IS_D"
  /\ type = "GetM" => s \in {"IM_AD", "SM_AD"}
  /\ type = "PutM" => s \in PutStates
  /\ type = "PutS" => s \in {"SI_A", "II_A"}

ForwardOf(type, a, r) == [Type |-> type, addr |-> a, Requestor |-> r]

SentOK(sent, state, stage) ==
  \A c \in Cache :
    /\ \A m \in sent[c] :
         stage[c] = "sent" /\ m.Requestor = c /\ Fits(m.Type, state[c])
    /\ \A m, n \in sent[c] : m = n
    /\ stage[c] = "sent" => sent[c] # {}

ArrivedOK(arrived, state, stage) ==
  /\ \A m \in arrived :
       stage[m.Requestor] = "arrived" /\ Fits(m.Type, state[m.Requestor])
  /\ \A m, n \in arrived : m.Requestor = n.Requestor => m = n
  /\ \A c \in Cache :
       stage[c] = "arrived" => \E m \in arrived : m.Requestor = c

QueuedOK(queued, stage) ==
  /\ \A m \in queued :
       m.Type = "MEMORY_READ" => stage[m.OriginalRequestor] = "memory"
  /\ \A c \in Cache : stage[c] = "memory" =>
       \E m \in queued : m.Type = "MEMORY_READ" /\ m.OriginalRequestor = c

(* The requests that owners are to answer.                                 *)
AskedOK(a, forwards, state, stage, by) ==
  /\ \A d \in Cache : \A m \in forwards[d] :
       m.Type \in {"GetS", "GetM"} =>
         /\ stage[m.Requestor] = "forwarded" /\ by[m.Requestor] = d
         /\ Fits(m.Type, state[m.Requestor])
  /\ \A c \in Cache : stage[c] = "forwarded" =>
       /\ by[c] \in Cache
       /\ ForwardOf(IF state[c] = "IS_D" THEN "GetS" ELSE "GetM", a, c)
            \in forwards[by[c]]

AckedOK(a, forwards, stage) ==
  \A c \in Cache :
    /\ \A m \in forwards[c] : m.Type = "PutAck" => stage[c] = "acked"
    /\ stage[c] = "acked" => ForwardOf("PutAck", a, Directory) \in forwards[c]

InvSentOK(a, forwards, chain, inv) ==
  \A c \in Cache :
    /\ \A m \in forwards[c] : m.Type = "Inv" => c \in inv /\ m.Requestor = chain[1]
    /\ c \in inv => ForwardOf("Inv", a, chain[1]) \in forwards[c]

ResponsesOK(answers) ==
  \A c \in Cache, s \in Machine :
    /\ \A m \in answers[c][s] : m.Sender = s /\ (s = Directory => m.Type = "Data")
    /\ \A m, n \in answers[c][s] : m.Type = n.Type => m = n

DataSentOK(answers, stage, by) ==
  \A c \in Cache :
    /\ \A s \in Machine : \A m \in answers[c][s] :
         m.Type = "Data" => stage[c] = "answered" /\ by[c] = s
    /\ stage[c] = "answered" => \E m \in answers[c][by[c]] : m.Type = "Data"

InvAckSentOK(answers, chain, ack) ==
  /\ \A c \in Cache, s \in Machine : \A m \in answers[c][s] :
       m.Type = "InvAck" => s \in ack /\ chain # <<>> /\ c = chain[1]
  /\ \A s \in ack : \E m \in answers[chain[1]][s] : m.Type = "InvAck"

HomeOK(home, e, chain) ==
  /\ \A c, d \in Cache : \A m \in home[c], n \in home[d] :
       c = d /\ m = n /\ m.Type = "Data"
  /\ (\E c \in Cache : home[c] # {}) <=> (e.DirState = "S_D" /\ chain = <<>>)

-----------------------------------------------------------------------------
(* The states of the line.                                                 *)

StageOK(state, stage) ==
  \A c \in Cache :
    /\ stage[c] = "none" <=> state[c] \in {"I", "S", "M", "IM_A", "SM_A"}
    /\ stage[c] = "acked" => state[c] \in PutStates
    /\ stage[c] \in {"memory", "forwarded", "answered"} => state[c] \in GetStates

InChain(c, chain) == \E i \in 1..Len(chain) : chain[i] = c
LastOf(chain) == chain[Len(chain)]

(* Some request waits for c to answer it.                                  *)
Asked(c, stage, by) == \E x \in Cache : stage[x] = "forwarded" /\ by[x] = c

(* Cache c owns the line, or the directory has granted it ownership.       *)
Owning(c, state, stage, by) ==
  \/ state[c] \in {"M", "IM_A", "SM_A"}
  \/ state[c] \in {"IM_AD", "SM_AD"} /\ stage[c] \in {"memory", "forwarded", "answered"}
  \/ state[c] = "MI_A" /\ (stage[c] # "acked" \/ Asked(c, stage, by))

OwnersOK(state, stage, by, chain) ==
  /\ \A i, j \in 1..Len(chain) : chain[i] = chain[j] => i = j
  /\ \A c \in Cache : InChain(c, chain) <=> Owning(c, state, stage, by)

LinksOK(stage, by, chain) ==
  \A i \in 1..Len(chain) :
    /\ stage[chain[i]] = "forwarded" <=> i # 1
    /\ i # 1 => by[chain[i]] = chain[i - 1]

EntryOK(e, stage, chain) ==
  /\ e.DirState \in {"M", "M_m"} => chain # <<>> /\ e.Owner = {LastOf(chain)}
  /\ chain # <<>> => e.DirState \in {"M", "M_m", "S_D"}
  /\ e.DirState = "M_m" => Len(chain) = 1 /\ stage[chain[1]] = "memory"

MemoryOK(e, state, stage) ==
  \A c \in Cache : stage[c] = "memory" =>
    e.DirState = IF state[c] = "IS_D" THEN "S_m" ELSE "M_m"

(* A reader that an owner is to answer; the owner becomes a sharer too.    *)
Reads(c, state, stage) == stage[c] = "forwarded" /\ state[c] = "IS_D"

ReaderOK(e, state, stage, by, chain) ==
  /\ \A c \in Cache : Reads(c, state, stage) =>
       /\ e.DirState = "S_D" /\ chain # <<>> /\ by[c] = LastOf(chain)
       /\ c \in e.Sharers
       /\ \A d \in Cache : Reads(d, state, stage) => c = d
  /\ e.DirState = "S_D" /\ chain # <<>> =>
       /\ Asked(LastOf(chain), stage, by)
       /\ LastOf(chain) \in e.Sharers <=> stage[LastOf(chain)] # "acked"
       /\ \A c \in e.Sharers : c = LastOf(chain) \/ Reads(c, state, stage)

(* Invalidations are for the first of the chain, which waits for them.     *)
InvsOK(state, stage, chain, inv, ack) ==
  /\ inv \cap ack = {}
  /\ inv \cup ack # {} =>
       /\ chain # <<>> /\ state[chain[1]] \in Stalled
       /\ chain[1] \notin inv \cup ack
  /\ \A c \in inv : \/ state[c] \in {"S", "SM_AD", "SI_A"}
                    \/ state[c] = "IS_D" /\ stage[c] = "answered"

(* The acks cache c has to wait for.                                       *)
Due(c, chain, inv, ack) ==
  IF chain # <<>> /\ c = chain[1] THEN Cardinality(inv \cup ack) ELSE 0

(* What the TBE of c counts, with what the directory has still to tell it. *)
AcksOK(e, answers, state, acks, stage, by, chain, inv, ack) ==
  \A c \in Cache :
    LET due == Due(c, chain, inv, ack) IN
    /\ stage[c] = "memory" => acks[c] + AcksFor(e, c) = due
    /\ stage[c] = "answered" /\ by[c] = Directory =>
         \A m \in answers[c][Directory] : acks[c] + m.Acks = due
    /\ \/ stage[c] = "memory"
       \/ stage[c] = "answered" /\ by[c] = Directory
       \/ acks[c] = due
    /\ state[c] \in {"IM_AD", "SM_AD"} => acks[c] <= 0

(* The directory knows the copies: no owner is left or to come.            *)
Settled(e, chain) ==
  e.DirState \in {"S", "S_m", "SS_m", "S_D"} /\ chain = <<>>

(* Cache c has a copy it may read, or data for one.                        *)
Holds(c, state, stage) ==
  \/ state[c] \in {"S", "SM_AD"}
  \/ state[c] = "IS_D" /\ stage[c] \in {"memory", "answered"}

CopiesOK(e, state, stage, chain, inv) ==
  \A c \in Cache : Holds(c, state, stage) =>
    \/ c \in inv
    \/ Settled(e, chain) /\ c \in e.Sharers
    \/ chain # <<>> /\ c = chain[1]

SharersOK(e, state, stage, chain) ==
  Settled(e, chain) =>
    \A c \in e.Sharers :
      \/ state[c] = "S"
      \/ state[c] = "SM_AD" /\ stage[c] \in {"sent", "arrived"}
      \/ state[c] = "IS_D" /\ stage[c] \in {"memory", "answered"}
      \/ state[c] = "SI_A" /\ stage[c] # "acked"

LineInv(a, sent, arrived, queued, forwards, answers, home, entry, state, acks,
        stage, by, chain, inv, ack) ==
  /\ SentOK(sent, state, stage)
  /\ ArrivedOK(arrived, state, stage)
  /\ QueuedOK(queued, stage)
  /\ AskedOK(a, forwards, state, stage, by)
  /\ AckedOK(a, forwards, stage)
  /\ InvSentOK(a, forwards, chain, inv)
  /\ ResponsesOK(answers)
  /\ DataSentOK(answers, stage, by)
  /\ InvAckSentOK(answers, chain, ack)
  /\ HomeOK(home, entry, chain)
  /\ StageOK(state, stage)
  /\ OwnersOK(state, stage, by, chain)
  /\ LinksOK(stage, by, chain)
  /\ EntryOK(entry, stage, chain)
  /\ MemoryOK(entry, state, stage)
  /\ ReaderOK(entry, state, stage, by, chain)
  /\ InvsOK(state, stage, chain, inv, ack)
  /\ AcksOK(entry, answers, state, acks, stage, by, chain, inv, ack)
  /\ CopiesOK(entry, state, stage, chain, inv)
  /\ SharersOK(entry, state, stage, chain)

LineHolds(a, sent, arrived, queued, forwards, answers, home, entry, state, acks) ==
  \E stage \in StageType, by \in ByType,
     chain \in Seq(Cache), inv \in SUBSET Cache, ack \in SUBSET Cache :
    LineInv(a, sent, arrived, queued, forwards, answers, home, entry, state, acks,
        stage, by, chain, inv, ack)

LineHoldsNow(a) ==
  LineHolds(a, SentOf(a), ArrivedOf(a), AtMemory(a), ForwardsOf(a),
            AnswersOf(a), HomeOf(a), directory[a], StateOf(a), AcksOf(a))

LinesInv == \A a \in Addr : LineHoldsNow(a)

-----------------------------------------------------------------------------
(* Whom the messages, the entry, by and acks of a line name.               *)
LEMMA MessageTypes ==
  /\ \A m \in RequestMsg : m.Requestor \in Cache
  /\ \A m \in MemoryMsg : m.OriginalRequestor \in Cache
  BY DEF RequestMsg, MemoryMsg

(* A forward of line a is what the directory puts on that network.         *)
LEMMA ForwardTypes ==
  ASSUME NEW a \in Addr, NEW forwards \in ForwardsType(a),
         NEW d \in Cache, NEW m \in forwards[d]
  PROVE  /\ m = ForwardOf(m.Type, a, m.Requestor)
         /\ m.Type \in {"GetS", "GetM", "Inv", "PutAck"}
         /\ m.Type \in {"GetS", "GetM", "Inv"} => m.Requestor \in Cache
<1>1. m \in ForwardMsg /\ m.addr = a
  BY DEF ForwardsType, ForwardsFor
<1> QED
  BY <1>1 DEF ForwardMsg, ForwardOf

(* The sharers of an entry are finitely many caches.                       *)
LEMMA EntryTypes ==
  ASSUME NEW e \in Entry
  PROVE  /\ e.Sharers \in SUBSET Cache /\ IsFiniteSet(e.Sharers)
         /\ e.Owner \in SUBSET Cache
<1>1. e.Sharers \in SUBSET Cache /\ e.Owner \in SUBSET Cache
  BY DEF Entry
<1> QED
  BY <1>1, MSIConstants, FS_Subset DEF MSIConstants

(* Who is asked to answer a cache is a machine.                            *)
LEMMA ByTypes ==
  ASSUME NEW by \in ByType, NEW c \in Cache
  PROVE  by[c] \in Machine
  BY DEF ByType

(* The TBE of a cache counts an integer.                                   *)
LEMMA AcksTypes ==
  ASSUME NEW acks \in AcksType, NEW c \in Cache
  PROVE  acks[c] \in Int
  BY DEF AcksType

-----------------------------------------------------------------------------
(* Steps of a cache.                                                       *)

(* A cache in state s starts a request of this type and goes to state t.   *)
Starts(s, type, t) ==
  \/ s = "I" /\ type = "GetS" /\ t = "IS_D"
  \/ s = "I" /\ type = "GetM" /\ t = "IM_AD"
  \/ s = "S" /\ type = "GetM" /\ t = "SM_AD"
  \/ s = "S" /\ type = "PutS" /\ t = "SI_A"
  \/ s = "M" /\ type = "PutM" /\ t = "MI_A"

(* The cache sends a request and waits: I to IS_D or IM_AD, S to SM_AD or  *)
(* SI_A, M to MI_A.                                                        *)
LEMMA RequestStarts ==
  ASSUME NEW a \in Addr, NEW sent \in SentType,
         NEW arrived \in SUBSET RequestMsg, NEW queued \in SUBSET MemoryMsg,
         NEW forwards \in ForwardsType(a),
         NEW answers \in AnswersType,
         NEW home \in HomeType, NEW entry \in Entry,
         NEW state \in StateType, NEW acks \in AcksType,
         LineHolds(a, sent, arrived, queued, forwards, answers, home, entry, state, acks),
         NEW c \in Cache, NEW m \in RequestMsg, NEW t, NEW n \in Int,
         m.Requestor = c, Starts(state[c], m.Type, t),
         n = IF t \in PutStates THEN acks[c] ELSE 0,
         NEW sent1 \in SentType,
         ChangedAt(sent, sent1, c, sent[c] \cup {m}),
         NEW state1 \in StateType,
         ChangedAt(state, state1, c, t),
         NEW acks1 \in AcksType,
         ChangedAt(acks, acks1, c, n)
  PROVE  LineHolds(a, sent1, arrived, queued, forwards, answers, home, entry, state1, acks1)
<1>1. PICK stage \in StageType, by \in ByType,
           chain \in Seq(Cache), inv \in SUBSET Cache, ack \in SUBSET Cache :
        LineInv(a, sent, arrived, queued, forwards, answers, home, entry, state, acks,
              stage, by, chain, inv, ack)
  BY DEF LineHolds
<1>2. PICK st \in StageType : /\ st[c] = "sent"
                             /\ \A x \in Cache : x # c => st[x] = stage[x]
  <2>1. [stage EXCEPT ![c] = "sent"] \in StageType
    BY DEF StageType, Stage
  <2> QED
    BY <2>1 DEF StageType
<1>3. /\ st[c] = "sent" /\ \A x \in Cache : x # c => st[x] = stage[x]
      /\ stage[c] = "none" /\ sent[c] = {}
  BY <1>1, <1>2 DEF LineInv, StageOK, SentOK, Starts
<1>4. /\ sent1[c] = {m} /\ \A x \in Cache : x # c => sent1[x] = sent[x]
      /\ state1[c] = t /\ \A x \in Cache : x # c => state1[x] = state[x]
      /\ acks1[c] = n /\ \A x \in Cache : x # c => acks1[x] = acks[x]
  BY <1>3 DEF ChangedAt
<1>5. /\ Fits(m.Type, t) /\ t \in GetStates \cup PutStates
      /\ t \in {"MI_A", "SI_A", "SM_AD", "IM_AD", "IS_D"}
      /\ state[c] \in {"I", "S", "M"}
      /\ t = "MI_A" <=> state[c] = "M"
  BY DEF Starts, Fits, GetStates, PutStates
<1>6. SentOK(sent1, state1, st)
  BY <1>1, <1>3, <1>4, <1>5 DEF LineInv, SentOK
<1>7. ArrivedOK(arrived, state1, st)
  BY <1>1, <1>3, <1>4, MessageTypes DEF LineInv, ArrivedOK
<1>8. QueuedOK(queued, st)
  BY <1>1, <1>3, <1>4, MessageTypes DEF LineInv, QueuedOK
<1>9. AskedOK(a, forwards, state1, st, by)
  BY <1>1, <1>3, <1>4, ForwardTypes DEF LineInv, AskedOK
<1>10. AckedOK(a, forwards, st)
  BY <1>1, <1>3, <1>4 DEF LineInv, AckedOK
<1>11. DataSentOK(answers, st, by)
  BY <1>1, <1>3, <1>4, ByTypes DEF LineInv, DataSentOK
<1>12. StageOK(state1, st)
  BY <1>1, <1>3, <1>4, <1>5 DEF LineInv, StageOK, Starts, PutStates, GetStates
<1>13. \A x \in Cache : Asked(x, st, by) <=> Asked(x, stage, by)
  BY <1>3 DEF Asked
<1>14. OwnersOK(state1, st, by, chain)
  BY <1>1, <1>3, <1>4, <1>5, <1>13 DEF LineInv, OwnersOK, Owning
<1>15. \A i \in 1..Len(chain) : chain[i] \in Cache
  OBVIOUS
<1>16. LinksOK(st, by, chain)
  BY <1>1, <1>3, <1>15 DEF LineInv, LinksOK
<1>17. EntryOK(entry, st, chain)
  BY <1>1, <1>3, <1>4, <1>15 DEF LineInv, EntryOK
<1>18. MemoryOK(entry, state1, st)
  BY <1>1, <1>3, <1>4 DEF LineInv, MemoryOK
<1>19. \A x \in Cache : Reads(x, state1, st) <=> Reads(x, state, stage)
  BY <1>3, <1>4 DEF Reads
<1>20. chain # <<>> => chain[1] \in Cache /\ LastOf(chain) \in Cache
  BY <1>15 DEF LastOf
<1>21. ReaderOK(entry, state1, st, by, chain)
  BY <1>1, <1>3, <1>4, <1>13, <1>19, <1>20, EntryTypes DEF LineInv, ReaderOK
<1>22. InvsOK(state1, st, chain, inv, ack)
  BY <1>1, <1>3, <1>4, <1>5, <1>20 DEF LineInv, InvsOK, Starts, Stalled
<1>23. AcksOK(entry, answers, state1, acks1, st, by, chain, inv, ack)
  <2>1. acks[c] = Due(c, chain, inv, ack)
    BY <1>1, <1>3, AcksTypes, ByTypes DEF LineInv, AcksOK
  <2>2. n = Due(c, chain, inv, ack)
    BY <1>1, <1>5, <1>20, <2>1 DEF LineInv, OwnersOK, Owning, InChain, PutStates, Due
  <2> QED
    BY <1>1, <1>3, <1>4, <1>5, <2>2 DEF LineInv, AcksOK, PutStates
<1>24. CopiesOK(entry, state1, st, chain, inv)
  BY <1>1, <1>3, <1>4, <1>5 DEF LineInv, CopiesOK, Holds, Starts
<1>25. SharersOK(entry, state1, st, chain)
  BY <1>1, <1>3, <1>4, <1>5, EntryTypes DEF LineInv, SharersOK, Starts
<1>26. LineInv(a, sent1, arrived, queued, forwards, answers, home, entry, state1, acks1,
              st, by, chain, inv, ack)
  BY <1>1, <1>4, <1>6, <1>7, <1>8, <1>9, <1>10, <1>11, <1>12, <1>14, <1>16, <1>17, <1>18,
     <1>21, <1>22, <1>23, <1>24, <1>25 DEF LineInv
<1> QED
  BY <1>26 DEF LineHolds

(* The network delivers a request.                                         *)
LEMMA RequestDelivered ==
  ASSUME NEW a \in Addr, NEW sent \in SentType,
         NEW arrived \in SUBSET RequestMsg, NEW queued \in SUBSET MemoryMsg,
         NEW forwards \in ForwardsType(a),
         NEW answers \in AnswersType,
         NEW home \in HomeType, NEW entry \in Entry,
         NEW state \in StateType, NEW acks \in AcksType,
         LineHolds(a, sent, arrived, queued, forwards, answers, home, entry, state, acks),
         NEW c \in Cache, NEW m \in sent[c],
         NEW sent1 \in SentType,
         ChangedAt(sent, sent1, c, sent[c] \ {m}),
         NEW arrived1 \in SUBSET RequestMsg, arrived1 = arrived \cup {m}
  PROVE  LineHolds(a, sent1, arrived1, queued, forwards, answers, home, entry, state, acks)
<1>1. PICK stage \in StageType, by \in ByType,
           chain \in Seq(Cache), inv \in SUBSET Cache, ack \in SUBSET Cache :
        LineInv(a, sent, arrived, queued, forwards, answers, home, entry, state, acks,
              stage, by, chain, inv, ack)
  BY DEF LineHolds
<1>2. PICK st \in StageType : /\ st[c] = "arrived"
                             /\ \A x \in Cache : x # c => st[x] = stage[x]
  <2>1. [stage EXCEPT ![c] = "arrived"] \in StageType
    BY DEF StageType, Stage
  <2> QED
    BY <2>1 DEF StageType
<1>3. /\ st[c] = "arrived" /\ \A x \in Cache : x # c => st[x] = stage[x]
      /\ stage[c] = "sent" /\ sent[c] = {m}
      /\ m.Requestor = c /\ Fits(m.Type, state[c])
  BY <1>1, <1>2 DEF LineInv, SentOK
<1>4. /\ sent1[c] = {} /\ \A x \in Cache : x # c => sent1[x] = sent[x]
      /\ arrived1 = arrived \cup {m}
  BY <1>3 DEF ChangedAt
<1>5. /\ \A i \in 1..Len(chain) : chain[i] \in Cache
      /\ chain # <<>> => chain[1] \in Cache /\ LastOf(chain) \in Cache
  BY DEF LastOf
<1>6. \A x \in Cache : /\ Asked(x, st, by) <=> Asked(x, stage, by)
                       /\ Reads(x, state, st) <=> Reads(x, state, stage)
  BY <1>3, <1>4 DEF Asked, Reads
<1>7. SentOK(sent1, state, st)
  BY <1>1, <1>3, <1>4 DEF LineInv, SentOK
<1>8. ArrivedOK(arrived1, state, st)
  BY <1>1, <1>3, <1>4, MessageTypes DEF LineInv, ArrivedOK
<1>9. QueuedOK(queued, st)
  BY <1>1, <1>3, <1>4, MessageTypes DEF LineInv, QueuedOK
<1>10. AskedOK(a, forwards, state, st, by)
  BY <1>1, <1>3, <1>4, ForwardTypes DEF LineInv, AskedOK
<1>11. AckedOK(a, forwards, st)
  BY <1>1, <1>3, <1>4 DEF LineInv, AckedOK
<1>12. DataSentOK(answers, st, by)
  BY <1>1, <1>3, <1>4, ByTypes DEF LineInv, DataSentOK
<1>13. StageOK(state, st)
  BY <1>1, <1>3, <1>4 DEF LineInv, StageOK
<1>14. OwnersOK(state, st, by, chain)
  BY <1>1, <1>3, <1>4, <1>6 DEF LineInv, OwnersOK, Owning
<1>15. LinksOK(st, by, chain)
  BY <1>1, <1>3, <1>5 DEF LineInv, LinksOK
<1>16. EntryOK(entry, st, chain)
  BY <1>1, <1>3, <1>4, <1>5 DEF LineInv, EntryOK
<1>17. MemoryOK(entry, state, st)
  BY <1>1, <1>3, <1>4 DEF LineInv, MemoryOK
<1>18. ReaderOK(entry, state, st, by, chain)
  BY <1>1, <1>3, <1>4, <1>5, <1>6, EntryTypes DEF LineInv, ReaderOK
<1>19. InvsOK(state, st, chain, inv, ack)
  BY <1>1, <1>3, <1>4 DEF LineInv, InvsOK
<1>20. AcksOK(entry, answers, state, acks, st, by, chain, inv, ack)
  BY <1>1, <1>3, <1>4, AcksTypes, ByTypes DEF LineInv, AcksOK
<1>21. CopiesOK(entry, state, st, chain, inv)
  BY <1>1, <1>3, <1>4 DEF LineInv, CopiesOK, Holds
<1>22. SharersOK(entry, state, st, chain)
  BY <1>1, <1>3, <1>4, EntryTypes DEF LineInv, SharersOK
<1>23. LineInv(a, sent1, arrived1, queued, forwards, answers, home, entry, state, acks,
              st, by, chain, inv, ack)
  BY <1>1, <1>4, <1>7, <1>8, <1>9, <1>10, <1>11, <1>12, <1>13, <1>14, <1>15,
     <1>16, <1>17, <1>18, <1>19, <1>20, <1>21, <1>22 DEF LineInv
<1> QED
  BY <1>23 DEF LineHolds

(* The chain without its first.                                            *)
LEMMA ChainTail ==
  ASSUME NEW chain \in Seq(Cache), chain # <<>>,
         \A i, j \in 1..Len(chain) : chain[i] = chain[j] => i = j
  PROVE  /\ Tail(chain) \in Seq(Cache)
         /\ Len(Tail(chain)) = Len(chain) - 1
         /\ \A i \in 1..Len(Tail(chain)) : Tail(chain)[i] = chain[i + 1]
         /\ \A x : InChain(x, Tail(chain)) <=> InChain(x, chain) /\ x # chain[1]
         /\ Len(chain) > 1 => Tail(chain) # <<>> /\ LastOf(Tail(chain)) = LastOf(chain)
         /\ Len(chain) = 1 => Tail(chain) = <<>>
<1> DEFINE t == Tail(chain)
<1>1. /\ t \in Seq(Cache) /\ Len(t) = Len(chain) - 1 /\ Len(chain) \in Nat \ {0}
      /\ \A i \in 1..Len(t) : t[i] = chain[i + 1]
  OBVIOUS
<1> HIDE DEF t
<1>5. t = <<>> <=> Len(chain) = 1
  BY <1>1
<1>2. Len(chain) > 1 => LastOf(t) = LastOf(chain)
  BY <1>1 DEF LastOf
<1>3. ASSUME NEW x, InChain(x, t)
      PROVE  InChain(x, chain) /\ x # chain[1]
  <2>1. PICK i \in 1..Len(t) : t[i] = x
    BY <1>3 DEF InChain
  <2>2. i + 1 \in 1..Len(chain) /\ chain[i + 1] = x /\ 1 \in 1..Len(chain) /\ i + 1 # 1
    BY <1>1, <2>1
  <2> QED
    BY <2>2 DEF InChain
<1>4. ASSUME NEW x, InChain(x, chain), x # chain[1]
      PROVE  InChain(x, t)
  <2>1. PICK i \in 1..Len(chain) : chain[i] = x
    BY <1>4 DEF InChain
  <2>2. i - 1 \in 1..Len(t) /\ t[i - 1] = x
    BY <1>1, <1>4, <2>1
  <2> QED
    BY <2>2 DEF InChain
<1> QED
  BY <1>1, <1>2, <1>3, <1>4, <1>5 DEF t

(* Of the caches in the chain, one that waits for no owner is the first.   *)
LEMMA FirstOfChain ==
  ASSUME NEW state \in StateType,
         NEW stage \in StageType, NEW by \in ByType,
         NEW chain \in Seq(Cache),
         OwnersOK(state, stage, by, chain), LinksOK(stage, by, chain),
         NEW c \in Cache, Owning(c, state, stage, by), stage[c] # "forwarded"
  PROVE  chain # <<>> /\ chain[1] = c /\ InChain(c, chain)
<1>1. PICK i \in 1..Len(chain) : chain[i] = c
  BY DEF OwnersOK, InChain
<1>2. i = 1
  BY <1>1 DEF LinksOK
<1> QED
  BY <1>1, <1>2 DEF InChain

(* An owner answers a reader, and the directory with the same data.        *)
LEMMA OwnerAnswersRead ==
  ASSUME NEW a \in Addr, NEW sent \in SentType,
         NEW arrived \in SUBSET RequestMsg, NEW queued \in SUBSET MemoryMsg,
         NEW forwards \in ForwardsType(a),
         NEW answers \in AnswersType,
         NEW home \in HomeType, NEW entry \in Entry,
         NEW state \in StateType, NEW acks \in AcksType,
         LineHolds(a, sent, arrived, queued, forwards, answers, home, entry, state, acks),
         NEW c \in Cache, NEW m \in forwards[c], m.Type = "GetS",
         NEW r \in CacheResponse, r.Type = "Data", r.Sender = c,
         state[c] \in {"M", "MI_A"}, NEW t,
         t = IF state[c] = "M" THEN "S" ELSE "SI_A",
         NEW forwards1 \in ForwardsType(a),
         ChangedAt(forwards, forwards1, c, forwards[c] \ {m}),
         NEW state1 \in StateType,
         ChangedAt(state, state1, c, t),
         NEW answers1 \in AnswersType,
         PairChangedAt(answers, answers1, m.Requestor, c, answers[m.Requestor][c] \cup {r}),
         NEW home1 \in HomeType,
         ChangedAt(home, home1, c, home[c] \cup {r})
  PROVE  LineHolds(a, sent, arrived, queued, forwards1, answers1, home1, entry, state1, acks)
<1>1. PICK stage \in StageType, by \in ByType,
           chain \in Seq(Cache), inv \in SUBSET Cache, ack \in SUBSET Cache :
        LineInv(a, sent, arrived, queued, forwards, answers, home, entry, state, acks,
              stage, by, chain, inv, ack)
  BY DEF LineHolds
<1>2. PICK x \in Cache : x = m.Requestor /\ m = ForwardOf("GetS", a, x)
  BY ForwardTypes
<1>3. /\ stage[x] = "forwarded" /\ by[x] = c /\ state[x] = "IS_D" /\ x # c
      /\ stage[c] # "forwarded" /\ Owning(c, state, stage, by)
  BY <1>1, <1>2 DEF LineInv, AskedOK, Fits, StageOK, Owning, Asked, GetStates
<1>4. /\ chain # <<>> /\ \A y : InChain(y, chain) <=> y = c
      /\ chain[1] = c /\ Len(chain) = 1 /\ LastOf(chain) = c /\ entry.DirState = "S_D"
      /\ c \in entry.Sharers <=> stage[c] # "acked"
      /\ x \in entry.Sharers
      /\ \A y \in Cache : Reads(y, state, stage) => y = x
      /\ \A y \in entry.Sharers : y = c \/ y = x
      /\ inv = {} /\ ack = {}
  <2>1. chain # <<>> /\ chain[1] = c
    BY <1>1, <1>3, FirstOfChain DEF LineInv
  <2>2. Reads(x, state, stage)
    BY <1>3 DEF Reads
  <2>3. entry.DirState = "S_D" /\ c = LastOf(chain) /\ x \in entry.Sharers
    BY <1>1, <1>3, <2>2 DEF LineInv, ReaderOK
  <2>4. /\ Len(chain) \in Nat \ {0} /\ chain[Len(chain)] = chain[1]
        /\ 1 \in 1..Len(chain) /\ Len(chain) \in 1..Len(chain)
    BY <2>1, <2>3 DEF LastOf
  <2>5. Len(chain) = 1
    BY <1>1, <2>4 DEF LineInv, OwnersOK
  <2>6. \A y : InChain(y, chain) <=> y = c
    BY <2>1, <2>5 DEF InChain
  <2>7. inv = {} /\ ack = {}
    BY <1>1, <2>1 DEF LineInv, InvsOK, Stalled
  <2>8. \A y \in Cache : Reads(y, state, stage) => y = x
    BY <1>1, <2>2 DEF LineInv, ReaderOK
  <2>9. /\ c \in entry.Sharers <=> stage[c] # "acked"
        /\ \A y \in entry.Sharers : y = c \/ Reads(y, state, stage)
    BY <1>1, <2>1, <2>3 DEF LineInv, ReaderOK
  <2>10. \A y \in entry.Sharers : y = c \/ y = x
    BY <2>8, <2>9, EntryTypes
  <2> QED
    BY <2>1, <2>2, <2>3, <2>5, <2>6, <2>7, <2>8, <2>9, <2>10
<1>5. PICK st \in StageType : /\ st[x] = "answered"
                             /\ \A y \in Cache : y # x => st[y] = stage[y]
  <2>1. [stage EXCEPT ![x] = "answered"] \in StageType
    BY DEF StageType, Stage
  <2> QED
    BY <2>1 DEF StageType
<1>6. /\ forwards1[c] = forwards[c] \ {m} /\ \A y \in Cache : y # c => forwards1[y] = forwards[y]
      /\ state1[c] = t /\ \A y \in Cache : y # c => state1[y] = state[y]
      /\ home1[c] = home[c] \cup {r} /\ \A y \in Cache : y # c => home1[y] = home[y]
      /\ answers1[x][c] = answers[x][c] \cup {r}
      /\ \A y \in Cache, z \in Machine :
           y # x \/ z # c => answers1[y][z] = answers[y][z]
  BY <1>2 DEF ChangedAt, PairChangedAt
<1>7. c # Directory /\ c \in Machine
  BY MSIConstants DEF MSIConstants, Machine
<1>8. /\ \A y \in Cache : Asked(y, st, by) => Asked(y, stage, by)
      /\ \A y \in Cache : ~Reads(y, state1, st)
  BY <1>3, <1>4, <1>5, <1>6 DEF Asked, Reads
<1>9. /\ Cardinality({}) = 0
      /\ \A y \in Cache : Due(y, <<>>, {}, {}) = 0 /\ Due(y, chain, inv, ack) = 0
  BY <1>4, FS_EmptySet DEF Due
<1>10. <<>> \in Seq(Cache)
  OBVIOUS
<1>11. SentOK(sent, state1, st)
  BY <1>1, <1>3, <1>5, <1>6 DEF LineInv, SentOK, Fits, PutStates
<1>12. ArrivedOK(arrived, state1, st)
  BY <1>1, <1>3, <1>5, <1>6, MessageTypes DEF LineInv, ArrivedOK, Fits,
     PutStates
<1>13. QueuedOK(queued, st)
  BY <1>1, <1>3, <1>5, <1>6, MessageTypes DEF LineInv, QueuedOK
<1>14. AskedOK(a, forwards1, state1, st, by)
  BY <1>1, <1>2, <1>3, <1>5, <1>6, ForwardTypes DEF LineInv, AskedOK,
     ForwardOf, Fits
<1>15. AckedOK(a, forwards1, st)
  BY <1>1, <1>2, <1>3, <1>5, <1>6 DEF LineInv, AckedOK, ForwardOf
<1>16. InvSentOK(a, forwards1, <<>>, {})
  BY <1>1, <1>2, <1>4, <1>6 DEF LineInv, InvSentOK
<1>17. ResponsesOK(answers1)
  <2>1. \A n \in answers[x][c] : n.Type # "Data"
    BY <1>1, <1>3, <1>7, ByTypes DEF LineInv, DataSentOK
  <2> QED
    BY <1>1, <1>6, <1>7, <2>1 DEF LineInv, ResponsesOK
<1>18. DataSentOK(answers1, st, by)
  BY <1>1, <1>3, <1>5, <1>6, ByTypes DEF LineInv, DataSentOK
<1>19. InvAckSentOK(answers1, <<>>, {})
  BY <1>1, <1>4, <1>6 DEF LineInv, InvAckSentOK
<1>20. HomeOK(home1, entry, <<>>)
  BY <1>1, <1>4, <1>6 DEF LineInv, HomeOK
<1>21. StageOK(state1, st)
  BY <1>1, <1>3, <1>5, <1>6 DEF LineInv, StageOK, PutStates, GetStates
<1>22. OwnersOK(state1, st, by, <<>>)
  <2>1. \A y \in Cache : ~Owning(y, state1, st, by)
    <3>1. \A y \in Cache : y # c => ~Owning(y, state, stage, by)
      BY <1>1, <1>4 DEF LineInv, OwnersOK
    <3> QED
      BY <1>3, <1>5, <1>6, <1>8, <3>1 DEF Owning
  <2>2. \A y : ~InChain(y, <<>>)
    BY DEF InChain
  <2> QED
    BY <2>1, <2>2 DEF OwnersOK
<1>23. LinksOK(st, by, <<>>)
  BY <1>1 DEF LineInv, LinksOK
<1>24. EntryOK(entry, st, <<>>)
  BY <1>1, <1>4, <1>6 DEF LineInv, EntryOK
<1>25. MemoryOK(entry, state1, st)
  BY <1>1, <1>3, <1>5, <1>6 DEF LineInv, MemoryOK
<1>26. ReaderOK(entry, state1, st, by, <<>>)
  BY <1>1, <1>6, <1>8, EntryTypes DEF LineInv, ReaderOK
<1>27. InvsOK(state1, st, <<>>, {}, {})
  BY <1>1 DEF LineInv, InvsOK
<1>28. AcksOK(entry, answers1, state1, acks, st, by, <<>>, {}, {})
  BY <1>1, <1>3, <1>5, <1>6, <1>7, <1>9, AcksTypes, ByTypes DEF LineInv, AcksOK
<1>29. CopiesOK(entry, state1, st, <<>>, {})
  <2>1. \A y \in Cache : Holds(y, state, stage) => y = c
    BY <1>1, <1>4 DEF LineInv, CopiesOK, Settled
  <2>2. \A y \in Cache : Holds(y, state1, st) => (y = c /\ stage[c] = "none") \/ y = x
    BY <1>1, <1>3, <1>5, <1>6, <2>1 DEF Holds, LineInv, StageOK
  <2> QED
    BY <1>4, <1>6, <2>2 DEF CopiesOK, Settled
<1>30. SharersOK(entry, state1, st, <<>>)
  BY <1>1, <1>3, <1>4, <1>5, <1>6, EntryTypes DEF LineInv, SharersOK,
     Settled, StageOK
<1>31. LineInv(a, sent, arrived, queued, forwards1, answers1, home1, entry, state1, acks,
              st, by, <<>>, {}, {})
  BY <1>1, <1>6, <1>11, <1>12, <1>13, <1>14, <1>15, <1>16, <1>17, <1>18,
     <1>19, <1>20, <1>21, <1>22, <1>23, <1>24, <1>25, <1>26, <1>27, <1>28,
     <1>29, <1>30 DEF LineInv
<1> QED
  BY <1>31, <1>10 DEF LineHolds

(* An owner answers a writer.                                              *)
LEMMA OwnerAnswersWrite ==
  ASSUME NEW a \in Addr, NEW sent \in SentType,
         NEW arrived \in SUBSET RequestMsg, NEW queued \in SUBSET MemoryMsg,
         NEW forwards \in ForwardsType(a),
         NEW answers \in AnswersType,
         NEW home \in HomeType, NEW entry \in Entry,
         NEW state \in StateType, NEW acks \in AcksType,
         LineHolds(a, sent, arrived, queued, forwards, answers, home, entry, state, acks),
         NEW c \in Cache, NEW m \in forwards[c], m.Type = "GetM",
         NEW r \in CacheResponse, r.Type = "Data", r.Sender = c,
         state[c] \in {"M", "MI_A"}, NEW t,
         t = IF state[c] = "M" THEN "I" ELSE "II_A",
         NEW forwards1 \in ForwardsType(a),
         ChangedAt(forwards, forwards1, c, forwards[c] \ {m}),
         NEW state1 \in StateType,
         ChangedAt(state, state1, c, t),
         NEW answers1 \in AnswersType,
         PairChangedAt(answers, answers1, m.Requestor, c, answers[m.Requestor][c] \cup {r})
  PROVE  LineHolds(a, sent, arrived, queued, forwards1, answers1, home, entry, state1, acks)
<1>1. PICK stage \in StageType, by \in ByType,
           chain \in Seq(Cache), inv \in SUBSET Cache, ack \in SUBSET Cache :
        LineInv(a, sent, arrived, queued, forwards, answers, home, entry, state, acks,
              stage, by, chain, inv, ack)
  BY DEF LineHolds
<1>2. PICK x \in Cache : x = m.Requestor /\ m = ForwardOf("GetM", a, x)
  BY ForwardTypes
<1>3. /\ stage[x] = "forwarded" /\ by[x] = c /\ state[x] \in {"IM_AD", "SM_AD"} /\ x # c
      /\ stage[c] # "forwarded"
      /\ Owning(c, state, stage, by) /\ Owning(x, state, stage, by)
  BY <1>1, <1>2 DEF LineInv, AskedOK, Fits, StageOK, Owning, Asked, GetStates
<1>4. /\ chain # <<>> /\ chain[1] = c /\ Len(chain) \in Nat /\ Len(chain) > 1
      /\ 2 \in 1..Len(chain) /\ chain[2] = x /\ LastOf(chain) # c
      /\ LastOf(chain) \in Cache /\ Len(chain) \in 1..Len(chain)
      /\ \A i \in 1..Len(chain) : chain[i] \in Cache
      /\ \A i, j \in 1..Len(chain) : chain[i] = chain[j] => i = j
      /\ inv = {} /\ ack = {}
  <2>1. chain # <<>> /\ chain[1] = c
    BY <1>1, <1>3, FirstOfChain DEF LineInv
  <2>2. PICK i \in 1..Len(chain) : chain[i] = x
    BY <1>1, <1>3 DEF LineInv, OwnersOK, InChain
  <2>3. i # 1 /\ by[x] = chain[i - 1]
    BY <1>1, <1>3, <2>2 DEF LineInv, LinksOK
  <2>4. \A j, k \in 1..Len(chain) : chain[j] = chain[k] => j = k
    BY <1>1 DEF LineInv, OwnersOK
  <2>5. Len(chain) \in Nat \ {0} /\ 1 \in 1..Len(chain) /\ i - 1 \in 1..Len(chain)
        /\ Len(chain) \in 1..Len(chain)
    BY <2>1, <2>2, <2>3
  <2>6. i - 1 = 1
    BY <1>3, <2>1, <2>3, <2>4, <2>5
  <2>7. i = 2 /\ Len(chain) > 1
    BY <2>2, <2>6
  <2>8. LastOf(chain) # c
    BY <2>1, <2>4, <2>5, <2>7 DEF LastOf
  <2>9. inv = {} /\ ack = {}
    BY <1>1, <2>1 DEF LineInv, InvsOK, Stalled
  <2>10. LastOf(chain) \in Cache /\ \A j \in 1..Len(chain) : chain[j] \in Cache
    BY <2>1 DEF LastOf
  <2> QED
    BY <2>1, <2>2, <2>4, <2>5, <2>7, <2>8, <2>9, <2>10
<1>5. PICK rest \in Seq(Cache) : rest = Tail(chain)
  BY <1>4, ChainTail
<1>6. /\ rest # <<>> /\ rest[1] = x /\ LastOf(rest) = LastOf(chain)
      /\ Len(rest) \in Nat /\ Len(rest) = Len(chain) - 1
      /\ \A i \in 1..Len(rest) : rest[i] = chain[i + 1]
      /\ \A y : InChain(y, rest) <=> InChain(y, chain) /\ y # c
  <2>1. /\ rest # <<>> /\ LastOf(rest) = LastOf(chain) /\ Len(chain) \in Nat
        /\ Len(rest) \in Nat /\ Len(rest) = Len(chain) - 1
        /\ \A i \in 1..Len(rest) : rest[i] = chain[i + 1]
        /\ \A y : InChain(y, rest) <=> InChain(y, chain) /\ y # c
    <3> HIDE DEF LastOf
    <3>1. /\ Len(Tail(chain)) = Len(chain) - 1
          /\ \A i \in 1..Len(Tail(chain)) : Tail(chain)[i] = chain[i + 1]
          /\ \A y : InChain(y, Tail(chain)) <=> InChain(y, chain) /\ y # chain[1]
          /\ Tail(chain) # <<>> /\ LastOf(Tail(chain)) = LastOf(chain)
      BY <1>4, ChainTail
    <3> QED
      BY <1>4, <1>5, <3>1
  <2> QED
    BY <1>4, <2>1
<1>7. PICK st \in StageType : /\ st[x] = "answered"
                             /\ \A y \in Cache : y # x => st[y] = stage[y]
  <2>1. [stage EXCEPT ![x] = "answered"] \in StageType
    BY DEF StageType, Stage
  <2> QED
    BY <2>1 DEF StageType
<1>8. /\ forwards1[c] = forwards[c] \ {m} /\ \A y \in Cache : y # c => forwards1[y] = forwards[y]
      /\ state1[c] = t /\ \A y \in Cache : y # c => state1[y] = state[y]
      /\ answers1[x][c] = answers[x][c] \cup {r}
      /\ \A y \in Cache, z \in Machine :
           y # x \/ z # c => answers1[y][z] = answers[y][z]
  BY <1>2 DEF ChangedAt, PairChangedAt
<1>9. c # Directory /\ c \in Machine
  BY MSIConstants DEF MSIConstants, Machine
<1>10. \A i \in 1..Len(rest) :
        /\ i + 1 \in 1..Len(chain) /\ i + 1 # 1 /\ (i + 1 = 2 => i = 1)
        /\ i # 1 => rest[i - 1] = chain[i]
  <2>1. ASSUME NEW i \in 1..Len(rest)
        PROVE  i + 1 \in 1..Len(chain) /\ i + 1 # 1 /\ (i + 1 = 2 => i = 1)
    BY <1>4, <1>6
  <2>2. ASSUME NEW i \in 1..Len(rest), i # 1
        PROVE  rest[i - 1] = chain[i]
    <3>1. i - 1 \in 1..Len(rest) /\ (i - 1) + 1 = i
      BY <1>4, <1>6, <2>2
    <3> QED
      BY <1>6, <3>1
  <2> QED
    BY <2>1, <2>2
<1>11. /\ \A y \in Cache : y # c => (Asked(y, st, by) <=> Asked(y, stage, by))
      /\ \A y \in Cache : Reads(y, state1, st) <=> Reads(y, state, stage)
  BY <1>1, <1>3, <1>7, <1>8 DEF Asked, Reads, LineInv, StageOK
<1>12. SentOK(sent, state1, st)
  BY <1>1, <1>3, <1>7, <1>8 DEF LineInv, SentOK, Fits, PutStates
<1>13. ArrivedOK(arrived, state1, st)
  BY <1>1, <1>3, <1>7, <1>8, MessageTypes DEF LineInv, ArrivedOK, Fits,
     PutStates
<1>14. QueuedOK(queued, st)
  BY <1>1, <1>3, <1>7, <1>8, MessageTypes DEF LineInv, QueuedOK
<1>15. AskedOK(a, forwards1, state1, st, by)
  BY <1>1, <1>2, <1>3, <1>7, <1>8, ForwardTypes DEF LineInv, AskedOK,
     ForwardOf, Fits
<1>16. AckedOK(a, forwards1, st)
  BY <1>1, <1>2, <1>3, <1>7, <1>8 DEF LineInv, AckedOK, ForwardOf
<1>17. InvSentOK(a, forwards1, rest, {})
  BY <1>1, <1>2, <1>4, <1>6, <1>8 DEF LineInv, InvSentOK
<1>18. ResponsesOK(answers1)
  <2>1. \A n \in answers[x][c] : n.Type # "Data"
    BY <1>1, <1>3, <1>9, ByTypes DEF LineInv, DataSentOK
  <2> QED
    BY <1>1, <1>8, <1>9, <2>1 DEF LineInv, ResponsesOK
<1>19. DataSentOK(answers1, st, by)
  BY <1>1, <1>3, <1>7, <1>8, <1>9, ByTypes DEF LineInv, DataSentOK
<1>20. InvAckSentOK(answers1, rest, {})
  BY <1>1, <1>4, <1>5, <1>6, <1>8 DEF LineInv, InvAckSentOK
<1>21. HomeOK(home, entry, rest)
  BY <1>1, <1>4, <1>5, <1>6, <1>8 DEF LineInv, HomeOK
<1>22. StageOK(state1, st)
  BY <1>1, <1>3, <1>7, <1>8 DEF LineInv, StageOK, PutStates, GetStates
<1>23. OwnersOK(state1, st, by, rest)
  <2>1. \A i, j \in 1..Len(rest) : rest[i] = rest[j] => i = j
    BY <1>4, <1>6, <1>10
  <2>2. \A y \in Cache : InChain(y, chain) <=> Owning(y, state, stage, by)
    BY <1>1 DEF LineInv, OwnersOK
  <2>3. \A y \in Cache :
          y # c => (Owning(y, state1, st, by) <=> Owning(y, state, stage, by))
    BY <1>3, <1>7, <1>8, <1>11 DEF Owning
  <2>4. ~Owning(c, state1, st, by)
    BY <1>8 DEF Owning
  <2> QED
    BY <1>6, <2>1, <2>2, <2>3, <2>4 DEF OwnersOK
<1>24. LinksOK(st, by, rest)
  <2>1. ASSUME NEW i \in 1..Len(rest)
        PROVE  /\ st[rest[i]] = "forwarded" <=> i # 1
               /\ i # 1 => by[rest[i]] = rest[i - 1]
    <3>1. /\ stage[chain[i + 1]] = "forwarded" /\ by[chain[i + 1]] = chain[i]
          /\ chain[i + 1] \in Cache
      BY <1>1, <1>4, <1>10 DEF LineInv, LinksOK
    <3>2. i # 1 => chain[i + 1] # x
      BY <1>4, <1>10
    <3> QED
      BY <1>4, <1>6, <1>7, <1>10, <3>1, <3>2
  <2> QED
    BY <2>1 DEF LinksOK
<1>25. EntryOK(entry, st, rest)
  <2>1. entry.DirState # "M_m"
    BY <1>1, <1>4 DEF LineInv, EntryOK
  <2> QED
    BY <1>1, <1>4, <1>6, <1>8, <2>1 DEF LineInv, EntryOK
<1>26. MemoryOK(entry, state1, st)
  BY <1>1, <1>3, <1>7, <1>8 DEF LineInv, MemoryOK
<1>27. ReaderOK(entry, state1, st, by, rest)
  <2>1. stage[LastOf(chain)] # "acked" <=> st[LastOf(chain)] # "acked"
    BY <1>3, <1>4, <1>7
  <2> QED
    BY <1>1, <1>4, <1>6, <1>8, <1>11, <2>1, EntryTypes DEF LineInv, ReaderOK
<1>28. InvsOK(state1, st, rest, {}, {})
  BY <1>1 DEF LineInv, InvsOK
<1>29. AcksOK(entry, answers1, state1, acks, st, by, rest, {}, {})
  <2>1. \A y \in Cache : Due(y, chain, inv, ack) = 0 /\ Due(y, rest, {}, {}) = 0
    BY <1>4, FS_EmptySet DEF Due
  <2>2. \A y \in Cache : answers1[y][Directory] = answers[y][Directory]
    BY <1>8, <1>9 DEF Machine
  <2> QED
    BY <1>1, <1>3, <1>7, <1>8, <1>9, <2>1, <2>2 DEF LineInv, AcksOK
<1>30. CopiesOK(entry, state1, st, rest, {})
  <2>1. \A y \in Cache : Holds(y, state, stage) => y = c
    BY <1>1, <1>4 DEF LineInv, CopiesOK, Settled
  <2>2. state[x] # "SM_AD"
    BY <1>3, <2>1 DEF Holds
  <2>3. \A y \in Cache : ~Holds(y, state1, st)
    BY <1>3, <1>7, <1>8, <2>1, <2>2 DEF Holds
  <2> QED
    BY <2>3 DEF CopiesOK
<1>31. SharersOK(entry, state1, st, rest)
  BY <1>1, <1>6, EntryTypes DEF LineInv, SharersOK, Settled
<1>32. LineInv(a, sent, arrived, queued, forwards1, answers1, home, entry, state1, acks,
              st, by, rest, {}, {})
  BY <1>1, <1>8, <1>12, <1>13, <1>14, <1>15, <1>16, <1>17, <1>18, <1>19,
     <1>20, <1>21, <1>22, <1>23, <1>24, <1>25, <1>26, <1>27, <1>28, <1>29,
     <1>30, <1>31 DEF LineInv
<1> QED
  BY <1>32 DEF LineHolds

(* A cache gives up its copy for a writer.                                 *)
LEMMA Invalidated ==
  ASSUME NEW a \in Addr, NEW sent \in SentType,
         NEW arrived \in SUBSET RequestMsg, NEW queued \in SUBSET MemoryMsg,
         NEW forwards \in ForwardsType(a),
         NEW answers \in AnswersType,
         NEW home \in HomeType, NEW entry \in Entry,
         NEW state \in StateType, NEW acks \in AcksType,
         LineHolds(a, sent, arrived, queued, forwards, answers, home, entry, state, acks),
         NEW c \in Cache, NEW m \in forwards[c], m.Type = "Inv",
         NEW r \in ResponseMsg, r.Type = "InvAck", r.Sender = c, NEW t,
         \/ state[c] = "S" /\ t = "I"
         \/ state[c] = "SM_AD" /\ t = "IM_AD"
         \/ state[c] = "SI_A" /\ t = "II_A",
         NEW forwards1 \in ForwardsType(a),
         ChangedAt(forwards, forwards1, c, forwards[c] \ {m}),
         NEW state1 \in StateType,
         ChangedAt(state, state1, c, t),
         NEW answers1 \in AnswersType,
         PairChangedAt(answers, answers1, m.Requestor, c, answers[m.Requestor][c] \cup {r})
  PROVE  LineHolds(a, sent, arrived, queued, forwards1, answers1, home, entry, state1, acks)
<1>1. PICK stage \in StageType, by \in ByType,
           chain \in Seq(Cache), inv \in SUBSET Cache, ack \in SUBSET Cache :
        LineInv(a, sent, arrived, queued, forwards, answers, home, entry, state, acks,
              stage, by, chain, inv, ack)
  BY DEF LineHolds
<1>2. PICK x \in Cache : x = m.Requestor /\ m = ForwardOf("Inv", a, x)
  BY ForwardTypes
<1>3. /\ c \in inv /\ c \notin ack /\ x = chain[1] /\ chain # <<>> /\ c # x
      /\ inv \cap ack = {}
  BY <1>1, <1>2 DEF LineInv, InvSentOK, InvsOK
<1>4. PICK ni \in SUBSET Cache, na \in SUBSET Cache :
        /\ \A y : y \in ni <=> y \in inv /\ y # c
        /\ \A y : y \in na <=> y \in ack \/ y = c
        /\ ni \cup na = inv \cup ack
  <2>1. /\ inv \ {c} \in SUBSET Cache /\ ack \cup {c} \in SUBSET Cache
        /\ (inv \ {c}) \cup (ack \cup {c}) = inv \cup ack
    BY <1>3
  <2> QED
    BY <2>1
<1>5. /\ forwards1[c] = forwards[c] \ {m} /\ \A y \in Cache : y # c => forwards1[y] = forwards[y]
      /\ state1[c] = t /\ \A y \in Cache : y # c => state1[y] = state[y]
      /\ answers1[x][c] = answers[x][c] \cup {r}
      /\ \A y \in Cache, z \in Machine :
           y # x \/ z # c => answers1[y][z] = answers[y][z]
  BY <1>2 DEF ChangedAt, PairChangedAt
<1>6. c # Directory /\ c \in Machine
  BY MSIConstants DEF MSIConstants, Machine
<1>7. /\ \A i \in 1..Len(chain) : chain[i] \in Cache
      /\ chain # <<>> => chain[1] \in Cache /\ LastOf(chain) \in Cache
  BY DEF LastOf
<1>8. \A y \in Cache : Reads(y, state1, stage) <=> Reads(y, state, stage)
  BY <1>5 DEF Reads
<1>9. \A y \in Cache : Due(y, chain, ni, na) = Due(y, chain, inv, ack)
  BY <1>4 DEF Due
<1>10. SentOK(sent, state1, stage)
  BY <1>1, <1>5 DEF LineInv, SentOK, Fits, PutStates
<1>11. ArrivedOK(arrived, state1, stage)
  BY <1>1, <1>5, MessageTypes DEF LineInv, ArrivedOK, Fits, PutStates
<1>12. QueuedOK(queued, stage)
  BY <1>1, <1>5, MessageTypes DEF LineInv, QueuedOK
<1>13. AskedOK(a, forwards1, state1, stage, by)
  BY <1>1, <1>2, <1>5, ForwardTypes DEF LineInv, AskedOK, ForwardOf, Fits
<1>14. AckedOK(a, forwards1, stage)
  BY <1>1, <1>2, <1>5 DEF LineInv, AckedOK, ForwardOf
<1>15. InvSentOK(a, forwards1, chain, ni)
  BY <1>1, <1>2, <1>3, <1>4, <1>5, ForwardTypes DEF LineInv, InvSentOK,
     ForwardOf
<1>16. ResponsesOK(answers1)
  <2>1. \A n \in answers[x][c] : n.Type # "InvAck"
    BY <1>1, <1>3, <1>6 DEF LineInv, InvAckSentOK
  <2> QED
    BY <1>1, <1>5, <1>6, <2>1 DEF LineInv, ResponsesOK
<1>17. DataSentOK(answers1, stage, by)
  BY <1>1, <1>5, <1>6, ByTypes DEF LineInv, DataSentOK
<1>18. InvAckSentOK(answers1, chain, na)
  <2>1. \A y \in Cache, s \in Machine : \A n \in answers1[y][s] :
          n \in answers[y][s] \/ (y = x /\ s = c)
    BY <1>5
  <2>2. \A y \in Cache, s \in Machine : \A n \in answers1[y][s] :
          n.Type = "InvAck" => s \in na /\ chain # <<>> /\ y = chain[1]
    BY <1>1, <1>3, <1>4, <2>1 DEF LineInv, InvAckSentOK
  <2>3. \A s \in ack : s \in Machine /\ s # c
    BY <1>3 DEF Machine
  <2>4. \A s \in ack : \E n \in answers1[x][s] : n.Type = "InvAck"
    BY <1>1, <1>3, <1>5, <2>3 DEF LineInv, InvAckSentOK
  <2>5. \E n \in answers1[x][c] : n.Type = "InvAck"
    BY <1>5
  <2> QED
    BY <1>3, <1>4, <2>2, <2>4, <2>5 DEF InvAckSentOK
<1>19. HomeOK(home, entry, chain)
  BY <1>1, <1>5 DEF LineInv, HomeOK
<1>20. StageOK(state1, stage)
  BY <1>1, <1>5 DEF LineInv, StageOK, PutStates, GetStates
<1>21. OwnersOK(state1, stage, by, chain)
  BY <1>1, <1>3, <1>5 DEF LineInv, OwnersOK, Owning
<1>22. EntryOK(entry, stage, chain)
  BY <1>1, <1>3, <1>5, <1>7 DEF LineInv, EntryOK
<1>23. MemoryOK(entry, state1, stage)
  BY <1>1, <1>5 DEF LineInv, MemoryOK
<1>24. ReaderOK(entry, state1, stage, by, chain)
  BY <1>1, <1>3, <1>5, <1>7, <1>8, EntryTypes DEF LineInv, ReaderOK
<1>25. InvsOK(state1, stage, chain, ni, na)
  BY <1>1, <1>3, <1>4, <1>5 DEF LineInv, InvsOK, Stalled
<1>26. AcksOK(entry, answers1, state1, acks, stage, by, chain, ni, na)
  BY <1>1, <1>3, <1>4, <1>5, <1>6, <1>9, AcksTypes, ByTypes DEF LineInv, AcksOK
<1>27. CopiesOK(entry, state1, stage, chain, ni)
  BY <1>1, <1>3, <1>4, <1>5 DEF LineInv, CopiesOK, Holds
<1>28. SharersOK(entry, state1, stage, chain)
  BY <1>1, <1>3, <1>5, EntryTypes DEF LineInv, SharersOK, Settled
<1>29. LineInv(a, sent, arrived, queued, forwards1, answers1, home, entry, state1, acks,
              stage, by, chain, ni, na)
  BY <1>1, <1>5, <1>10, <1>11, <1>12, <1>13, <1>14, <1>15, <1>16, <1>17,
     <1>18, <1>19, <1>20, <1>21, <1>22, <1>23, <1>24, <1>25, <1>26, <1>27,
     <1>28 DEF LineInv
<1> QED
  BY <1>29 DEF LineHolds

(* The directory has acknowledged a put.                                   *)
LEMMA PutAcked ==
  ASSUME NEW a \in Addr, NEW sent \in SentType,
         NEW arrived \in SUBSET RequestMsg, NEW queued \in SUBSET MemoryMsg,
         NEW forwards \in ForwardsType(a),
         NEW answers \in AnswersType,
         NEW home \in HomeType, NEW entry \in Entry,
         NEW state \in StateType, NEW acks \in AcksType,
         LineHolds(a, sent, arrived, queued, forwards, answers, home, entry, state, acks),
         NEW c \in Cache, NEW m, m.Type = "PutAck", forwards[c] = {m},
         state[c] \in PutStates,
         NEW forwards1 \in ForwardsType(a),
         ChangedAt(forwards, forwards1, c, {}),
         NEW state1 \in StateType,
         ChangedAt(state, state1, c, "I")
  PROVE  LineHolds(a, sent, arrived, queued, forwards1, answers, home, entry, state1, acks)
<1>1. PICK stage \in StageType, by \in ByType,
           chain \in Seq(Cache), inv \in SUBSET Cache, ack \in SUBSET Cache :
        LineInv(a, sent, arrived, queued, forwards, answers, home, entry, state, acks,
              stage, by, chain, inv, ack)
  BY DEF LineHolds
<1>2. stage[c] = "acked" /\ state[c] \in {"MI_A", "SI_A", "II_A"}
  BY <1>1 DEF LineInv, AckedOK, PutStates
<1>3. PICK st \in StageType : /\ st[c] = "none"
                             /\ \A y \in Cache : y # c => st[y] = stage[y]
  <2>1. [stage EXCEPT ![c] = "none"] \in StageType
    BY DEF StageType, Stage
  <2> QED
    BY <2>1 DEF StageType
<1>4. /\ forwards1[c] = {} /\ \A y \in Cache : y # c => forwards1[y] = forwards[y]
      /\ state1[c] = "I" /\ \A y \in Cache : y # c => state1[y] = state[y]
  BY DEF ChangedAt
<1>5. /\ ~Asked(c, stage, by) /\ ~InChain(c, chain) /\ c \notin inv
      /\ \A i \in 1..Len(chain) : chain[i] # c
  <2>1. ~Asked(c, stage, by)
    <3>1. \A type, r : ForwardOf(type, a, r).Type = type
      BY DEF ForwardOf
    <3>2. \A x \in Cache : stage[x] = "forwarded" /\ by[x] = c =>
            \E n \in forwards[c] : n.Type # "PutAck"
      BY <1>1, <3>1 DEF LineInv, AskedOK
    <3> QED
      BY <3>2 DEF Asked
  <2>2. ~InChain(c, chain)
    BY <1>1, <1>2, <2>1 DEF LineInv, OwnersOK, Owning
  <2>3. c \notin inv
    BY <1>1 DEF LineInv, InvSentOK, ForwardOf
  <2> QED
    BY <2>1, <2>2, <2>3 DEF InChain
<1>6. /\ \A y \in Cache : Asked(y, st, by) <=> Asked(y, stage, by)
      /\ \A y \in Cache : Reads(y, state1, st) <=> Reads(y, state, stage)
  BY <1>2, <1>3, <1>4 DEF Asked, Reads
<1>7. /\ \A i \in 1..Len(chain) : chain[i] \in Cache
      /\ chain # <<>> => chain[1] \in Cache /\ LastOf(chain) \in Cache
  BY DEF LastOf
<1>8. SentOK(sent, state1, st)
  BY <1>1, <1>2, <1>3, <1>4 DEF LineInv, SentOK
<1>9. ArrivedOK(arrived, state1, st)
  BY <1>1, <1>2, <1>3, <1>4, MessageTypes DEF LineInv, ArrivedOK
<1>10. QueuedOK(queued, st)
  BY <1>1, <1>2, <1>3, <1>4, MessageTypes DEF LineInv, QueuedOK
<1>11. AskedOK(a, forwards1, state1, st, by)
  BY <1>1, <1>2, <1>3, <1>4, <1>5, ForwardTypes DEF LineInv, AskedOK, Asked
<1>12. AckedOK(a, forwards1, st)
  BY <1>1, <1>2, <1>3, <1>4 DEF LineInv, AckedOK
<1>13. InvSentOK(a, forwards1, chain, inv)
  BY <1>1, <1>2, <1>4, <1>5 DEF LineInv, InvSentOK
<1>14. DataSentOK(answers, st, by)
  BY <1>1, <1>2, <1>3, <1>4, ByTypes DEF LineInv, DataSentOK
<1>15. StageOK(state1, st)
  BY <1>1, <1>2, <1>3, <1>4 DEF LineInv, StageOK, PutStates, GetStates
<1>16. OwnersOK(state1, st, by, chain)
  BY <1>1, <1>2, <1>3, <1>4, <1>5, <1>6 DEF LineInv, OwnersOK, Owning
<1>17. LinksOK(st, by, chain)
  BY <1>1, <1>2, <1>3, <1>5, <1>7 DEF LineInv, LinksOK
<1>18. EntryOK(entry, st, chain)
  <2>1. Len(chain) = 1 => 1 \in 1..Len(chain)
    OBVIOUS
  <2> QED
    BY <1>1, <1>3, <1>4, <1>5, <1>7, <2>1 DEF LineInv, EntryOK
<1>19. MemoryOK(entry, state1, st)
  BY <1>1, <1>2, <1>3, <1>4 DEF LineInv, MemoryOK
<1>20. ReaderOK(entry, state1, st, by, chain)
  <2>1. chain # <<>> => LastOf(chain) # c
    BY <1>5 DEF LastOf
  <2> QED
    BY <1>1, <1>2, <1>3, <1>4, <1>5, <1>6, <1>7, <2>1, EntryTypes DEF LineInv, ReaderOK
<1>21. InvsOK(state1, st, chain, inv, ack)
  <2>1. chain # <<>> => chain[1] # c
    BY <1>5
  <2> QED
    BY <1>1, <1>2, <1>3, <1>4, <1>5, <1>7, <2>1 DEF LineInv, InvsOK
<1>22. AcksOK(entry, answers, state1, acks, st, by, chain, inv, ack)
  BY <1>1, <1>2, <1>3, <1>4, AcksTypes, ByTypes DEF LineInv, AcksOK
<1>23. CopiesOK(entry, state1, st, chain, inv)
  BY <1>1, <1>2, <1>3, <1>4 DEF LineInv, CopiesOK, Holds
<1>24. SharersOK(entry, state1, st, chain)
  BY <1>1, <1>2, <1>3, <1>4, EntryTypes DEF LineInv, SharersOK, Settled
<1>25. LineInv(a, sent, arrived, queued, forwards1, answers, home, entry, state1, acks,
              st, by, chain, inv, ack)
  BY <1>1, <1>4, <1>8, <1>9, <1>10, <1>11, <1>12, <1>13, <1>14, <1>15, <1>16,
     <1>17, <1>18, <1>19, <1>20, <1>21, <1>22, <1>23, <1>24 DEF LineInv
<1> QED
  BY <1>25 DEF LineHolds

(* A reader receives its data.                                             *)
LEMMA ReadCompletes ==
  ASSUME NEW a \in Addr, NEW sent \in SentType,
         NEW arrived \in SUBSET RequestMsg, NEW queued \in SUBSET MemoryMsg,
         NEW forwards \in ForwardsType(a),
         NEW answers \in AnswersType,
         NEW home \in HomeType, NEW entry \in Entry,
         NEW state \in StateType, NEW acks \in AcksType,
         LineHolds(a, sent, arrived, queued, forwards, answers, home, entry, state, acks),
         NEW c \in Cache, NEW s \in Machine, NEW m \in answers[c][s], m.Type = "Data",
         state[c] = "IS_D",
         NEW answers1 \in AnswersType,
         PairChangedAt(answers, answers1, c, s, answers[c][s] \ {m}),
         NEW state1 \in StateType,
         ChangedAt(state, state1, c, "S"),
         NEW acks1 \in AcksType,
         ChangedAt(acks, acks1, c, 0)
  PROVE  LineHolds(a, sent, arrived, queued, forwards, answers1, home, entry, state1, acks1)
<1>1. PICK stage \in StageType, by \in ByType,
           chain \in Seq(Cache), inv \in SUBSET Cache, ack \in SUBSET Cache :
        LineInv(a, sent, arrived, queued, forwards, answers, home, entry, state, acks,
              stage, by, chain, inv, ack)
  BY DEF LineHolds
<1>2. stage[c] = "answered" /\ by[c] = s
  BY <1>1, ByTypes DEF LineInv, DataSentOK
<1>3. PICK st \in StageType : /\ st[c] = "none"
                             /\ \A y \in Cache : y # c => st[y] = stage[y]
  <2>1. [stage EXCEPT ![c] = "none"] \in StageType
    BY DEF StageType, Stage
  <2> QED
    BY <2>1 DEF StageType
<1>4. /\ state1[c] = "S" /\ \A y \in Cache : y # c => state1[y] = state[y]
      /\ acks1[c] = 0 /\ \A y \in Cache : y # c => acks1[y] = acks[y]
      /\ answers1[c][s] = answers[c][s] \ {m}
      /\ \A y \in Cache, z \in Machine :
           y # c \/ z # s => answers1[y][z] = answers[y][z]
  BY DEF ChangedAt, PairChangedAt
<1>5. /\ ~InChain(c, chain) /\ \A i \in 1..Len(chain) : chain[i] # c
      /\ chain # <<>> => chain[1] # c /\ LastOf(chain) # c
  <2>1. ~InChain(c, chain)
    BY <1>1 DEF LineInv, OwnersOK, Owning
  <2>2. \A i \in 1..Len(chain) : chain[i] # c
    BY <2>1 DEF InChain
  <2> QED
    BY <2>1, <2>2 DEF LastOf
<1>6. /\ \A y \in Cache : Asked(y, st, by) <=> Asked(y, stage, by)
      /\ \A y \in Cache : Reads(y, state1, st) <=> Reads(y, state, stage)
  BY <1>2, <1>3, <1>4 DEF Asked, Reads
<1>7. /\ \A i \in 1..Len(chain) : chain[i] \in Cache
      /\ chain # <<>> => chain[1] \in Cache /\ LastOf(chain) \in Cache
  BY DEF LastOf
<1>8. SentOK(sent, state1, st)
  BY <1>1, <1>2, <1>3, <1>4 DEF LineInv, SentOK
<1>9. ArrivedOK(arrived, state1, st)
  BY <1>1, <1>2, <1>3, <1>4, MessageTypes DEF LineInv, ArrivedOK
<1>10. QueuedOK(queued, st)
  BY <1>1, <1>2, <1>3, <1>4, MessageTypes DEF LineInv, QueuedOK
<1>11. AskedOK(a, forwards, state1, st, by)
  BY <1>1, <1>2, <1>3, <1>4, ForwardTypes DEF LineInv, AskedOK
<1>12. AckedOK(a, forwards, st)
  BY <1>1, <1>2, <1>3, <1>4 DEF LineInv, AckedOK
<1>13. ResponsesOK(answers1)
  BY <1>1, <1>4 DEF LineInv, ResponsesOK
<1>14. DataSentOK(answers1, st, by)
  <2>1. \A z \in Machine : \A n \in answers1[c][z] : n.Type # "Data"
    BY <1>1, <1>2, <1>4 DEF LineInv, DataSentOK, ResponsesOK
  <2> QED
    BY <1>1, <1>2, <1>3, <1>4, <2>1, ByTypes DEF LineInv, DataSentOK
<1>15. InvAckSentOK(answers1, chain, ack)
  <2>1. \A y \in Cache, z \in Machine : \A n \in answers1[y][z] : n \in answers[y][z]
    BY <1>4
  <2>2. \A z \in ack : chain # <<>> /\ chain[1] \in Cache /\ chain[1] # c /\ z \in Machine
    BY <1>1, <1>5, <1>7 DEF LineInv, InvsOK, Machine
  <2> QED
    BY <1>1, <1>4, <2>1, <2>2 DEF LineInv, InvAckSentOK
<1>16. StageOK(state1, st)
  BY <1>1, <1>2, <1>3, <1>4 DEF LineInv, StageOK, PutStates, GetStates
<1>17. OwnersOK(state1, st, by, chain)
  BY <1>1, <1>2, <1>3, <1>4, <1>6 DEF LineInv, OwnersOK, Owning
<1>18. LinksOK(st, by, chain)
  BY <1>1, <1>2, <1>3, <1>5, <1>7 DEF LineInv, LinksOK
<1>19. EntryOK(entry, st, chain)
  <2>1. Len(chain) = 1 => 1 \in 1..Len(chain)
    OBVIOUS
  <2> QED
    BY <1>1, <1>3, <1>4, <1>5, <1>7, <2>1 DEF LineInv, EntryOK
<1>20. MemoryOK(entry, state1, st)
  BY <1>1, <1>2, <1>3, <1>4 DEF LineInv, MemoryOK
<1>21. ReaderOK(entry, state1, st, by, chain)
  BY <1>1, <1>2, <1>3, <1>4, <1>5, <1>6, <1>7, EntryTypes DEF LineInv,
     ReaderOK
<1>22. InvsOK(state1, st, chain, inv, ack)
  BY <1>1, <1>2, <1>3, <1>4, <1>5, <1>7 DEF LineInv, InvsOK
<1>23. AcksOK(entry, answers1, state1, acks1, st, by, chain, inv, ack)
  <2>1. Due(c, chain, inv, ack) = 0
    BY <1>5 DEF Due
  <2> QED
    BY <1>1, <1>2, <1>3, <1>4, <2>1, AcksTypes, ByTypes DEF LineInv, AcksOK
<1>24. CopiesOK(entry, state1, st, chain, inv)
  BY <1>1, <1>2, <1>3, <1>4 DEF LineInv, CopiesOK, Holds
<1>25. SharersOK(entry, state1, st, chain)
  BY <1>1, <1>2, <1>3, <1>4, EntryTypes DEF LineInv, SharersOK, Settled
<1>26. LineInv(a, sent, arrived, queued, forwards, answers1, home, entry, state1, acks1,
              st, by, chain, inv, ack)
  BY <1>1, <1>4, <1>8, <1>9, <1>10, <1>11, <1>12, <1>13, <1>14, <1>15, <1>16,
     <1>17, <1>18, <1>19, <1>20, <1>21, <1>22, <1>23, <1>24, <1>25 DEF
     LineInv
<1> QED
  BY <1>26 DEF LineHolds

(* A writer receives the data, from an owner or with the count of the acks that *)
(* it has still to wait for.                                               *)
LEMMA DataTaken ==
  ASSUME NEW a \in Addr, NEW sent \in SentType,
         NEW arrived \in SUBSET RequestMsg, NEW queued \in SUBSET MemoryMsg,
         NEW forwards \in ForwardsType(a),
         NEW answers \in AnswersType,
         NEW home \in HomeType, NEW entry \in Entry,
         NEW state \in StateType, NEW acks \in AcksType,
         LineHolds(a, sent, arrived, queued, forwards, answers, home, entry, state, acks),
         NEW c \in Cache, NEW s \in Machine, NEW m \in answers[c][s], m.Type = "Data",
         state[c] \in {"IM_AD", "SM_AD"}, m.Acks \in Int, NEW t, NEW n \in Int,
         \/ t = "M" /\ n = 0 /\ (s = Directory => m.Acks + acks[c] = 0)
         \/ t \in {"IM_A", "SM_A"} /\ s = Directory /\ n = m.Acks + acks[c],
         NEW answers1 \in AnswersType,
         PairChangedAt(answers, answers1, c, s, answers[c][s] \ {m}),
         NEW state1 \in StateType,
         ChangedAt(state, state1, c, t),
         NEW acks1 \in AcksType,
         ChangedAt(acks, acks1, c, n)
  PROVE  LineHolds(a, sent, arrived, queued, forwards, answers1, home, entry, state1, acks1)
<1>1. PICK stage \in StageType, by \in ByType,
           chain \in Seq(Cache), inv \in SUBSET Cache, ack \in SUBSET Cache :
        LineInv(a, sent, arrived, queued, forwards, answers, home, entry, state, acks,
              stage, by, chain, inv, ack)
  BY DEF LineHolds
<1>2. stage[c] = "answered" /\ by[c] = s /\ Owning(c, state, stage, by)
  BY <1>1 DEF LineInv, DataSentOK, Owning
<1>3. /\ chain # <<>> /\ chain[1] = c /\ InChain(c, chain)
      /\ acks[c] \in Int /\ acks[c] <= 0 /\ Due(c, chain, inv, ack) = Cardinality(inv \cup ack)
      /\ IF s = Directory THEN acks[c] + m.Acks = Cardinality(inv \cup ack)
                          ELSE acks[c] = Cardinality(inv \cup ack)
  <2>1. chain # <<>> /\ chain[1] = c /\ InChain(c, chain)
    BY <1>1, <1>2, FirstOfChain DEF LineInv
  <2>2. Due(c, chain, inv, ack) = Cardinality(inv \cup ack)
    BY <2>1 DEF Due
  <2>3. acks[c] \in Int
    BY AcksTypes
  <2> QED
    BY <1>1, <1>2, <2>1, <2>2, <2>3, AcksTypes, ByTypes DEF LineInv, AcksOK
<1>4. PICK st \in StageType : /\ st[c] = "none"
                             /\ \A y \in Cache : y # c => st[y] = stage[y]
  <2>1. [stage EXCEPT ![c] = "none"] \in StageType
    BY DEF StageType, Stage
  <2> QED
    BY <2>1 DEF StageType
<1>5. /\ state1[c] = t /\ \A y \in Cache : y # c => state1[y] = state[y]
      /\ acks1[c] = n /\ \A y \in Cache : y # c => acks1[y] = acks[y]
      /\ answers1[c][s] = answers[c][s] \ {m}
      /\ \A y \in Cache, z \in Machine :
           y # c \/ z # s => answers1[y][z] = answers[y][z]
  BY DEF ChangedAt, PairChangedAt
<1>6. /\ Cardinality(inv \cup ack) \in Nat
      /\ Cardinality(inv \cup ack) = 0 => inv = {} /\ ack = {}
      /\ IsFiniteSet(inv \cup ack)
      /\ n = Cardinality(inv \cup ack)
      /\ t = "M" => inv = {} /\ ack = {}
  <2>1. IsFiniteSet(inv \cup ack)
    BY MSIConstants, FS_Subset DEF MSIConstants
  <2>2. Cardinality(inv \cup ack) = 0 => inv \cup ack = {}
    BY <2>1, FS_EmptySet
  <2>3. Cardinality(inv \cup ack) \in Nat
    BY <2>1, FS_CardinalityType
  <2>4. n = Cardinality(inv \cup ack) /\ (t = "M" => Cardinality(inv \cup ack) = 0)
    BY <1>3, <2>3
  <2> QED
    BY <2>1, <2>2, <2>3, <2>4
<1>7. /\ \A y \in Cache : Asked(y, st, by) <=> Asked(y, stage, by)
      /\ \A y \in Cache : Reads(y, state1, st) <=> Reads(y, state, stage)
  BY <1>2, <1>4, <1>5 DEF Asked, Reads
<1>8. /\ \A i \in 1..Len(chain) : chain[i] \in Cache
      /\ chain # <<>> => chain[1] \in Cache /\ LastOf(chain) \in Cache
  BY DEF LastOf
<1>9. SentOK(sent, state1, st)
  BY <1>1, <1>2, <1>4, <1>5 DEF LineInv, SentOK
<1>10. ArrivedOK(arrived, state1, st)
  BY <1>1, <1>2, <1>4, <1>5, MessageTypes DEF LineInv, ArrivedOK
<1>11. QueuedOK(queued, st)
  BY <1>1, <1>2, <1>4, <1>5, MessageTypes DEF LineInv, QueuedOK
<1>12. AskedOK(a, forwards, state1, st, by)
  BY <1>1, <1>2, <1>4, <1>5, ForwardTypes DEF LineInv, AskedOK
<1>13. AckedOK(a, forwards, st)
  BY <1>1, <1>2, <1>4, <1>5 DEF LineInv, AckedOK
<1>14. ResponsesOK(answers1)
  BY <1>1, <1>5 DEF LineInv, ResponsesOK
<1>15. DataSentOK(answers1, st, by)
  <2>1. \A z \in Machine : \A k \in answers1[c][z] : k.Type # "Data"
    BY <1>1, <1>2, <1>5 DEF LineInv, DataSentOK, ResponsesOK
  <2> QED
    BY <1>1, <1>2, <1>4, <1>5, <2>1, ByTypes DEF LineInv, DataSentOK
<1>16. InvAckSentOK(answers1, chain, ack)
  <2>1. \A y \in Cache, z \in Machine : \A k \in answers1[y][z] : k \in answers[y][z]
    BY <1>5
  <2>2. \A z \in ack : chain # <<>> /\ chain[1] \in Cache /\ z \in Machine
    BY <1>3, <1>8 DEF Machine
  <2>3. \A z \in Machine : \A k \in answers[c][z] : k.Type # "Data" => k \in answers1[c][z]
    BY <1>5
  <2>4. \A z \in ack : \E k \in answers[c][z] : k.Type = "InvAck"
    BY <1>1, <1>3 DEF LineInv, InvAckSentOK
  <2>5. \A z \in ack : \E k \in answers1[c][z] : k.Type = "InvAck"
    BY <2>2, <2>3, <2>4
  <2> QED
    BY <1>1, <1>3, <2>1, <2>5 DEF LineInv, InvAckSentOK
<1>17. StageOK(state1, st)
  BY <1>1, <1>2, <1>4, <1>5 DEF LineInv, StageOK, PutStates, GetStates
<1>18. OwnersOK(state1, st, by, chain)
  BY <1>1, <1>2, <1>3, <1>4, <1>5, <1>7 DEF LineInv, OwnersOK, Owning
<1>19. LinksOK(st, by, chain)
  BY <1>1, <1>2, <1>3, <1>4, <1>8 DEF LineInv, LinksOK
<1>20. EntryOK(entry, st, chain)
  <2>1. entry.DirState # "M_m"
    BY <1>1, <1>2, <1>3 DEF LineInv, EntryOK
  <2> QED
    BY <1>1, <1>5, <2>1 DEF LineInv, EntryOK
<1>21. MemoryOK(entry, state1, st)
  BY <1>1, <1>2, <1>4, <1>5 DEF LineInv, MemoryOK
<1>22. ReaderOK(entry, state1, st, by, chain)
  BY <1>1, <1>2, <1>3, <1>4, <1>5, <1>7, <1>8, EntryTypes DEF LineInv,
     ReaderOK
<1>23. InvsOK(state1, st, chain, inv, ack)
  BY <1>1, <1>2, <1>3, <1>4, <1>5, <1>6, <1>8 DEF LineInv, InvsOK, Stalled
<1>24. AcksOK(entry, answers1, state1, acks1, st, by, chain, inv, ack)
  <2>1. \A y \in Cache : y # c => (AcksFor(entry, y) = AcksFor(entry, y))
    BY <1>5
  <2> QED
    BY <1>1, <1>3, <1>4, <1>5, <1>6, AcksTypes, ByTypes DEF LineInv, AcksOK
<1>25. CopiesOK(entry, state1, st, chain, inv)
  BY <1>1, <1>2, <1>3, <1>4, <1>5 DEF LineInv, CopiesOK, Holds
<1>26. SharersOK(entry, state1, st, chain)
  BY <1>1, <1>3 DEF LineInv, SharersOK, Settled
<1>27. LineInv(a, sent, arrived, queued, forwards, answers1, home, entry, state1, acks1,
              st, by, chain, inv, ack)
  BY <1>1, <1>5, <1>9, <1>10, <1>11, <1>12, <1>13, <1>14, <1>15, <1>16,
     <1>17, <1>18, <1>19, <1>20, <1>21, <1>22, <1>23, <1>24, <1>25, <1>26 DEF
     LineInv
<1> QED
  BY <1>27 DEF LineHolds

(* A writer counts an InvAck; after the last it has the line for itself.   *)
LEMMA AckTaken ==
  ASSUME NEW a \in Addr, NEW sent \in SentType,
         NEW arrived \in SUBSET RequestMsg, NEW queued \in SUBSET MemoryMsg,
         NEW forwards \in ForwardsType(a),
         NEW answers \in AnswersType,
         NEW home \in HomeType, NEW entry \in Entry,
         NEW state \in StateType, NEW acks \in AcksType,
         LineHolds(a, sent, arrived, queued, forwards, answers, home, entry, state, acks),
         NEW c \in Cache, NEW s \in Machine, NEW m \in answers[c][s], m.Type = "InvAck",
         state[c] \in Stalled, NEW t, NEW n \in Int,
         \/ t = state[c] /\ n = acks[c] - 1
         \/ t = "M" /\ n = 0 /\ acks[c] = 1 /\ state[c] \in {"IM_A", "SM_A"},
         NEW answers1 \in AnswersType,
         PairChangedAt(answers, answers1, c, s, answers[c][s] \ {m}),
         NEW state1 \in StateType,
         ChangedAt(state, state1, c, t),
         NEW acks1 \in AcksType,
         ChangedAt(acks, acks1, c, n)
  PROVE  LineHolds(a, sent, arrived, queued, forwards, answers1, home, entry, state1, acks1)
<1>1. PICK stage \in StageType, by \in ByType,
           chain \in Seq(Cache), inv \in SUBSET Cache, ack \in SUBSET Cache :
        LineInv(a, sent, arrived, queued, forwards, answers, home, entry, state, acks,
              stage, by, chain, inv, ack)
  BY DEF LineHolds
<1>2. /\ s \in ack /\ s \notin inv /\ chain # <<>> /\ c = chain[1] /\ s # Directory
      /\ inv \cap ack = {}
  <2>1. s \in ack /\ chain # <<>> /\ c = chain[1]
    BY <1>1 DEF LineInv, InvAckSentOK
  <2> QED
    BY <1>1, <2>1, MSIConstants DEF LineInv, InvsOK, MSIConstants
<1>3. PICK na \in SUBSET Cache :
        /\ \A y : y \in na <=> y \in ack /\ y # s
        /\ inv \cup na = (inv \cup ack) \ {s}
  <2>1. ack \ {s} \in SUBSET Cache /\ inv \cup (ack \ {s}) = (inv \cup ack) \ {s}
    BY <1>2
  <2> QED
    BY <2>1
<1>4. /\ state1[c] = t /\ \A y \in Cache : y # c => state1[y] = state[y]
      /\ acks1[c] = n /\ \A y \in Cache : y # c => acks1[y] = acks[y]
      /\ answers1[c][s] = answers[c][s] \ {m}
      /\ \A y \in Cache, z \in Machine :
           y # c \/ z # s => answers1[y][z] = answers[y][z]
  BY DEF ChangedAt, PairChangedAt
<1>5. /\ Cardinality(inv \cup ack) \in Nat \ {0} /\ acks[c] \in Int
      /\ Cardinality(inv \cup na) = Cardinality(inv \cup ack) - 1
      /\ t = "M" /\ t # state[c] => inv = {} /\ na = {} /\ Cardinality(inv \cup na) = 0
  <2>1. IsFiniteSet(inv \cup ack) /\ s \in inv \cup ack
    BY <1>2, MSIConstants, FS_Subset DEF MSIConstants
  <2>2. /\ IsFiniteSet((inv \cup ack) \ {s})
        /\ Cardinality((inv \cup ack) \ {s}) = Cardinality(inv \cup ack) - 1
    <3>1. \A S : IsFiniteSet(S) /\ s \in S =>
                   IsFiniteSet(S \ {s}) /\ Cardinality(S \ {s}) = Cardinality(S) - 1
      BY FS_RemoveElement
    <3> QED
      BY <2>1, <3>1, Zenon
  <2>3. Cardinality(inv \cup ack) \in Nat /\ Cardinality(inv \cup ack) # 0
    BY <2>1, FS_CardinalityType, FS_EmptySet
  <2>4. Cardinality(inv \cup na) = 0 => inv \cup na = {}
    BY <1>3, <2>2, FS_EmptySet
  <2>5. Cardinality(inv \cup na) = Cardinality(inv \cup ack) - 1
    BY <1>3, <2>2
  <2>6. acks[c] \in Int
    BY AcksTypes
  <2>7. Due(c, chain, inv, ack) = Cardinality(inv \cup ack)
    BY <1>2 DEF Due
  <2>8. t # state[c] => acks[c] = Cardinality(inv \cup ack)
    BY <1>1, <2>7 DEF LineInv, AcksOK, StageOK
  <2> QED
    BY <2>3, <2>4, <2>5, <2>6, <2>8
<1>6. \A y \in Cache : Reads(y, state1, stage) <=> Reads(y, state, stage)
  BY <1>4 DEF Reads, Stalled
<1>7. SentOK(sent, state1, stage)
  BY <1>1, <1>4 DEF LineInv, SentOK, Fits, Stalled, StageOK
<1>8. ArrivedOK(arrived, state1, stage)
  BY <1>1, <1>4, MessageTypes DEF LineInv, ArrivedOK, Fits, Stalled, StageOK
<1>9. AskedOK(a, forwards, state1, stage, by)
  BY <1>1, <1>4, ForwardTypes DEF LineInv, AskedOK, Fits, Stalled
<1>10. ResponsesOK(answers1)
  BY <1>1, <1>4 DEF LineInv, ResponsesOK
<1>11. DataSentOK(answers1, stage, by)
  BY <1>1, <1>4, ByTypes DEF LineInv, DataSentOK
<1>12. InvAckSentOK(answers1, chain, na)
  <2>1. \A y \in Cache, z \in Machine : \A k \in answers1[y][z] : k \in answers[y][z]
    BY <1>4
  <2>2. \A k \in answers1[c][s] : k.Type # "InvAck"
    BY <1>1, <1>4 DEF LineInv, ResponsesOK
  <2>3. \A y \in Cache, z \in Machine : \A k \in answers1[y][z] :
          k.Type = "InvAck" => z \in na /\ chain # <<>> /\ y = chain[1]
    BY <1>1, <1>2, <1>3, <2>1, <2>2 DEF LineInv, InvAckSentOK
  <2>4. \A z \in na : answers1[c][z] = answers[c][z]
    BY <1>3, <1>4 DEF Machine
  <2> QED
    BY <1>1, <1>2, <1>3, <2>3, <2>4 DEF LineInv, InvAckSentOK
<1>13. StageOK(state1, stage)
  BY <1>1, <1>4 DEF LineInv, StageOK, PutStates, GetStates, Stalled
<1>14. OwnersOK(state1, stage, by, chain)
  BY <1>1, <1>4 DEF LineInv, OwnersOK, Owning, Stalled
<1>15. EntryOK(entry, stage, chain)
  BY <1>1, <1>2, <1>4 DEF LineInv, EntryOK
<1>16. MemoryOK(entry, state1, stage)
  BY <1>1, <1>4 DEF LineInv, MemoryOK, Stalled
<1>17. ReaderOK(entry, state1, stage, by, chain)
  BY <1>1, <1>4, <1>6, EntryTypes DEF LineInv, ReaderOK
<1>18. InvsOK(state1, stage, chain, inv, na)
  BY <1>1, <1>2, <1>3, <1>4, <1>5 DEF LineInv, InvsOK, Stalled
<1>19. AcksOK(entry, answers1, state1, acks1, stage, by, chain, inv, na)
  <2>1. \A y \in Cache : y # c => Due(y, chain, inv, na) = Due(y, chain, inv, ack)
    BY <1>2 DEF Due
  <2>2. /\ Due(c, chain, inv, na) = Cardinality(inv \cup na)
        /\ Due(c, chain, inv, ack) = Cardinality(inv \cup ack)
    BY <1>2 DEF Due
  <2>3. \A y \in Cache : answers1[y][Directory] = answers[y][Directory]
    BY <1>2, <1>4 DEF Machine
  <2>4. \A k \in answers[c][Directory] : k.Acks \in Int
    BY DEF AnswersType, Machine, ResponseMsg
  <2>5. AcksFor(entry, c) \in Int
    BY EntryTypes, FS_CardinalityType DEF AcksFor, count
  <2>6. /\ n = acks[c] - 1
        /\ stage[c] = "memory" => acks[c] + AcksFor(entry, c) = Due(c, chain, inv, ack)
        /\ stage[c] = "answered" /\ by[c] = Directory =>
             \A k \in answers[c][Directory] : acks[c] + k.Acks = Due(c, chain, inv, ack)
        /\ \/ stage[c] = "memory"
           \/ stage[c] = "answered" /\ by[c] = Directory
           \/ acks[c] = Due(c, chain, inv, ack)
        /\ state[c] \in {"IM_AD", "SM_AD"} => acks[c] <= 0
    BY <1>1, AcksTypes, ByTypes DEF LineInv, AcksOK
  <2>7. Due(c, chain, inv, na) = Due(c, chain, inv, ack) - 1
        /\ Due(c, chain, inv, ack) \in Int
    BY <1>5, <2>2
  <2>8. stage[c] = "memory" => n + AcksFor(entry, c) = Due(c, chain, inv, na)
    BY <1>5, <2>5, <2>6, <2>7
  <2>9. stage[c] = "answered" /\ by[c] = Directory =>
          \A k \in answers[c][Directory] : n + k.Acks = Due(c, chain, inv, na)
    BY <1>5, <2>4, <2>6, <2>7
  <2>10. /\ \/ stage[c] = "memory"
            \/ stage[c] = "answered" /\ by[c] = Directory
            \/ n = Due(c, chain, inv, na)
         /\ t \in {"IM_AD", "SM_AD"} => n <= 0
    BY <1>5, <2>6, <2>7
  <2> QED
    BY <1>1, <1>4, <2>1, <2>3, <2>8, <2>9, <2>10, AcksTypes, ByTypes DEF LineInv, AcksOK
<1>20. CopiesOK(entry, state1, stage, chain, inv)
  BY <1>1, <1>4 DEF LineInv, CopiesOK, Holds, Stalled
<1>21. SharersOK(entry, state1, stage, chain)
  BY <1>1, <1>2 DEF LineInv, SharersOK, Settled
<1>22. LineInv(a, sent, arrived, queued, forwards, answers1, home, entry, state1, acks1,
              stage, by, chain, inv, na)
  BY <1>1, <1>4, <1>7, <1>8, <1>9, <1>10, <1>11, <1>12, <1>13, <1>14, <1>15,
     <1>16, <1>17, <1>18, <1>19, <1>20, <1>21 DEF LineInv
<1> QED
  BY <1>22 DEF LineHolds

-----------------------------------------------------------------------------
(* Steps of the directory.                                                 *)

(* The directory asks memory for a reader's data.                          *)
LEMMA ReadFromMemory ==
  ASSUME NEW a \in Addr, NEW sent \in SentType,
         NEW arrived \in SUBSET RequestMsg, NEW queued \in SUBSET MemoryMsg,
         NEW forwards \in ForwardsType(a),
         NEW answers \in AnswersType,
         NEW home \in HomeType, NEW entry \in Entry,
         NEW state \in StateType, NEW acks \in AcksType,
         LineHolds(a, sent, arrived, queued, forwards, answers, home, entry, state, acks),
         EntryConsistent(entry), MemoryConsistent(entry, queued),
         NEW m \in arrived, m.Type = "GetS", entry.DirState \in {"I", "S"},
         NEW q \in MemoryMsg, q.Type = "MEMORY_READ", q.OriginalRequestor = m.Requestor,
         NEW e \in Entry, e.DirState = "S_m", e.Owner = entry.Owner,
         e.Sharers = entry.Sharers \cup {m.Requestor},
         NEW arrived1 \in SUBSET RequestMsg, arrived1 = arrived \ {m},
         NEW queued1 \in SUBSET MemoryMsg, queued1 = queued \cup {q}
  PROVE  LineHolds(a, sent, arrived1, queued1, forwards, answers, home, e, state, acks)
<1>1. PICK stage \in StageType, by \in ByType,
           chain \in Seq(Cache), inv \in SUBSET Cache, ack \in SUBSET Cache :
        LineInv(a, sent, arrived, queued, forwards, answers, home, entry, state, acks,
              stage, by, chain, inv, ack)
  BY DEF LineHolds
<1>2. PICK r \in Cache : /\ r = m.Requestor /\ stage[r] = "arrived" /\ state[r] = "IS_D"
  BY <1>1, MessageTypes DEF LineInv, ArrivedOK, Fits
<1>3. /\ chain = <<>> /\ inv = {} /\ ack = {}
      /\ queued = {} /\ e.Owner = {} /\ (entry.DirState = "I" => entry.Sharers = {})
      /\ entry.DirState \notin {"S_D", "S_m", "M_m"}
      /\ \A y \in Cache : stage[y] # "memory" /\ ~Reads(y, state, stage)
  <2>1. chain = <<>>
    BY <1>1 DEF LineInv, EntryOK
  <2>2. inv = {} /\ ack = {}
    BY <1>1, <2>1 DEF LineInv, InvsOK
  <2>3. queued = {} /\ e.Owner = {} /\ (entry.DirState = "I" => entry.Sharers = {})
    BY DEF EntryConsistent, MemoryConsistent
  <2>4. \A y \in Cache : stage[y] # "memory"
    BY <1>1 DEF LineInv, MemoryOK
  <2>5. \A y \in Cache : ~Reads(y, state, stage)
    BY <1>1, <2>1 DEF LineInv, ReaderOK
  <2> QED
    BY <2>1, <2>2, <2>3, <2>4, <2>5
<1>4. PICK st \in StageType : /\ st[r] = "memory"
                             /\ \A y \in Cache : y # r => st[y] = stage[y]
  <2>1. [stage EXCEPT ![r] = "memory"] \in StageType
    BY DEF StageType, Stage
  <2> QED
    BY <2>1 DEF StageType
<1>5. /\ arrived1 = arrived \ {m}
      /\ queued1 = queued \cup {q}
  OBVIOUS
<1>6. /\ \A y \in Cache : Asked(y, st, by) <=> Asked(y, stage, by)
      /\ \A y \in Cache : ~Reads(y, state, st)
  BY <1>2, <1>3, <1>4, <1>5 DEF Asked, Reads
<1>7. SentOK(sent, state, st)
  BY <1>1, <1>2, <1>3, <1>4, <1>5 DEF LineInv, SentOK
<1>8. ArrivedOK(arrived1, state, st)
  BY <1>1, <1>2, <1>3, <1>4, <1>5, MessageTypes DEF LineInv, ArrivedOK
<1>9. QueuedOK(queued1, st)
  BY <1>1, <1>2, <1>3, <1>4, <1>5, MessageTypes DEF LineInv, QueuedOK
<1>10. AskedOK(a, forwards, state, st, by)
  BY <1>1, <1>2, <1>3, <1>4, <1>5, ForwardTypes DEF LineInv, AskedOK
<1>11. AckedOK(a, forwards, st)
  BY <1>1, <1>2, <1>3, <1>4, <1>5 DEF LineInv, AckedOK
<1>12. DataSentOK(answers, st, by)
  BY <1>1, <1>2, <1>3, <1>4, <1>5, ByTypes DEF LineInv, DataSentOK
<1>13. HomeOK(home, e, chain)
  BY <1>1, <1>3, <1>5 DEF LineInv, HomeOK
<1>14. StageOK(state, st)
  BY <1>1, <1>2, <1>3, <1>4, <1>5 DEF LineInv, StageOK, GetStates
<1>15. OwnersOK(state, st, by, chain)
  BY <1>1, <1>2, <1>3, <1>4, <1>5, <1>6 DEF LineInv, OwnersOK, Owning
<1>16. LinksOK(st, by, chain)
  BY <1>1, <1>3 DEF LineInv, LinksOK
<1>17. EntryOK(e, st, chain)
  BY <1>1, <1>3, <1>5 DEF LineInv, EntryOK
<1>18. MemoryOK(e, state, st)
  BY <1>1, <1>2, <1>3, <1>4, <1>5 DEF LineInv, MemoryOK
<1>19. ReaderOK(e, state, st, by, chain)
  BY <1>1, <1>3, <1>5, <1>6, EntryTypes DEF LineInv, ReaderOK
<1>20. InvsOK(state, st, chain, inv, ack)
  BY <1>1, <1>3, <1>5 DEF LineInv, InvsOK
<1>21. AcksOK(e, answers, state, acks, st, by, chain, inv, ack)
  <2>1. AcksFor(e, r) = 0
    BY <1>3 DEF AcksFor
  <2>2. acks[r] \in Int
    BY AcksTypes
  <2>3. acks[r] = Due(r, chain, inv, ack)
    BY <1>1, <1>2, AcksTypes, ByTypes DEF LineInv, AcksOK
  <2> QED
    BY <1>1, <1>2, <1>3, <1>4, <1>5, <2>1, <2>2, <2>3, AcksTypes, ByTypes DEF LineInv, AcksOK
<1>22. CopiesOK(e, state, st, chain, inv)
  BY <1>1, <1>2, <1>3, <1>4, <1>5 DEF LineInv, CopiesOK, Holds, Settled
<1>23. SharersOK(e, state, st, chain)
  BY <1>1, <1>2, <1>3, <1>4, <1>5, EntryTypes DEF LineInv, SharersOK,
     Settled
<1>24. LineInv(a, sent, arrived1, queued1, forwards, answers, home, e, state, acks,
              st, by, chain, inv, ack)
  BY <1>1, <1>5, <1>7, <1>8, <1>9, <1>10, <1>11, <1>12, <1>13, <1>14, <1>15,
     <1>16, <1>17, <1>18, <1>19, <1>20, <1>21, <1>22, <1>23 DEF LineInv
<1> QED
  BY <1>24 DEF LineHolds

(* The directory asks memory for a writer's data, and the sharers to give up *)
(* their copies.                                                           *)
LEMMA WriteFromMemory ==
  ASSUME NEW a \in Addr, NEW sent \in SentType,
         NEW arrived \in SUBSET RequestMsg, NEW queued \in SUBSET MemoryMsg,
         NEW forwards \in ForwardsType(a),
         NEW answers \in AnswersType,
         NEW home \in HomeType, NEW entry \in Entry,
         NEW state \in StateType, NEW acks \in AcksType,
         LineHolds(a, sent, arrived, queued, forwards, answers, home, entry, state, acks),
         EntryConsistent(entry), MemoryConsistent(entry, queued),
         NEW m \in arrived, m.Type = "GetM", entry.DirState \in {"I", "S"},
         NEW q \in MemoryMsg, q.Type = "MEMORY_READ", q.OriginalRequestor = m.Requestor,
         NEW e \in Entry, e.DirState = "M_m", e.Owner = entry.Owner \cup {m.Requestor},
         e.Sharers = entry.Sharers \ {m.Requestor},
         NEW f, \A c \in Cache : f[c] =
           forwards[c] \cup
             (IF c \in e.Sharers THEN {ForwardOf("Inv", a, m.Requestor)} ELSE {}),
         NEW arrived1 \in SUBSET RequestMsg, arrived1 = arrived \ {m},
         NEW queued1 \in SUBSET MemoryMsg, queued1 = queued \cup {q}
  PROVE  LineHolds(a, sent, arrived1, queued1, f, answers, home, e, state, acks)
<1>1. PICK stage \in StageType, by \in ByType,
           chain \in Seq(Cache), inv \in SUBSET Cache, ack \in SUBSET Cache :
        LineInv(a, sent, arrived, queued, forwards, answers, home, entry, state, acks,
              stage, by, chain, inv, ack)
  BY DEF LineHolds
<1>2. PICK r \in Cache : /\ r = m.Requestor /\ stage[r] = "arrived"
                         /\ state[r] \in {"IM_AD", "SM_AD"}
  BY <1>1, MessageTypes DEF LineInv, ArrivedOK, Fits
<1>3. /\ chain = <<>> /\ inv = {} /\ ack = {}
      /\ queued = {} /\ e.Owner = {r} /\ e.Sharers \in SUBSET Cache
      /\ entry.DirState \notin {"S_D", "S_m", "M_m"}
      /\ \A y \in Cache : stage[y] # "memory" /\ ~Reads(y, state, stage)
      /\ \A y \in Cache : ~Owning(y, state, stage, by)
  <2>1. chain = <<>>
    BY <1>1 DEF LineInv, EntryOK
  <2>2. inv = {} /\ ack = {}
    BY <1>1, <2>1 DEF LineInv, InvsOK
  <2>3. queued = {} /\ e.Owner = {r}
    BY <1>2 DEF EntryConsistent, MemoryConsistent
  <2>4. \A y \in Cache : stage[y] # "memory"
    BY <1>1 DEF LineInv, MemoryOK
  <2>5. \A y \in Cache : ~Reads(y, state, stage)
    BY <1>1, <2>1 DEF LineInv, ReaderOK
  <2>6. \A y \in Cache : ~Owning(y, state, stage, by)
    BY <1>1, <2>1 DEF LineInv, OwnersOK, InChain
  <2>7. e.Sharers \in SUBSET Cache
    BY DEF Entry
  <2> QED
    BY <2>1, <2>2, <2>3, <2>4, <2>5, <2>6, <2>7
<1>4. PICK st \in StageType : /\ st[r] = "memory"
                             /\ \A y \in Cache : y # r => st[y] = stage[y]
  <2>1. [stage EXCEPT ![r] = "memory"] \in StageType
    BY DEF StageType, Stage
  <2> QED
    BY <2>1 DEF StageType
<1>5. /\ arrived1 = arrived \ {m}
      /\ queued1 = queued \cup {q}
  OBVIOUS
<1>6. \A type, y : ForwardOf(type, a, y).Type = type /\ ForwardOf(type, a, y).Requestor = y
  BY DEF ForwardOf
<1>7. /\ \A y \in Cache : Asked(y, st, by) <=> Asked(y, stage, by)
      /\ \A y \in Cache : ~Reads(y, state, st)
  BY <1>2, <1>3, <1>4, <1>5 DEF Asked, Reads
<1>8. PICK one \in Seq(Cache) : /\ one = <<r>> /\ one # <<>> /\ Len(one) = 1 /\ one[1] = r
                                /\ LastOf(one) = r /\ \A y : InChain(y, one) <=> y = r
  <2>1. <<r>> \in Seq(Cache) /\ <<r>> # <<>> /\ Len(<<r>>) = 1 /\ <<r>>[1] = r
    OBVIOUS
  <2>2. LastOf(<<r>>) = r /\ \A y : InChain(y, <<r>>) <=> y = r
    BY <2>1 DEF LastOf, InChain
  <2> QED
    BY <2>1, <2>2
<1>9. SentOK(sent, state, st)
  BY <1>1, <1>2, <1>3, <1>4, <1>5 DEF LineInv, SentOK
<1>10. ArrivedOK(arrived1, state, st)
  BY <1>1, <1>2, <1>3, <1>4, <1>5, MessageTypes DEF LineInv, ArrivedOK
<1>11. QueuedOK(queued1, st)
  BY <1>1, <1>2, <1>3, <1>4, <1>5, MessageTypes DEF LineInv, QueuedOK
<1>12. AskedOK(a, f, state, st, by)
  BY <1>1, <1>2, <1>3, <1>4, <1>5, <1>6, ForwardTypes DEF LineInv, AskedOK
<1>13. AckedOK(a, f, st)
  BY <1>1, <1>2, <1>3, <1>4, <1>5, <1>6 DEF LineInv, AckedOK
<1>14. InvSentOK(a, f, one, e.Sharers)
  <2>1. \A y \in Cache : \A n \in forwards[y] : n.Type # "Inv"
    BY <1>1, <1>3 DEF LineInv, InvSentOK
  <2> QED
    BY <1>2, <1>5, <1>6, <1>8, <2>1 DEF InvSentOK
<1>15. DataSentOK(answers, st, by)
  BY <1>1, <1>2, <1>3, <1>4, <1>5, ByTypes DEF LineInv, DataSentOK
<1>16. InvAckSentOK(answers, one, {})
  BY <1>1, <1>3, <1>5 DEF LineInv, InvAckSentOK
<1>17. HomeOK(home, e, one)
  BY <1>1, <1>3, <1>5 DEF LineInv, HomeOK
<1>18. StageOK(state, st)
  BY <1>1, <1>2, <1>3, <1>4, <1>5 DEF LineInv, StageOK, GetStates
<1>19. OwnersOK(state, st, by, one)
  <2>1. \A y \in Cache : y # r => ~Owning(y, state, st, by)
    BY <1>3, <1>4, <1>5, <1>7 DEF Owning
  <2>2. Owning(r, state, st, by)
    BY <1>2, <1>4, <1>5 DEF Owning
  <2> QED
    BY <1>8, <2>1, <2>2 DEF OwnersOK
<1>20. LinksOK(st, by, one)
  BY <1>4, <1>8 DEF LinksOK
<1>21. EntryOK(e, st, one)
  BY <1>3, <1>4, <1>5, <1>8 DEF EntryOK
<1>22. MemoryOK(e, state, st)
  BY <1>1, <1>2, <1>3, <1>4, <1>5 DEF LineInv, MemoryOK
<1>23. ReaderOK(e, state, st, by, one)
  BY <1>5, <1>7 DEF ReaderOK
<1>24. InvsOK(state, st, one, e.Sharers, {})
  <2>1. \A y \in Cache : y \in e.Sharers =>
           \/ state[y] \in {"S", "SM_AD", "SI_A"}
           \/ state[y] = "IS_D" /\ stage[y] = "answered" /\ y # r
    <3>1. entry.DirState = "I" => e.Sharers = {}
      BY DEF EntryConsistent
    <3>2. entry.DirState = "S" => Settled(entry, chain)
      BY <1>3 DEF Settled
    <3>3. \A y \in e.Sharers : y \in entry.Sharers
      OBVIOUS
    <3> QED
      BY <1>1, <1>2, <1>3, <3>1, <3>2, <3>3 DEF LineInv, SharersOK
  <2>2. r \notin e.Sharers
    BY <1>2
  <2> QED
    BY <1>2, <1>3, <1>4, <1>5, <1>8, <2>1, <2>2 DEF InvsOK, Stalled
<1>25. AcksOK(e, answers, state, acks, st, by, one, e.Sharers, {})
  <2>1. AcksFor(e, r) = Cardinality(e.Sharers)
    BY <1>3 DEF AcksFor, count
  <2>2. Due(r, one, e.Sharers, {}) = Cardinality(e.Sharers)
    <3>1. e.Sharers \cup {} = e.Sharers
      OBVIOUS
    <3> QED
      BY <1>8, <3>1 DEF Due
  <2>3. \A y \in Cache : y # r => Due(y, one, e.Sharers, {}) = 0
    BY <1>8 DEF Due
  <2>4. \A y \in Cache : Due(y, chain, inv, ack) = 0
    BY <1>3 DEF Due
  <2>5. acks[r] = 0
    BY <1>1, <1>2, <2>4, AcksTypes, ByTypes DEF LineInv, AcksOK
  <2>6. Cardinality(e.Sharers) \in Nat
    BY <1>3, MSIConstants, FS_Subset, FS_CardinalityType DEF MSIConstants
  <2>7. acks[r] + AcksFor(e, r) = Due(r, one, e.Sharers, {}) /\ acks[r] <= 0
    BY <1>5, <2>1, <2>2, <2>5, <2>6
  <2>8. \A y \in Cache : y # r => st[y] # "memory"
    BY <1>3, <1>4
  <2>9. \A y \in Cache : y # r =>
          /\ stage[y] = "answered" /\ by[y] = Directory =>
               \A n \in answers[y][Directory] : acks[y] + n.Acks = 0
          /\ \/ stage[y] = "memory"
             \/ stage[y] = "answered" /\ by[y] = Directory
             \/ acks[y] = 0
          /\ state[y] \in {"IM_AD", "SM_AD"} => acks[y] <= 0
    BY <1>1, <2>4, EntryTypes DEF LineInv, AcksOK
  <2> DEFINE Good(y) ==
        /\ st[y] = "memory" => acks[y] + AcksFor(e, y) = Due(y, one, e.Sharers, {})
        /\ st[y] = "answered" /\ by[y] = Directory =>
             \A n \in answers[y][Directory] :
               acks[y] + n.Acks = Due(y, one, e.Sharers, {})
        /\ \/ st[y] = "memory"
           \/ st[y] = "answered" /\ by[y] = Directory
           \/ acks[y] = Due(y, one, e.Sharers, {})
        /\ state[y] \in {"IM_AD", "SM_AD"} => acks[y] <= 0
  <2>10. Good(r)
    BY <1>4, <2>7
  <2>11. ASSUME NEW y \in Cache, y # r
         PROVE  Good(y)
    <3>1. st[y] = stage[y] /\ st[y] # "memory" /\ Due(y, one, e.Sharers, {}) = 0
      BY <1>4, <2>3, <2>8, <2>11
    <3>2. TRUE
      BY <1>5
    <3> QED
      BY <2>9, <2>11, <3>1, <3>2
  <2> QED
    BY <2>10, <2>11 DEF AcksOK
<1>26. CopiesOK(e, state, st, one, e.Sharers)
  <2>1. \A y \in Cache : Holds(y, state, st) => y = r \/ Holds(y, state, stage)
    BY <1>4, <1>5 DEF Holds
  <2>2. \A y \in Cache : Holds(y, state, stage) => y \in entry.Sharers
    BY <1>1, <1>3 DEF LineInv, CopiesOK
  <2> QED
    BY <1>2, <1>8, <2>1, <2>2 DEF CopiesOK
<1>27. SharersOK(e, state, st, one)
  BY <1>8 DEF SharersOK, Settled
<1>28. LineInv(a, sent, arrived1, queued1, f, answers, home, e, state, acks,
              st, by, one, e.Sharers, {})
  BY <1>1, <1>5, <1>9, <1>10, <1>11, <1>12, <1>13, <1>14, <1>15, <1>16,
     <1>17, <1>18, <1>19, <1>20, <1>21, <1>22, <1>23, <1>24, <1>25, <1>26,
     <1>27 DEF LineInv
<1> QED
  BY <1>28, <1>3 DEF LineHolds

(* When the directory is in M nobody waits for the owner, nor is its put     *)
(* acknowledged.                                                           *)
LEMMA OwnerUnasked ==
  ASSUME NEW entry \in Entry, NEW state \in StateType,
         NEW stage \in StageType, NEW by \in ByType, NEW chain \in Seq(Cache),
         StageOK(state, stage), OwnersOK(state, stage, by, chain),
         LinksOK(stage, by, chain), EntryOK(entry, stage, chain),
         MemoryOK(entry, state, stage), ReaderOK(entry, state, stage, by, chain),
         entry.DirState = "M"
  PROVE  /\ chain # <<>> /\ Len(chain) \in Nat \ {0} /\ LastOf(chain) \in Cache
         /\ entry.Owner = {LastOf(chain)}
         /\ ~Asked(LastOf(chain), stage, by) /\ stage[LastOf(chain)] # "acked"
         /\ \A y \in Cache : ~Reads(y, state, stage) /\ stage[y] # "memory"
<1>1. chain # <<>> /\ entry.Owner = {LastOf(chain)}
  BY DEF EntryOK
<1>2. /\ Len(chain) \in Nat \ {0} /\ LastOf(chain) \in Cache
      /\ Len(chain) \in 1..Len(chain) /\ InChain(LastOf(chain), chain)
  BY <1>1 DEF LastOf, InChain
<1>3. \A y \in Cache : ~Reads(y, state, stage) /\ stage[y] # "memory"
  BY DEF ReaderOK, MemoryOK
<1>4. ~Asked(LastOf(chain), stage, by)
  <2> SUFFICES ASSUME NEW x \in Cache, stage[x] = "forwarded", by[x] = LastOf(chain)
               PROVE  FALSE
    BY DEF Asked
  <2>1. state[x] \in {"IM_AD", "SM_AD"}
    BY <1>3 DEF StageOK, GetStates, Reads
  <2>2. PICK i \in 1..Len(chain) : chain[i] = x
    BY <2>1 DEF OwnersOK, Owning, InChain
  <2>3. i # 1 /\ chain[i - 1] = chain[Len(chain)]
    BY <2>2 DEF LinksOK, LastOf
  <2>4. i - 1 \in 1..Len(chain) /\ i - 1 # Len(chain)
    BY <1>2, <2>2, <2>3
  <2> QED
    BY <1>2, <2>3, <2>4 DEF OwnersOK
<1>5. stage[LastOf(chain)] # "acked"
  BY <1>2, <1>4 DEF OwnersOK, Owning, StageOK
<1> QED
  BY <1>1, <1>2, <1>3, <1>4, <1>5

(* The directory passes a read on to the owner.                            *)
LEMMA ReadFromOwner ==
  ASSUME NEW a \in Addr, NEW sent \in SentType,
         NEW arrived \in SUBSET RequestMsg, NEW queued \in SUBSET MemoryMsg,
         NEW forwards \in ForwardsType(a),
         NEW answers \in AnswersType,
         NEW home \in HomeType, NEW entry \in Entry,
         NEW state \in StateType, NEW acks \in AcksType,
         LineHolds(a, sent, arrived, queued, forwards, answers, home, entry, state, acks),
         EntryConsistent(entry), MemoryConsistent(entry, queued),
         NEW m \in arrived, m.Type = "GetS", entry.DirState = "M",
         NEW e \in Entry, e.DirState = "S_D",
         e.Sharers = entry.Sharers \cup {m.Requestor} \cup entry.Owner,
         NEW f, \A c \in Cache : f[c] =
           forwards[c] \cup
             (IF c \in entry.Owner THEN {ForwardOf("GetS", a, m.Requestor)} ELSE {}),
         NEW arrived1 \in SUBSET RequestMsg, arrived1 = arrived \ {m}
  PROVE  LineHolds(a, sent, arrived1, queued, f, answers, home, e, state, acks)
<1>1. PICK stage \in StageType, by \in ByType,
           chain \in Seq(Cache), inv \in SUBSET Cache, ack \in SUBSET Cache :
        LineInv(a, sent, arrived, queued, forwards, answers, home, entry, state, acks,
              stage, by, chain, inv, ack)
  BY DEF LineHolds
<1>2. PICK r \in Cache : /\ r = m.Requestor /\ stage[r] = "arrived"
                         /\ state[r] = "IS_D"
  BY <1>1, MessageTypes DEF LineInv, ArrivedOK, Fits
<1>3. /\ chain # <<>> /\ LastOf(chain) \in Cache /\ entry.Owner = {LastOf(chain)}
      /\ ~Asked(LastOf(chain), stage, by) /\ stage[LastOf(chain)] # "acked"
      /\ \A y \in Cache : ~Reads(y, state, stage) /\ stage[y] # "memory"
      /\ e.Sharers = {r, LastOf(chain)} /\ r # LastOf(chain)
  <2>1. /\ chain # <<>> /\ Len(chain) \in Nat \ {0} /\ LastOf(chain) \in Cache
        /\ entry.Owner = {LastOf(chain)}
        /\ ~Asked(LastOf(chain), stage, by) /\ stage[LastOf(chain)] # "acked"
        /\ \A y \in Cache : ~Reads(y, state, stage) /\ stage[y] # "memory"
    BY <1>1, OwnerUnasked DEF LineInv
  <2>2. entry.Sharers = {}
    BY DEF EntryConsistent
  <2>3. ~InChain(r, chain)
    BY <1>1, <1>2 DEF LineInv, OwnersOK, Owning
  <2>4. r # LastOf(chain)
    BY <2>1, <2>3 DEF InChain, LastOf
  <2> QED
    BY <1>2, <2>1, <2>2, <2>4
<1>4. PICK st \in StageType : /\ st[r] = "forwarded"
                             /\ \A y \in Cache : y # r => st[y] = stage[y]
  <2>1. [stage EXCEPT ![r] = "forwarded"] \in StageType
    BY DEF StageType, Stage
  <2> QED
    BY <2>1 DEF StageType
<1>5. PICK nb \in ByType : /\ nb[r] = LastOf(chain)
                          /\ \A y \in Cache : y # r => nb[y] = by[y]
  <2>1. /\ [by EXCEPT ![r] = LastOf(chain)] \in ByType
        /\ [by EXCEPT ![r] = LastOf(chain)][r] = LastOf(chain)
        /\ \A y \in Cache : y # r => [by EXCEPT ![r] = LastOf(chain)][y] = by[y]
    BY <1>3 DEF Machine, ByType
  <2> QED
    BY <2>1
<1>6. /\ arrived1 = arrived \ {m}
  OBVIOUS
<1>7. \A type, y : ForwardOf(type, a, y).Type = type /\ ForwardOf(type, a, y).Requestor = y
  BY DEF ForwardOf
<1>8. /\ \A y \in Cache : Asked(y, st, nb) <=> Asked(y, stage, by) \/ y = LastOf(chain)
      /\ \A y \in Cache : Reads(y, state, st) <=> y = r
  BY <1>2, <1>3, <1>4, <1>5, <1>6 DEF Asked, Reads
<1>9. \A i \in 1..Len(chain) : chain[i] \in Cache /\ chain[i] # r
  BY <1>1, <1>2 DEF LineInv, OwnersOK, Owning, InChain
<1>10. SentOK(sent, state, st)
  BY <1>1, <1>2, <1>3, <1>4, <1>5, <1>6 DEF LineInv, SentOK
<1>11. ArrivedOK(arrived1, state, st)
  BY <1>1, <1>2, <1>3, <1>4, <1>5, <1>6, MessageTypes DEF LineInv, ArrivedOK
<1>12. QueuedOK(queued, st)
  BY <1>1, <1>2, <1>3, <1>4, <1>5, <1>6, MessageTypes DEF LineInv, QueuedOK
<1>13. AskedOK(a, f, state, st, nb)
  <2>1. /\ f[LastOf(chain)] = forwards[LastOf(chain)] \cup {ForwardOf("GetS", a, r)}
        /\ \A y \in Cache : y # LastOf(chain) => f[y] = forwards[y]
    <3>1. \A y \in Cache : y \in entry.Owner <=> y = LastOf(chain)
      BY <1>3
    <3>2. \A y \in Cache : f[y] =
            forwards[y] \cup (IF y = LastOf(chain) THEN {ForwardOf("GetS", a, r)} ELSE {})
      BY <1>2, <1>6, <3>1
    <3>3. \A y \in Cache : y # LastOf(chain) => f[y] = forwards[y] \cup {}
      BY <3>2
    <3>4. \A S : S \cup {} = S
      OBVIOUS
    <3>5. f[LastOf(chain)] = forwards[LastOf(chain)] \cup {ForwardOf("GetS", a, r)}
      BY <1>3, <3>2
    <3> QED
      BY <1>6, <3>3, <3>4, <3>5
  <2>2. \A d \in Cache : \A n \in forwards[d] :
          n.Type \in {"GetS", "GetM"} =>
            /\ n.Requestor \in Cache /\ n.Requestor # r
            /\ stage[n.Requestor] = "forwarded" /\ by[n.Requestor] = d
            /\ Fits(n.Type, state[n.Requestor])
    BY <1>1, <1>2, ForwardTypes DEF LineInv, AskedOK
  <2>3. \A c \in Cache : c # r /\ st[c] = "forwarded" =>
          /\ nb[c] \in Cache
          /\ ForwardOf(IF state[c] = "IS_D" THEN "GetS" ELSE "GetM", a, c)
               \in forwards[nb[c]]
    BY <1>1, <1>4, <1>5 DEF LineInv, AskedOK
  <2>4. Fits("GetS", state[r])
    BY <1>2 DEF Fits
  <2>5. \A d \in Cache : \A n \in f[d] :
          n.Type \in {"GetS", "GetM"} =>
            /\ st[n.Requestor] = "forwarded" /\ nb[n.Requestor] = d
            /\ Fits(n.Type, state[n.Requestor])
    BY <1>4, <1>5, <1>7, <2>1, <2>2, <2>4
  <2>6. \A c \in Cache : st[c] = "forwarded" =>
          /\ nb[c] \in Cache
          /\ ForwardOf(IF state[c] = "IS_D" THEN "GetS" ELSE "GetM", a, c)
               \in f[nb[c]]
    BY <1>2, <1>3, <1>5, <2>1, <2>3
  <2> QED
    BY <2>5, <2>6 DEF AskedOK
<1>14. AckedOK(a, f, st)
  BY <1>1, <1>2, <1>3, <1>4, <1>5, <1>6, <1>7 DEF LineInv, AckedOK
<1>15. InvSentOK(a, f, chain, inv)
  BY <1>1, <1>2, <1>3, <1>4, <1>5, <1>6, <1>7 DEF LineInv, InvSentOK
<1>16. DataSentOK(answers, st, nb)
  BY <1>1, <1>2, <1>3, <1>4, <1>5, <1>6, ByTypes DEF LineInv, DataSentOK
<1>17. HomeOK(home, e, chain)
  BY <1>1, <1>3, <1>6 DEF LineInv, HomeOK
<1>18. StageOK(state, st)
  BY <1>1, <1>2, <1>3, <1>4, <1>5, <1>6 DEF LineInv, StageOK, GetStates
<1>19. OwnersOK(state, st, nb, chain)
  BY <1>1, <1>2, <1>3, <1>4, <1>5, <1>6, <1>8 DEF LineInv, OwnersOK, Owning
<1>20. LinksOK(st, nb, chain)
  BY <1>1, <1>2, <1>4, <1>5, <1>9 DEF LineInv, LinksOK
<1>21. EntryOK(e, st, chain)
  BY <1>1, <1>2, <1>3, <1>4, <1>6, <1>9 DEF LineInv, EntryOK
<1>22. MemoryOK(e, state, st)
  BY <1>1, <1>2, <1>3, <1>4, <1>6 DEF LineInv, MemoryOK
<1>23. ReaderOK(e, state, st, nb, chain)
  BY <1>1, <1>2, <1>3, <1>4, <1>5, <1>6, <1>8, EntryTypes DEF LineInv,
     ReaderOK
<1>24. InvsOK(state, st, chain, inv, ack)
  BY <1>1, <1>2, <1>4, <1>6, <1>9 DEF LineInv, InvsOK
<1>25. AcksOK(e, answers, state, acks, st, nb, chain, inv, ack)
  <2>1. \A y \in Cache : acks[y] = acks[y] /\ state[y] = state[y]
                           /\ answers[y] = answers[y] /\ st[y] # "memory"
    BY <1>3, <1>4, <1>6
  <2>2. \A y \in Cache : st[y] = "answered" => stage[y] = "answered" /\ nb[y] = by[y]
    BY <1>4, <1>5
  <2> QED
    BY <1>1, <1>2, <1>3, <1>4, <1>5, <2>1, <2>2, AcksTypes, ByTypes DEF LineInv, AcksOK
<1>26. CopiesOK(e, state, st, chain, inv)
  BY <1>1, <1>2, <1>3, <1>4, <1>5, <1>6 DEF LineInv, CopiesOK, Holds, Settled
<1>27. SharersOK(e, state, st, chain)
  BY <1>1, <1>3, <1>6 DEF LineInv, SharersOK, Settled
<1>28. LineInv(a, sent, arrived1, queued, f, answers, home, e, state, acks,
              st, nb, chain, inv, ack)
  BY <1>1, <1>6, <1>10, <1>11, <1>12, <1>13, <1>14, <1>15, <1>16, <1>17,
     <1>18, <1>19, <1>20, <1>21, <1>22, <1>23, <1>24, <1>25, <1>26, <1>27 DEF
     LineInv
<1> QED
  BY <1>28 DEF LineHolds

(* The chain with one more.                                                *)
LEMMA ChainAppend ==
  ASSUME NEW chain \in Seq(Cache), chain # <<>>, NEW r \in Cache, ~InChain(r, chain),
         \A i, j \in 1..Len(chain) : chain[i] = chain[j] => i = j
  PROVE  LET more == Append(chain, r) IN
         /\ more \in Seq(Cache) /\ more # <<>>
         /\ Len(more) = Len(chain) + 1 /\ Len(chain) \in Nat \ {0}
         /\ more[1] = chain[1] /\ LastOf(more) = r
         /\ \A i \in 1..Len(chain) : more[i] = chain[i] /\ chain[i] # r
         /\ \A i, j \in 1..Len(more) : more[i] = more[j] => i = j
         /\ \A x : InChain(x, more) <=> InChain(x, chain) \/ x = r
<1> DEFINE more == Append(chain, r)
<1>1. /\ more \in Seq(Cache) /\ Len(more) = Len(chain) + 1 /\ Len(chain) \in Nat \ {0}
      /\ \A i \in 1..Len(chain) : more[i] = chain[i]
      /\ more[Len(chain) + 1] = r
  OBVIOUS
<1> HIDE DEF more
<1>2. more # <<>> /\ more[1] = chain[1] /\ LastOf(more) = r
  BY <1>1 DEF LastOf
<1>3. \A i \in 1..Len(chain) : chain[i] # r
  BY DEF InChain
<1>4. \A i, j \in 1..Len(more) : more[i] = more[j] => i = j
  BY <1>1, <1>3
<1>5. ASSUME NEW x
      PROVE  InChain(x, more) <=> InChain(x, chain) \/ x = r
  <2>1. \A i : i \in 1..Len(more) <=> i \in 1..Len(chain) \/ i = Len(chain) + 1
    BY <1>1
  <2> QED
    BY <1>1, <2>1 DEF InChain
<1> QED
  BY <1>1, <1>2, <1>3, <1>4, <1>5 DEF more

(* The directory passes a write on to the owner; the writer is the next one. *)
LEMMA WriteFromOwner ==
  ASSUME NEW a \in Addr, NEW sent \in SentType,
         NEW arrived \in SUBSET RequestMsg, NEW queued \in SUBSET MemoryMsg,
         NEW forwards \in ForwardsType(a),
         NEW answers \in AnswersType,
         NEW home \in HomeType, NEW entry \in Entry,
         NEW state \in StateType, NEW acks \in AcksType,
         LineHolds(a, sent, arrived, queued, forwards, answers, home, entry, state, acks),
         EntryConsistent(entry), MemoryConsistent(entry, queued),
         NEW m \in arrived, m.Type = "GetM", entry.DirState = "M",
         NEW e \in Entry, e.DirState = "M", e.Owner = {m.Requestor},
         NEW f, \A c \in Cache : f[c] =
           forwards[c] \cup
             (IF c \in entry.Owner THEN {ForwardOf("GetM", a, m.Requestor)} ELSE {}),
         NEW arrived1 \in SUBSET RequestMsg, arrived1 = arrived \ {m}
  PROVE  LineHolds(a, sent, arrived1, queued, f, answers, home, e, state, acks)
<1>1. PICK stage \in StageType, by \in ByType,
           chain \in Seq(Cache), inv \in SUBSET Cache, ack \in SUBSET Cache :
        LineInv(a, sent, arrived, queued, forwards, answers, home, entry, state, acks,
              stage, by, chain, inv, ack)
  BY DEF LineHolds
<1>2. PICK r \in Cache : /\ r = m.Requestor /\ stage[r] = "arrived"
                         /\ state[r] \in {"IM_AD", "SM_AD"}
  BY <1>1, MessageTypes DEF LineInv, ArrivedOK, Fits
<1>3. /\ chain # <<>> /\ LastOf(chain) \in Cache /\ entry.Owner = {LastOf(chain)}
      /\ ~Asked(LastOf(chain), stage, by) /\ stage[LastOf(chain)] # "acked"
      /\ \A y \in Cache : ~Reads(y, state, stage) /\ stage[y] # "memory"
      /\ e.Owner = {r} /\ r # LastOf(chain) /\ ~InChain(r, chain)
      /\ \A i, j \in 1..Len(chain) : chain[i] = chain[j] => i = j
      /\ \A i \in 1..Len(chain) : chain[i] \in Cache
  <2>1. /\ chain # <<>> /\ Len(chain) \in Nat \ {0} /\ LastOf(chain) \in Cache
        /\ entry.Owner = {LastOf(chain)}
        /\ ~Asked(LastOf(chain), stage, by) /\ stage[LastOf(chain)] # "acked"
        /\ \A y \in Cache : ~Reads(y, state, stage) /\ stage[y] # "memory"
    BY <1>1, OwnerUnasked DEF LineInv
  <2>2. ~InChain(r, chain) /\ \A i, j \in 1..Len(chain) : chain[i] = chain[j] => i = j
    BY <1>1, <1>2 DEF LineInv, OwnersOK, Owning
  <2>3. r # LastOf(chain)
    BY <2>1, <2>2 DEF InChain, LastOf
  <2> QED
    BY <1>2, <2>1, <2>2, <2>3
<1>4. PICK st \in StageType : /\ st[r] = "forwarded"
                             /\ \A y \in Cache : y # r => st[y] = stage[y]
  <2>1. [stage EXCEPT ![r] = "forwarded"] \in StageType
    BY DEF StageType, Stage
  <2> QED
    BY <2>1 DEF StageType
<1>5. PICK nb \in ByType : /\ nb[r] = LastOf(chain)
                          /\ \A y \in Cache : y # r => nb[y] = by[y]
  <2>1. /\ [by EXCEPT ![r] = LastOf(chain)] \in ByType
        /\ [by EXCEPT ![r] = LastOf(chain)][r] = LastOf(chain)
        /\ \A y \in Cache : y # r => [by EXCEPT ![r] = LastOf(chain)][y] = by[y]
    BY <1>3 DEF Machine, ByType
  <2> QED
    BY <2>1
<1>6. /\ arrived1 = arrived \ {m}
  OBVIOUS
<1>7. \A type, y : ForwardOf(type, a, y).Type = type /\ ForwardOf(type, a, y).Requestor = y
  BY DEF ForwardOf
<1>8. /\ \A y \in Cache : Asked(y, st, nb) <=> Asked(y, stage, by) \/ y = LastOf(chain)
      /\ \A y \in Cache : ~Reads(y, state, st)
  BY <1>2, <1>3, <1>4, <1>5, <1>6 DEF Asked, Reads
<1>9. PICK more : more = Append(chain, r)
  OBVIOUS
<1>10. /\ more \in Seq(Cache) /\ more # <<>>
       /\ Len(more) = Len(chain) + 1 /\ Len(chain) \in Nat \ {0}
       /\ more[1] = chain[1] /\ LastOf(more) = r
       /\ \A i \in 1..Len(chain) : more[i] = chain[i] /\ chain[i] # r
       /\ \A i, j \in 1..Len(more) : more[i] = more[j] => i = j
       /\ \A x : InChain(x, more) <=> InChain(x, chain) \/ x = r
       /\ more[Len(chain) + 1] = r
  <2>1. r \in Cache /\ chain # <<>> /\ ~InChain(r, chain)
        /\ \A i, j \in 1..Len(chain) : chain[i] = chain[j] => i = j
    BY <1>2, <1>3
  <2>2. /\ Append(chain, r) \in Seq(Cache) /\ Append(chain, r) # <<>>
        /\ Len(Append(chain, r)) = Len(chain) + 1 /\ Len(chain) \in Nat \ {0}
        /\ Append(chain, r)[1] = chain[1] /\ LastOf(Append(chain, r)) = r
        /\ \A i \in 1..Len(chain) : Append(chain, r)[i] = chain[i] /\ chain[i] # r
        /\ \A i, j \in 1..Len(Append(chain, r)) :
             Append(chain, r)[i] = Append(chain, r)[j] => i = j
        /\ \A x : InChain(x, Append(chain, r)) <=> InChain(x, chain) \/ x = r
    BY <1>2, <2>1, ChainAppend
  <2>3. Append(chain, r)[Len(chain) + 1] = r
    BY <1>2, <2>1
  <2> QED
    BY <1>9, <2>2, <2>3
<1>11. SentOK(sent, state, st)
  BY <1>1, <1>2, <1>3, <1>4, <1>5, <1>6 DEF LineInv, SentOK
<1>12. ArrivedOK(arrived1, state, st)
  BY <1>1, <1>2, <1>3, <1>4, <1>5, <1>6, MessageTypes DEF LineInv, ArrivedOK
<1>13. QueuedOK(queued, st)
  BY <1>1, <1>2, <1>3, <1>4, <1>5, <1>6, MessageTypes DEF LineInv, QueuedOK
<1>14. AskedOK(a, f, state, st, nb)
  <2>1. /\ f[LastOf(chain)] = forwards[LastOf(chain)] \cup {ForwardOf("GetM", a, r)}
        /\ \A y \in Cache : y # LastOf(chain) => f[y] = forwards[y]
    <3>1. \A y \in Cache : y \in entry.Owner <=> y = LastOf(chain)
      BY <1>3
    <3>2. \A y \in Cache : f[y] =
            forwards[y] \cup (IF y = LastOf(chain) THEN {ForwardOf("GetM", a, r)} ELSE {})
      BY <1>2, <1>6, <3>1
    <3>3. \A y \in Cache : y # LastOf(chain) => f[y] = forwards[y] \cup {}
      BY <3>2
    <3>4. \A S : S \cup {} = S
      OBVIOUS
    <3>5. f[LastOf(chain)] = forwards[LastOf(chain)] \cup {ForwardOf("GetM", a, r)}
      BY <1>3, <3>2
    <3> QED
      BY <1>6, <3>3, <3>4, <3>5
  <2>2. \A d \in Cache : \A n \in forwards[d] :
          n.Type \in {"GetS", "GetM"} =>
            /\ n.Requestor \in Cache /\ n.Requestor # r
            /\ stage[n.Requestor] = "forwarded" /\ by[n.Requestor] = d
            /\ Fits(n.Type, state[n.Requestor])
    BY <1>1, <1>2, ForwardTypes DEF LineInv, AskedOK
  <2>3. \A c \in Cache : c # r /\ st[c] = "forwarded" =>
          /\ nb[c] \in Cache
          /\ ForwardOf(IF state[c] = "IS_D" THEN "GetS" ELSE "GetM", a, c)
               \in forwards[nb[c]]
    BY <1>1, <1>4, <1>5 DEF LineInv, AskedOK
  <2>4. Fits("GetM", state[r])
    BY <1>2 DEF Fits
  <2>5. \A d \in Cache : \A n \in f[d] :
          n.Type \in {"GetS", "GetM"} =>
            /\ st[n.Requestor] = "forwarded" /\ nb[n.Requestor] = d
            /\ Fits(n.Type, state[n.Requestor])
    BY <1>4, <1>5, <1>7, <2>1, <2>2, <2>4
  <2>6. \A c \in Cache : st[c] = "forwarded" =>
          /\ nb[c] \in Cache
          /\ ForwardOf(IF state[c] = "IS_D" THEN "GetS" ELSE "GetM", a, c)
               \in f[nb[c]]
    BY <1>2, <1>3, <1>5, <2>1, <2>3
  <2> QED
    BY <2>5, <2>6 DEF AskedOK
<1>15. AckedOK(a, f, st)
  BY <1>1, <1>2, <1>3, <1>4, <1>5, <1>6, <1>7 DEF LineInv, AckedOK
<1>16. InvSentOK(a, f, more, inv)
  BY <1>1, <1>2, <1>3, <1>4, <1>5, <1>6, <1>7, <1>10 DEF LineInv, InvSentOK
<1>17. DataSentOK(answers, st, nb)
  BY <1>1, <1>2, <1>3, <1>4, <1>5, <1>6, ByTypes DEF LineInv, DataSentOK
<1>18. InvAckSentOK(answers, more, ack)
  BY <1>1, <1>3, <1>6, <1>10 DEF LineInv, InvAckSentOK
<1>19. HomeOK(home, e, more)
  BY <1>1, <1>3, <1>6, <1>10 DEF LineInv, HomeOK
<1>20. StageOK(state, st)
  BY <1>1, <1>2, <1>3, <1>4, <1>5, <1>6 DEF LineInv, StageOK, GetStates
<1>21. OwnersOK(state, st, nb, more)
  <2>1. \A y \in Cache : InChain(y, chain) <=> Owning(y, state, stage, by)
    BY <1>1 DEF LineInv, OwnersOK
  <2>2. Owning(LastOf(chain), state, stage, by)
    <3>1. InChain(LastOf(chain), chain)
      BY <1>3, <1>10 DEF InChain, LastOf
    <3> QED
      BY <1>3, <2>1, <3>1
  <2>3. \A y \in Cache : y # r =>
          (Owning(y, state, st, nb) <=> Owning(y, state, stage, by))
    BY <1>4, <1>6, <1>8, <2>2 DEF Owning
  <2>4. Owning(r, state, st, nb)
    BY <1>2, <1>4, <1>6 DEF Owning
  <2> QED
    BY <1>10, <2>1, <2>3, <2>4 DEF OwnersOK
<1>22. LinksOK(st, nb, more)
  <2>1. ASSUME NEW i \in 1..Len(more)
        PROVE  /\ st[more[i]] = "forwarded" <=> i # 1
               /\ i # 1 => nb[more[i]] = more[i - 1]
    <3>1. CASE i = Len(chain) + 1
      <4>1. i # 1 /\ i - 1 = Len(chain) /\ Len(chain) \in 1..Len(chain)
        BY <1>10, <3>1
      <4> QED
        BY <1>4, <1>5, <1>10, <3>1, <4>1 DEF LastOf
    <3>2. CASE i \in 1..Len(chain)
      <4>1. i # 1 => i - 1 \in 1..Len(chain)
        BY <1>10, <3>2
      <4>2. more[i] = chain[i] /\ chain[i] \in Cache /\ chain[i] # r
            /\ (i # 1 => more[i - 1] = chain[i - 1])
        BY <1>3, <1>10, <3>2, <4>1
      <4>3. st[chain[i]] = stage[chain[i]] /\ nb[chain[i]] = by[chain[i]]
        BY <1>4, <1>5, <4>2
      <4>4. /\ stage[chain[i]] = "forwarded" <=> i # 1
            /\ i # 1 => by[chain[i]] = chain[i - 1]
        BY <1>1, <3>2 DEF LineInv, LinksOK
      <4> QED
        BY <4>2, <4>3, <4>4
    <3>3. i = Len(chain) + 1 \/ i \in 1..Len(chain)
      BY <1>10
    <3> QED
      BY <3>1, <3>2, <3>3
  <2> QED
    BY <2>1 DEF LinksOK
<1>23. EntryOK(e, st, more)
  BY <1>3, <1>6, <1>10 DEF EntryOK
<1>24. MemoryOK(e, state, st)
  BY <1>1, <1>2, <1>3, <1>4, <1>6 DEF LineInv, MemoryOK
<1>25. ReaderOK(e, state, st, nb, more)
  BY <1>6, <1>8 DEF ReaderOK
<1>26. InvsOK(state, st, more, inv, ack)
  BY <1>1, <1>2, <1>3, <1>4, <1>6, <1>9, <1>10 DEF LineInv, InvsOK
<1>27. AcksOK(e, answers, state, acks, st, nb, more, inv, ack)
  <2>1. \A y \in Cache : acks[y] = acks[y] /\ state[y] = state[y]
                           /\ answers[y] = answers[y] /\ st[y] # "memory"
    BY <1>3, <1>4, <1>6
  <2>2. \A y \in Cache : st[y] = "answered" => stage[y] = "answered" /\ nb[y] = by[y]
    BY <1>4, <1>5
  <2>3. \A y \in Cache : Due(y, more, inv, ack) = Due(y, chain, inv, ack)
    BY <1>3, <1>10 DEF Due
  <2> QED
    BY <1>1, <1>2, <1>3, <1>4, <1>5, <2>1, <2>2, <2>3, AcksTypes, ByTypes DEF LineInv, AcksOK
<1>28. CopiesOK(e, state, st, more, inv)
  <2>1. \A y \in Cache : Holds(y, state, st) => Holds(y, state, stage)
    BY <1>4, <1>6 DEF Holds
  <2> QED
    BY <1>1, <1>3, <1>10, <2>1 DEF LineInv, CopiesOK, Settled
<1>29. SharersOK(e, state, st, more)
  BY <1>10 DEF SharersOK, Settled
<1>30. LineInv(a, sent, arrived1, queued, f, answers, home, e, state, acks,
              st, nb, more, inv, ack)
  BY <1>1, <1>6, <1>11, <1>12, <1>13, <1>14, <1>15, <1>16, <1>17, <1>18,
     <1>19, <1>20, <1>21, <1>22, <1>23, <1>24, <1>25, <1>26, <1>27, <1>28,
     <1>29 DEF LineInv
<1> QED
  BY <1>30, <1>10 DEF LineHolds

(* The directory acknowledges a put that takes no ownership away.          *)
LEMMA PutAcknowledged ==
  ASSUME NEW a \in Addr, NEW sent \in SentType,
         NEW arrived \in SUBSET RequestMsg, NEW queued \in SUBSET MemoryMsg,
         NEW forwards \in ForwardsType(a),
         NEW answers \in AnswersType,
         NEW home \in HomeType, NEW entry \in Entry,
         NEW state \in StateType, NEW acks \in AcksType,
         LineHolds(a, sent, arrived, queued, forwards, answers, home, entry, state, acks),
         EntryConsistent(entry), MemoryConsistent(entry, queued),
         NEW m \in arrived, m.Type \in {"PutS", "PutM"},
         m.Type = "PutM" => m.Requestor \notin entry.Owner,
         NEW e \in Entry, e.Owner = entry.Owner,
         \/ e = entry /\ entry.DirState \in {"I", "M", "M_m", "MI_m"}
         \/ /\ entry.DirState \in {"S", "S_D", "SS_m", "S_m"}
            /\ e.DirState = entry.DirState
            /\ e.Sharers = entry.Sharers \ {m.Requestor}
         \/ /\ entry.DirState = "S" /\ entry.Sharers = {m.Requestor}
            /\ e.DirState = "I" /\ e.Sharers = {},
         NEW arrived1 \in SUBSET RequestMsg, arrived1 = arrived \ {m},
         NEW forwards1 \in ForwardsType(a),
         ChangedAt(forwards, forwards1, m.Requestor,
                   forwards[m.Requestor] \cup {ForwardOf("PutAck", a, Directory)})
  PROVE  LineHolds(a, sent, arrived1, queued, forwards1, answers, home, e, state, acks)
<1>1. PICK stage \in StageType, by \in ByType,
           chain \in Seq(Cache), inv \in SUBSET Cache, ack \in SUBSET Cache :
        LineInv(a, sent, arrived, queued, forwards, answers, home, entry, state, acks,
              stage, by, chain, inv, ack)
  BY DEF LineHolds
<1>2. PICK r \in Cache : /\ r = m.Requestor /\ stage[r] = "arrived"
                         /\ state[r] \in {"MI_A", "SI_A", "II_A"}
                         /\ state[r] = "MI_A" => m.Type = "PutM"
  BY <1>1, MessageTypes DEF LineInv, ArrivedOK, Fits, PutStates
<1>3. /\ \A y \in Cache : InChain(y, chain) <=> Owning(y, state, stage, by)
      /\ state[r] = "MI_A" => Asked(r, stage, by)
  <2>1. \A y \in Cache : InChain(y, chain) <=> Owning(y, state, stage, by)
    BY <1>1 DEF LineInv, OwnersOK
  <2>2. ASSUME state[r] = "MI_A"
        PROVE  Asked(r, stage, by)
    <3>1. PICK i \in 1..Len(chain) : chain[i] = r
      BY <1>2, <2>1, <2>2 DEF Owning, InChain
    <3>2. r \notin entry.Owner
      BY <1>2, <2>2
    <3>3. chain # <<>> /\ Len(chain) \in Nat \ {0}
      BY <3>1
    <3>4. CASE i = Len(chain)
      <4>1. LastOf(chain) = r
        BY <3>1, <3>4 DEF LastOf
      <4> QED
        BY <1>1, <3>2, <3>3, <4>1 DEF LineInv, EntryOK, ReaderOK
    <3>5. CASE i # Len(chain)
      <4>1. i + 1 \in 1..Len(chain) /\ i + 1 # 1 /\ (i + 1) - 1 = i
        BY <3>1, <3>3, <3>5
      <4>2. /\ stage[chain[i + 1]] = "forwarded" /\ by[chain[i + 1]] = chain[i]
            /\ chain[i + 1] \in Cache
        BY <1>1, <4>1 DEF LineInv, LinksOK
      <4> QED
        BY <3>1, <4>2 DEF Asked
    <3> QED
      BY <3>4, <3>5
  <2> QED
    BY <2>1, <2>2
<1>4. /\ \/ e = entry /\ entry.DirState \in {"I", "M", "M_m", "MI_m"}
         \/ /\ entry.DirState \in {"S", "S_D", "SS_m", "S_m"}
            /\ e.DirState = entry.DirState
            /\ e.Sharers = entry.Sharers \ {r} /\ e.Owner = {}
         \/ /\ entry.DirState = "S" /\ entry.Sharers = {r}
            /\ e.DirState = "I" /\ e.Sharers = {}
      /\ entry.DirState = "S" => \A y \in Cache : stage[y] # "memory"
  <2>1. entry.DirState = "S" => \A y \in Cache : stage[y] # "memory"
    BY <1>1 DEF LineInv, MemoryOK
  <2>2. entry.DirState \in {"S", "S_D", "SS_m", "S_m"} => e.Owner = {}
    BY DEF EntryConsistent
  <2> QED
    BY <1>2, <2>1, <2>2
<1>5. PICK st \in StageType : /\ st[r] = "acked"
                             /\ \A y \in Cache : y # r => st[y] = stage[y]
  <2>1. [stage EXCEPT ![r] = "acked"] \in StageType
    BY DEF StageType, Stage
  <2> QED
    BY <2>1 DEF StageType
<1>6. /\ forwards1[r] = forwards[r] \cup {ForwardOf("PutAck", a, Directory)}
      /\ \A y \in Cache : y # r => forwards1[y] = forwards[y]
      /\ arrived1 = arrived \ {m}
  BY <1>2 DEF ChangedAt
<1>7. \A type, y : ForwardOf(type, a, y).Type = type /\ ForwardOf(type, a, y).Requestor = y
  BY DEF ForwardOf
<1>8. \A y \in Cache : \A n \in forwards1[y] :
        n.Type # "PutAck" \/ y # r => n \in forwards[y]
  BY <1>6, <1>7
<1>9. /\ \A y \in Cache : Asked(y, st, by) <=> Asked(y, stage, by)
      /\ \A y \in Cache : Reads(y, state, st) <=> Reads(y, state, stage)
  BY <1>2, <1>5, <1>6 DEF Asked, Reads
<1>10. /\ \A i \in 1..Len(chain) : chain[i] \in Cache
       /\ chain # <<>> => chain[1] \in Cache /\ LastOf(chain) \in Cache
  BY DEF LastOf
<1>11. SentOK(sent, state, st)
  BY <1>1, <1>2, <1>5, <1>6 DEF LineInv, SentOK
<1>12. ArrivedOK(arrived1, state, st)
  BY <1>1, <1>2, <1>5, <1>6, MessageTypes DEF LineInv, ArrivedOK
<1>13. QueuedOK(queued, st)
  BY <1>1, <1>2, <1>5, <1>6, MessageTypes DEF LineInv, QueuedOK
<1>14. AskedOK(a, forwards1, state, st, by)
  <2>1. \A d \in Cache : \A n \in forwards1[d] :
          n.Type \in {"GetS", "GetM"} =>
            /\ n \in forwards[d] /\ n.Requestor \in Cache /\ n.Requestor # r
            /\ stage[n.Requestor] = "forwarded" /\ by[n.Requestor] = d
            /\ Fits(n.Type, state[n.Requestor])
    BY <1>1, <1>2, <1>8, ForwardTypes DEF LineInv, AskedOK
  <2>2. \A d \in Cache : \A n \in forwards[d] : n \in forwards1[d]
    BY <1>6
  <2> QED
    BY <1>1, <1>2, <1>5, <1>6, <2>1, <2>2 DEF LineInv, AskedOK
<1>15. AckedOK(a, forwards1, st)
  BY <1>1, <1>2, <1>5, <1>6, <1>7, <1>8 DEF LineInv, AckedOK
<1>16. InvSentOK(a, forwards1, chain, inv)
  BY <1>1, <1>2, <1>5, <1>6, <1>7, <1>8 DEF LineInv, InvSentOK
<1>17. DataSentOK(answers, st, by)
  BY <1>1, <1>2, <1>5, <1>6, ByTypes DEF LineInv, DataSentOK
<1>18. HomeOK(home, e, chain)
  BY <1>1, <1>4, <1>6 DEF LineInv, HomeOK
<1>19. StageOK(state, st)
  BY <1>1, <1>2, <1>5, <1>6 DEF LineInv, StageOK, PutStates, GetStates
<1>20. OwnersOK(state, st, by, chain)
  BY <1>1, <1>2, <1>3, <1>5, <1>6, <1>9 DEF LineInv, OwnersOK, Owning
<1>21. LinksOK(st, by, chain)
  BY <1>1, <1>2, <1>5, <1>10 DEF LineInv, LinksOK
<1>22. EntryOK(e, st, chain)
  <2>1. entry.DirState = "M_m" => chain[1] # r /\ chain[1] \in Cache
    BY <1>1, <1>2, <1>10 DEF LineInv, EntryOK
  <2>2. e.DirState \in {"M", "M_m"} => e = entry
    BY <1>4
  <2>3. chain # <<>> => e.DirState = entry.DirState
    BY <1>1, <1>4 DEF LineInv, EntryOK
  <2> QED
    BY <1>1, <1>5, <1>6, <2>1, <2>2, <2>3 DEF LineInv, EntryOK
<1>23. MemoryOK(e, state, st)
  BY <1>1, <1>2, <1>4, <1>5, <1>6 DEF LineInv, MemoryOK
<1>24. ReaderOK(e, state, st, by, chain)
  <2>1. e.DirState = "S_D" <=> entry.DirState = "S_D"
    BY <1>4
  <2>2. entry.DirState = "S_D" => \A y : y \in e.Sharers <=> y \in entry.Sharers /\ y # r
    BY <1>4
  <2>3. ASSUME NEW c \in Cache, Reads(c, state, st)
        PROVE  /\ e.DirState = "S_D" /\ chain # <<>> /\ by[c] = LastOf(chain)
               /\ c \in e.Sharers
               /\ \A d \in Cache : Reads(d, state, st) => c = d
    <3>1. c # r
      BY <1>5, <2>3 DEF Reads
    <3> QED
      BY <1>1, <1>9, <2>1, <2>2, <2>3, <3>1 DEF LineInv, ReaderOK
  <2>4. ASSUME e.DirState = "S_D", chain # <<>>
        PROVE  /\ Asked(LastOf(chain), st, by)
               /\ LastOf(chain) \in e.Sharers <=> st[LastOf(chain)] # "acked"
               /\ \A c \in e.Sharers : c = LastOf(chain) \/ Reads(c, state, st)
    <3>1. /\ Asked(LastOf(chain), stage, by)
          /\ LastOf(chain) \in entry.Sharers <=> stage[LastOf(chain)] # "acked"
          /\ \A c \in entry.Sharers : c = LastOf(chain) \/ Reads(c, state, stage)
      BY <1>1, <2>1, <2>4 DEF LineInv, ReaderOK
    <3>2. LastOf(chain) \in e.Sharers <=> st[LastOf(chain)] # "acked"
      BY <1>5, <1>10, <2>1, <2>2, <2>4, <3>1
    <3> QED
      BY <1>9, <1>10, <2>1, <2>2, <2>4, <3>1, <3>2, EntryTypes
  <2> QED
    BY <1>6, <2>3, <2>4 DEF ReaderOK
<1>25. InvsOK(state, st, chain, inv, ack)
  BY <1>1, <1>2, <1>5, <1>6, <1>10 DEF LineInv, InvsOK
<1>26. AcksOK(e, answers, state, acks, st, by, chain, inv, ack)
  <2>1. \A y \in Cache : stage[y] = "memory" => AcksFor(e, y) = AcksFor(entry, y)
    BY <1>4, <1>6 DEF AcksFor
  <2>2. \A y \in Cache : /\ st[y] = "memory" <=> stage[y] = "memory"
                         /\ st[y] = "answered" <=> stage[y] = "answered"
    BY <1>2, <1>5
  <2> QED
    BY <1>1, <1>6, <2>1, <2>2, AcksTypes, ByTypes DEF LineInv, AcksOK
<1>27. CopiesOK(e, state, st, chain, inv)
  <2>1. \A y \in Cache : Holds(y, state, st) => Holds(y, state, stage) /\ y # r
    BY <1>2, <1>5, <1>6 DEF Holds
  <2>2. Settled(entry, chain) =>
          \A y : y # r /\ y \in entry.Sharers => Settled(e, chain) /\ y \in e.Sharers
    BY <1>4 DEF Settled
  <2> QED
    BY <1>1, <1>6, <2>1, <2>2 DEF LineInv, CopiesOK
<1>28. SharersOK(e, state, st, chain)
  <2>1. Settled(e, chain) => /\ Settled(entry, chain)
                             /\ \A y \in e.Sharers : y # r /\ y \in entry.Sharers
    BY <1>4 DEF Settled
  <2> QED
    BY <1>1, <1>5, <1>6, <2>1, EntryTypes DEF LineInv, SharersOK
<1>29. LineInv(a, sent, arrived1, queued, forwards1, answers, home, e, state, acks,
              st, by, chain, inv, ack)
  BY <1>1, <1>6, <1>11, <1>12, <1>13, <1>14, <1>15, <1>16, <1>17, <1>18,
     <1>19, <1>20, <1>21, <1>22, <1>23, <1>24, <1>25, <1>26, <1>27, <1>28 DEF
     LineInv
<1> QED
  BY <1>29 DEF LineHolds

(* The directory takes the line back from its owner.                       *)
LEMMA OwnerPuts ==
  ASSUME NEW a \in Addr, NEW sent \in SentType,
         NEW arrived \in SUBSET RequestMsg, NEW queued \in SUBSET MemoryMsg,
         NEW forwards \in ForwardsType(a),
         NEW answers \in AnswersType,
         NEW home \in HomeType, NEW entry \in Entry,
         NEW state \in StateType, NEW acks \in AcksType,
         LineHolds(a, sent, arrived, queued, forwards, answers, home, entry, state, acks),
         EntryConsistent(entry), MemoryConsistent(entry, queued),
         NEW m \in arrived, m.Type = "PutM", entry.DirState = "M",
         m.Requestor \in entry.Owner, NEW q \in MemoryMsg, q.Type = "MEMORY_WB",
         NEW e \in Entry, e.DirState = "MI_m",
         NEW arrived1 \in SUBSET RequestMsg, arrived1 = arrived \ {m},
         NEW queued1 \in SUBSET MemoryMsg, queued1 = queued \cup {q},
         NEW forwards1 \in ForwardsType(a),
         ChangedAt(forwards, forwards1, m.Requestor,
                   forwards[m.Requestor] \cup {ForwardOf("PutAck", a, Directory)})
  PROVE  LineHolds(a, sent, arrived1, queued1, forwards1, answers, home, e, state, acks)
<1>1. PICK stage \in StageType, by \in ByType,
           chain \in Seq(Cache), inv \in SUBSET Cache, ack \in SUBSET Cache :
        LineInv(a, sent, arrived, queued, forwards, answers, home, entry, state, acks,
              stage, by, chain, inv, ack)
  BY DEF LineHolds
<1>2. PICK r \in Cache : /\ r = m.Requestor /\ stage[r] = "arrived"
                         /\ state[r] \in {"MI_A", "SI_A", "II_A"}
  BY <1>1, MessageTypes DEF LineInv, ArrivedOK, Fits, PutStates
<1>3. /\ chain # <<>> /\ chain[1] = r /\ state[r] = "MI_A" /\ inv = {} /\ ack = {}
      /\ ~Asked(r, stage, by)
      /\ \A y \in Cache : ~Reads(y, state, stage) /\ stage[y] # "memory"
      /\ \A y \in Cache : y # r => ~Owning(y, state, stage, by)
      /\ <<>> \in Seq(Cache) /\ \A y : ~InChain(y, <<>>)
  <2>1. /\ chain # <<>> /\ Len(chain) \in Nat \ {0} /\ LastOf(chain) \in Cache
        /\ entry.Owner = {LastOf(chain)}
        /\ ~Asked(LastOf(chain), stage, by) /\ stage[LastOf(chain)] # "acked"
        /\ \A y \in Cache : ~Reads(y, state, stage) /\ stage[y] # "memory"
    BY <1>1, OwnerUnasked DEF LineInv
  <2>2. /\ LastOf(chain) = r /\ InChain(r, chain) /\ Len(chain) \in 1..Len(chain)
    BY <1>2, <2>1 DEF LastOf, InChain
  <2>3. Owning(r, state, stage, by) /\ state[r] = "MI_A"
    BY <1>1, <1>2, <2>2 DEF LineInv, OwnersOK, Owning
  <2>4. chain[1] = r
    BY <1>1, <1>2, <2>3, FirstOfChain DEF LineInv
  <2>5. 1 \in 1..Len(chain) /\ chain[Len(chain)] = chain[1]
    BY <2>1, <2>2, <2>4 DEF LastOf
  <2>6. Len(chain) = 1
    BY <1>1, <2>2, <2>5 DEF LineInv, OwnersOK
  <2>7. \A y \in Cache : y # r => ~Owning(y, state, stage, by)
    BY <1>1, <2>4, <2>6 DEF LineInv, OwnersOK, InChain
  <2>8. inv = {} /\ ack = {}
    BY <1>1, <2>3, <2>4 DEF LineInv, InvsOK, Stalled
  <2>9. <<>> \in Seq(Cache) /\ \A y : ~InChain(y, <<>>)
    BY DEF InChain
  <2> QED
    BY <2>1, <2>2, <2>3, <2>4, <2>7, <2>8, <2>9
<1>4. PICK st \in StageType : /\ st[r] = "acked"
                             /\ \A y \in Cache : y # r => st[y] = stage[y]
  <2>1. [stage EXCEPT ![r] = "acked"] \in StageType
    BY DEF StageType, Stage
  <2> QED
    BY <2>1 DEF StageType
<1>5. /\ forwards1[r] = forwards[r] \cup {ForwardOf("PutAck", a, Directory)}
      /\ \A y \in Cache : y # r => forwards1[y] = forwards[y]
      /\ arrived1 = arrived \ {m}
      /\ queued1 = queued \cup {q}
  BY <1>2 DEF ChangedAt
<1>6. \A type, y : ForwardOf(type, a, y).Type = type /\ ForwardOf(type, a, y).Requestor = y
  BY DEF ForwardOf
<1>7. \A y \in Cache : \A n \in forwards1[y] :
        n.Type # "PutAck" \/ y # r => n \in forwards[y]
  BY <1>5, <1>6
<1>8. /\ \A y \in Cache : Asked(y, st, by) <=> Asked(y, stage, by)
      /\ \A y \in Cache : ~Reads(y, state, st)
  BY <1>2, <1>3, <1>4, <1>5 DEF Asked, Reads
<1>9. SentOK(sent, state, st)
  BY <1>1, <1>2, <1>4, <1>5 DEF LineInv, SentOK
<1>10. ArrivedOK(arrived1, state, st)
  BY <1>1, <1>2, <1>4, <1>5, MessageTypes DEF LineInv, ArrivedOK
<1>11. QueuedOK(queued1, st)
  BY <1>1, <1>2, <1>4, <1>5, MessageTypes DEF LineInv, QueuedOK
<1>12. AskedOK(a, forwards1, state, st, by)
  <2>1. \A d \in Cache : \A n \in forwards1[d] :
          n.Type \in {"GetS", "GetM"} =>
            /\ n \in forwards[d] /\ n.Requestor \in Cache /\ n.Requestor # r
            /\ stage[n.Requestor] = "forwarded" /\ by[n.Requestor] = d
            /\ Fits(n.Type, state[n.Requestor])
    BY <1>1, <1>2, <1>7, ForwardTypes DEF LineInv, AskedOK
  <2>2. \A d \in Cache : \A n \in forwards[d] : n \in forwards1[d]
    BY <1>5
  <2> QED
    BY <1>1, <1>2, <1>4, <1>5, <2>1, <2>2 DEF LineInv, AskedOK
<1>13. AckedOK(a, forwards1, st)
  BY <1>1, <1>2, <1>4, <1>5, <1>6 DEF LineInv, AckedOK
<1>14. InvSentOK(a, forwards1, <<>>, {})
  <2>1. \A y \in Cache : \A n \in forwards[y] : n.Type # "Inv"
    BY <1>1, <1>3 DEF LineInv, InvSentOK
  <2> QED
    BY <1>5, <1>6, <1>7, <2>1 DEF InvSentOK
<1>15. DataSentOK(answers, st, by)
  BY <1>1, <1>2, <1>4, <1>5, ByTypes DEF LineInv, DataSentOK
<1>16. InvAckSentOK(answers, <<>>, {})
  BY <1>1, <1>3, <1>5 DEF LineInv, InvAckSentOK
<1>17. HomeOK(home, e, <<>>)
  BY <1>1, <1>3, <1>5 DEF LineInv, HomeOK
<1>18. StageOK(state, st)
  BY <1>1, <1>2, <1>4, <1>5 DEF LineInv, StageOK, PutStates, GetStates
<1>19. OwnersOK(state, st, by, <<>>)
  <2>1. \A y \in Cache : ~Owning(y, state, st, by)
    BY <1>3, <1>4, <1>5, <1>8 DEF Owning
  <2> QED
    BY <1>3, <2>1 DEF OwnersOK
<1>20. LinksOK(st, by, <<>>)
  BY DEF LinksOK
<1>21. EntryOK(e, st, <<>>)
  BY <1>5 DEF EntryOK
<1>22. MemoryOK(e, state, st)
  BY <1>3, <1>4 DEF MemoryOK
<1>23. ReaderOK(e, state, st, by, <<>>)
  BY <1>8 DEF ReaderOK
<1>24. InvsOK(state, st, <<>>, {}, {})
  BY DEF InvsOK
<1>25. AcksOK(e, answers, state, acks, st, by, <<>>, {}, {})
  <2>1. \A y \in Cache : Due(y, chain, inv, ack) = 0 /\ Due(y, <<>>, {}, {}) = 0
    <3>1. Cardinality({}) = 0 /\ inv \cup ack = {}
      BY <1>3, FS_EmptySet
    <3> QED
      BY <3>1 DEF Due
  <2>2. \A y \in Cache : st[y] # "memory" /\ (st[y] = "answered" <=> stage[y] = "answered")
    BY <1>2, <1>3, <1>4
  <2> QED
    BY <1>1, <1>3, <1>5, <2>1, <2>2, AcksTypes, ByTypes DEF LineInv, AcksOK
<1>26. CopiesOK(e, state, st, <<>>, {})
  <2>1. \A y \in Cache : ~Holds(y, state, stage)
    BY <1>1, <1>3 DEF LineInv, CopiesOK, Settled, Holds
  <2>2. \A y \in Cache : ~Holds(y, state, st)
    BY <1>3, <1>4, <1>5, <2>1 DEF Holds
  <2> QED
    BY <2>2 DEF CopiesOK
<1>27. SharersOK(e, state, st, <<>>)
  BY <1>5 DEF SharersOK, Settled
<1>28. LineInv(a, sent, arrived1, queued1, forwards1, answers, home, e, state, acks,
              st, by, <<>>, {}, {})
  BY <1>1, <1>5, <1>9, <1>10, <1>11, <1>12, <1>13, <1>14, <1>15, <1>16,
     <1>17, <1>18, <1>19, <1>20, <1>21, <1>22, <1>23, <1>24, <1>25, <1>26,
     <1>27 DEF LineInv
<1> QED
  BY <1>28, <1>3 DEF LineHolds

(* The old owner's copy reaches the directory.                             *)
LEMMA HomeData ==
  ASSUME NEW a \in Addr, NEW sent \in SentType,
         NEW arrived \in SUBSET RequestMsg, NEW queued \in SUBSET MemoryMsg,
         NEW forwards \in ForwardsType(a),
         NEW answers \in AnswersType,
         NEW home \in HomeType, NEW entry \in Entry,
         NEW state \in StateType, NEW acks \in AcksType,
         LineHolds(a, sent, arrived, queued, forwards, answers, home, entry, state, acks),
         EntryConsistent(entry), MemoryConsistent(entry, queued),
         NEW c \in Cache, NEW m \in home[c], entry.DirState = "S_D",
         NEW q \in MemoryMsg, q.Type = "MEMORY_WB",
         NEW e \in Entry, e.DirState = "SS_m", e.Owner = entry.Owner,
         e.Sharers = entry.Sharers,
         NEW home1 \in HomeType,
         ChangedAt(home, home1, c, home[c] \ {m}),
         NEW queued1 \in SUBSET MemoryMsg, queued1 = queued \cup {q}
  PROVE  LineHolds(a, sent, arrived, queued1, forwards, answers, home1, e, state, acks)
<1>1. PICK stage \in StageType, by \in ByType,
           chain \in Seq(Cache), inv \in SUBSET Cache, ack \in SUBSET Cache :
        LineInv(a, sent, arrived, queued, forwards, answers, home, entry, state, acks,
              stage, by, chain, inv, ack)
  BY DEF LineHolds
<1>2. /\ chain = <<>> /\ \A y \in Cache : ~Reads(y, state, stage) /\ stage[y] # "memory"
      /\ \A y \in Cache : \A n \in home[y] : y = c /\ n = m
  <2>1. chain = <<>> /\ \A y \in Cache : \A n \in home[y] : y = c /\ n = m
    BY <1>1 DEF LineInv, HomeOK
  <2>2. \A y \in Cache : ~Reads(y, state, stage) /\ stage[y] # "memory"
    BY <1>1, <2>1 DEF LineInv, ReaderOK, MemoryOK
  <2> QED
    BY <2>1, <2>2
<1>3. /\ home1[c] = home[c] \ {m} /\ \A y \in Cache : y # c => home1[y] = home[y]
      /\ queued1 = queued \cup {q}
  BY DEF ChangedAt
<1>4. QueuedOK(queued1, stage)
  BY <1>1, <1>2, <1>3, MessageTypes DEF LineInv, QueuedOK
<1>5. HomeOK(home1, e, chain)
  <2>1. \A y \in Cache : home1[y] = {}
    BY <1>2, <1>3
  <2> QED
    BY <1>3, <2>1 DEF HomeOK
<1>6. EntryOK(e, stage, chain)
  BY <1>2, <1>3 DEF EntryOK
<1>7. MemoryOK(e, state, stage)
  BY <1>2 DEF MemoryOK
<1>8. ReaderOK(e, state, stage, by, chain)
  BY <1>2, <1>3 DEF ReaderOK
<1>9. AcksOK(e, answers, state, acks, stage, by, chain, inv, ack)
  BY <1>1, <1>2, <1>3, AcksTypes, ByTypes DEF LineInv, AcksOK
<1>10. CopiesOK(e, state, stage, chain, inv)
  <2>1. Settled(entry, chain) <=> Settled(e, chain)
    BY DEF Settled
  <2> QED
    BY <1>1, <1>3, <2>1 DEF LineInv, CopiesOK
<1>11. SharersOK(e, state, stage, chain)
  <2>1. Settled(entry, chain) <=> Settled(e, chain)
    BY DEF Settled
  <2> QED
    BY <1>1, <1>3, <2>1 DEF LineInv, SharersOK
<1>12. LineInv(a, sent, arrived, queued1, forwards, answers, home1, e, state, acks,
              stage, by, chain, inv, ack)
  BY <1>1, <1>3, <1>4, <1>5, <1>6, <1>7, <1>8, <1>9, <1>10, <1>11 DEF LineInv
<1> QED
  BY <1>12 DEF LineHolds

(* Memory answers a read: the directory sends the data.                    *)
LEMMA MemoryAnswers ==
  ASSUME NEW a \in Addr, NEW sent \in SentType,
         NEW arrived \in SUBSET RequestMsg, NEW queued \in SUBSET MemoryMsg,
         NEW forwards \in ForwardsType(a),
         NEW answers \in AnswersType,
         NEW home \in HomeType, NEW entry \in Entry,
         NEW state \in StateType, NEW acks \in AcksType,
         LineHolds(a, sent, arrived, queued, forwards, answers, home, entry, state, acks),
         EntryConsistent(entry), MemoryConsistent(entry, queued),
         NEW m \in queued, m.Type = "MEMORY_READ", entry.DirState \in {"S_m", "M_m"},
         NEW d \in ResponseMsg, d.Type = "Data", d.Sender = Directory,
         d.Acks = AcksFor(entry, m.OriginalRequestor),
         NEW e \in Entry, e.Owner = entry.Owner,
         \/ entry.DirState = "S_m" /\ e.DirState = "S" /\ e.Sharers = entry.Sharers
         \/ entry.DirState = "M_m" /\ e.DirState = "M",
         NEW queued1 \in SUBSET MemoryMsg, queued1 = queued \ {m},
         NEW answers1 \in AnswersType,
         PairChangedAt(answers, answers1, m.OriginalRequestor, Directory,
                       answers[m.OriginalRequestor][Directory] \cup {d})
  PROVE  LineHolds(a, sent, arrived, queued1, forwards, answers1, home, e, state, acks)
<1>1. PICK stage \in StageType, by \in ByType,
           chain \in Seq(Cache), inv \in SUBSET Cache, ack \in SUBSET Cache :
        LineInv(a, sent, arrived, queued, forwards, answers, home, entry, state, acks,
              stage, by, chain, inv, ack)
  BY DEF LineHolds
<1>2. PICK r \in Cache : /\ r = m.OriginalRequestor /\ stage[r] = "memory"
                         /\ queued = {m}
                         /\ state[r] \in GetStates
  <2>1. queued = {m}
    BY DEF MemoryConsistent
  <2> QED
    BY <1>1, <2>1, MessageTypes DEF LineInv, QueuedOK, StageOK
<1>3. /\ \A y \in Cache : stage[y] = "memory" => y = r
      /\ \A y \in Cache : ~Reads(y, state, stage)
      /\ entry.DirState = "S_m" => chain = <<>> /\ state[r] = "IS_D"
      /\ entry.DirState = "M_m" =>
           /\ chain # <<>> /\ Len(chain) = 1 /\ chain[1] = r /\ LastOf(chain) = r
           /\ state[r] # "IS_D" /\ entry.Owner = {r}
      /\ \A i \in 1..Len(chain) : chain[i] \in Cache
  <2>1. \A y \in Cache : stage[y] = "memory" => y = r
    BY <1>1, <1>2 DEF LineInv, QueuedOK
  <2>2. \A y \in Cache : ~Reads(y, state, stage)
    BY <1>1 DEF LineInv, ReaderOK
  <2>3. entry.DirState = "S_m" => chain = <<>> /\ state[r] = "IS_D"
    BY <1>1, <1>2 DEF LineInv, EntryOK, MemoryOK
  <2>4. \A i \in 1..Len(chain) : chain[i] \in Cache
    OBVIOUS
  <2>5. ASSUME entry.DirState = "M_m"
        PROVE  /\ chain # <<>> /\ Len(chain) = 1 /\ chain[1] = r /\ LastOf(chain) = r
               /\ state[r] # "IS_D" /\ entry.Owner = {r}
    <3>1. chain # <<>> /\ Len(chain) = 1 /\ stage[chain[1]] = "memory"
          /\ entry.Owner = {LastOf(chain)}
      BY <1>1, <2>5 DEF LineInv, EntryOK
    <3>2. state[r] # "IS_D"
      BY <1>1, <1>2, <2>5 DEF LineInv, MemoryOK
    <3>3. chain[1] \in Cache
      BY <2>4, <3>1
    <3> QED
      BY <2>1, <3>1, <3>2, <3>3 DEF LastOf
  <2> QED
    BY <2>1, <2>2, <2>3, <2>4, <2>5
<1>4. PICK st \in StageType : /\ st[r] = "answered"
                             /\ \A y \in Cache : y # r => st[y] = stage[y]
  <2>1. [stage EXCEPT ![r] = "answered"] \in StageType
    BY DEF StageType, Stage
  <2> QED
    BY <2>1 DEF StageType
<1>5. PICK nb \in ByType : /\ nb[r] = Directory
                          /\ \A y \in Cache : y # r => nb[y] = by[y]
  <2>1. /\ [by EXCEPT ![r] = Directory] \in ByType
        /\ [by EXCEPT ![r] = Directory][r] = Directory
        /\ \A y \in Cache : y # r => [by EXCEPT ![r] = Directory][y] = by[y]
    BY DEF Machine, ByType
  <2> QED
    BY <2>1
<1>6. /\ answers1[r][Directory] = answers[r][Directory] \cup {d}
      /\ \A y \in Cache, z \in Machine :
           y # r \/ z # Directory => answers1[y][z] = answers[y][z]
      /\ queued1 = queued \ {m}
  BY <1>2 DEF PairChangedAt
<1>7. \A n \in answers1[r][Directory] : n = d
  <2>1. \A n \in answers[r][Directory] : n.Type # "Data"
    BY <1>1, <1>2 DEF LineInv, DataSentOK, Machine
  <2>2. \A n \in answers[r][Directory] : n.Type = "Data"
    BY <1>1 DEF LineInv, ResponsesOK, Machine
  <2> QED
    BY <1>6, <2>1, <2>2
<1>8. /\ \A y \in Cache : Asked(y, st, nb) <=> Asked(y, stage, by)
      /\ \A y \in Cache : ~Reads(y, state, st)
  BY <1>2, <1>3, <1>4, <1>5, <1>6 DEF Asked, Reads
<1>9. SentOK(sent, state, st)
  BY <1>1, <1>2, <1>4, <1>6 DEF LineInv, SentOK
<1>10. ArrivedOK(arrived, state, st)
  BY <1>1, <1>2, <1>4, <1>6, MessageTypes DEF LineInv, ArrivedOK
<1>11. QueuedOK(queued1, st)
  BY <1>1, <1>2, <1>3, <1>4, <1>5, <1>6, <1>7, MessageTypes DEF LineInv,
     QueuedOK
<1>12. AskedOK(a, forwards, state, st, nb)
  BY <1>1, <1>2, <1>4, <1>5, <1>6, ForwardTypes DEF LineInv, AskedOK
<1>13. AckedOK(a, forwards, st)
  BY <1>1, <1>2, <1>4, <1>6 DEF LineInv, AckedOK
<1>14. ResponsesOK(answers1)
  <2>1. \A c \in Cache, s \in Machine :
          c # r \/ s # Directory => answers1[c][s] = answers[c][s]
    BY <1>6
  <2> QED
    BY <1>1, <1>7, <2>1 DEF LineInv, ResponsesOK
<1>15. DataSentOK(answers1, st, nb)
  <2>1. \A s \in Machine : \A n \in answers[r][s] : n.Type # "Data"
    BY <1>1, <1>2, ByTypes DEF LineInv, DataSentOK
  <2>2. d \in answers1[r][Directory] /\ Directory \in Machine
    BY <1>6 DEF Machine
  <2>3. \A s \in Machine : \A n \in answers1[r][s] : n.Type = "Data" => s = Directory
    BY <1>6, <2>1
  <2>4. \A y \in Cache : y # r =>
          /\ \A s \in Machine : \A n \in answers1[y][s] :
               n.Type = "Data" => stage[y] = "answered" /\ by[y] = s
          /\ stage[y] = "answered" => \E n \in answers1[y][by[y]] : n.Type = "Data"
    BY <1>1, <1>6, ByTypes DEF LineInv, DataSentOK
  <2> QED
    BY <1>4, <1>5, <2>2, <2>3, <2>4 DEF DataSentOK
<1>16. InvAckSentOK(answers1, chain, ack)
  <2>1. \A c \in Cache, s \in Machine : \A n \in answers1[c][s] :
          n.Type = "InvAck" => n \in answers[c][s]
    BY <1>6
  <2>2. \A s \in ack : s # Directory /\ s \in Machine
    BY MSIConstants DEF MSIConstants, Machine
  <2>3. \A s \in ack : chain[1] \in Cache /\ chain # <<>>
    <3>1. ack # {} => chain # <<>>
      BY <1>1 DEF LineInv, InvsOK
    <3> QED
      BY <1>3, <3>1
  <2>4. \A s \in ack : answers1[chain[1]][s] = answers[chain[1]][s]
    BY <1>6, <2>2, <2>3
  <2> QED
    BY <1>1, <2>1, <2>4 DEF LineInv, InvAckSentOK
<1>17. HomeOK(home, e, chain)
  BY <1>1, <1>3, <1>6 DEF LineInv, HomeOK
<1>18. StageOK(state, st)
  BY <1>1, <1>2, <1>3, <1>4, <1>5, <1>6, <1>7 DEF LineInv, StageOK, GetStates
<1>19. OwnersOK(state, st, nb, chain)
  BY <1>1, <1>2, <1>4, <1>6, <1>8 DEF LineInv, OwnersOK, Owning
<1>20. LinksOK(st, nb, chain)
  <2>1. Len(chain) = 1 \/ chain = <<>>
    BY <1>3
  <2>2. \A i \in 1..Len(chain) : i = 1 /\ chain[i] = r
    <3>1. chain = <<>> => 1..Len(chain) = {}
      OBVIOUS
    <3> QED
      BY <1>3, <2>1, <3>1
  <2> QED
    BY <1>4, <2>2 DEF LinksOK
<1>21. EntryOK(e, st, chain)
  BY <1>3, <1>6 DEF EntryOK
<1>22. MemoryOK(e, state, st)
  BY <1>1, <1>2, <1>3, <1>4 DEF LineInv, MemoryOK
<1>23. ReaderOK(e, state, st, nb, chain)
  BY <1>3, <1>6, <1>8 DEF ReaderOK
<1>24. InvsOK(state, st, chain, inv, ack)
  BY <1>1, <1>2, <1>4, <1>6 DEF LineInv, InvsOK
<1>25. AcksOK(e, answers1, state, acks, st, nb, chain, inv, ack)
  <2>1. acks[r] + d.Acks = Due(r, chain, inv, ack)
    BY <1>1, <1>2, AcksTypes, ByTypes DEF LineInv, AcksOK
  <2>2. \A y \in Cache : y # r => answers1[y][Directory] = answers[y][Directory]
    BY <1>6 DEF Machine
  <2>3. \A y \in Cache : st[y] # "memory"
    BY <1>3, <1>4
  <2>4. ASSUME NEW y \in Cache, y # r
        PROVE  /\ stage[y] = "answered" /\ nb[y] = Directory =>
                    \A n \in answers1[y][Directory] :
                      acks[y] + n.Acks = Due(y, chain, inv, ack)
               /\ \/ stage[y] = "answered" /\ nb[y] = Directory
                  \/ acks[y] = Due(y, chain, inv, ack)
               /\ state[y] \in {"IM_AD", "SM_AD"} => acks[y] <= 0
    BY <1>1, <1>3, <1>5, <1>6, <2>2, <2>4, AcksTypes, ByTypes DEF LineInv, AcksOK
  <2>5. state[r] \in {"IM_AD", "SM_AD"} => acks[r] <= 0
    BY <1>1, <1>6, AcksTypes, ByTypes DEF LineInv, AcksOK
  <2>6. \A n \in answers1[r][Directory] : acks[r] + n.Acks = Due(r, chain, inv, ack)
    BY <1>6, <1>7, <2>1
  <2> QED
    BY <1>4, <1>5, <2>3, <2>4, <2>5, <2>6 DEF AcksOK
<1>26. CopiesOK(e, state, st, chain, inv)
  <2>1. \A y \in Cache : Holds(y, state, st) <=> Holds(y, state, stage)
    BY <1>2, <1>4, <1>6 DEF Holds
  <2>2. Settled(entry, chain) => Settled(e, chain) /\ e.Sharers = entry.Sharers
    BY DEF Settled
  <2> QED
    BY <1>1, <1>6, <2>1, <2>2 DEF LineInv, CopiesOK
<1>27. SharersOK(e, state, st, chain)
  <2>1. Settled(e, chain) => Settled(entry, chain) /\ e.Sharers = entry.Sharers
    BY DEF Settled
  <2> QED
    BY <1>1, <1>2, <1>4, <1>6, <2>1, EntryTypes DEF LineInv, SharersOK
<1>28. LineInv(a, sent, arrived, queued1, forwards, answers1, home, e, state, acks,
              st, nb, chain, inv, ack)
  BY <1>1, <1>6, <1>9, <1>10, <1>11, <1>12, <1>13, <1>14, <1>15, <1>16,
     <1>17, <1>18, <1>19, <1>20, <1>21, <1>22, <1>23, <1>24, <1>25, <1>26,
     <1>27 DEF LineInv
<1> QED
  BY <1>28 DEF LineHolds

(* Memory has written the line.                                            *)
LEMMA MemoryWritten ==
  ASSUME NEW a \in Addr, NEW sent \in SentType,
         NEW arrived \in SUBSET RequestMsg, NEW queued \in SUBSET MemoryMsg,
         NEW forwards \in ForwardsType(a),
         NEW answers \in AnswersType,
         NEW home \in HomeType, NEW entry \in Entry,
         NEW state \in StateType, NEW acks \in AcksType,
         LineHolds(a, sent, arrived, queued, forwards, answers, home, entry, state, acks),
         EntryConsistent(entry), MemoryConsistent(entry, queued),
         NEW m \in queued, m.Type = "MEMORY_WB", NEW e \in Entry, e.Owner = entry.Owner,
         e.Sharers = entry.Sharers,
         \/ entry.DirState = "MI_m" /\ e.DirState = "I"
         \/ entry.DirState = "SS_m" /\ e.DirState = "S",
         NEW queued1 \in SUBSET MemoryMsg, queued1 = queued \ {m}
  PROVE  LineHolds(a, sent, arrived, queued1, forwards, answers, home, e, state, acks)
<1>1. PICK stage \in StageType, by \in ByType,
           chain \in Seq(Cache), inv \in SUBSET Cache, ack \in SUBSET Cache :
        LineInv(a, sent, arrived, queued, forwards, answers, home, entry, state, acks,
              stage, by, chain, inv, ack)
  BY DEF LineHolds
<1>2. /\ chain = <<>> /\ \A y \in Cache : ~Reads(y, state, stage) /\ stage[y] # "memory"
      /\ Settled(entry, chain) <=> Settled(e, chain)
  <2>1. chain = <<>>
    BY <1>1 DEF LineInv, EntryOK
  <2>2. \A y \in Cache : ~Reads(y, state, stage) /\ stage[y] # "memory"
    BY <1>1, <2>1 DEF LineInv, ReaderOK, MemoryOK
  <2> QED
    BY <2>1, <2>2 DEF Settled
<1>3. /\ queued1 = queued \ {m}
  OBVIOUS
<1>4. QueuedOK(queued1, stage)
  BY <1>1, <1>2, <1>3, MessageTypes DEF LineInv, QueuedOK
<1>5. HomeOK(home, e, chain)
  BY <1>1, <1>2, <1>3 DEF LineInv, HomeOK
<1>6. EntryOK(e, stage, chain)
  BY <1>2, <1>3 DEF EntryOK
<1>7. MemoryOK(e, state, stage)
  BY <1>2 DEF MemoryOK
<1>8. ReaderOK(e, state, stage, by, chain)
  BY <1>2, <1>3 DEF ReaderOK
<1>9. AcksOK(e, answers, state, acks, stage, by, chain, inv, ack)
  BY <1>1, <1>2, <1>3, AcksTypes, ByTypes DEF LineInv, AcksOK
<1>10. CopiesOK(e, state, stage, chain, inv)
  BY <1>1, <1>2, <1>3 DEF LineInv, CopiesOK
<1>11. SharersOK(e, state, stage, chain)
  BY <1>1, <1>2, <1>3, EntryTypes DEF LineInv, SharersOK
<1>12. LineInv(a, sent, arrived, queued1, forwards, answers, home, e, state, acks,
              stage, by, chain, inv, ack)
  BY <1>1, <1>3, <1>4, <1>5, <1>6, <1>7, <1>8, <1>9, <1>10, <1>11 DEF LineInv
<1> QED
  BY <1>12 DEF LineHolds

=============================================================================
