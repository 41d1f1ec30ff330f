------------------------ MODULE MSICoherenceProofs ------------------------
(***************************************************************************)
(* The coherence of the MSI protocol, for any number of caches and lines.  *)
(*                                                                         *)
(* What a step does to the channels, and so to what each line sees, comes  *)
(* first; then one lemma for each handler of the caches and the directory  *)
(* brings the line it concerns to the lemma of MSILineSteps for it.  The   *)
(* theorems follow from LinesInv, the invariant of what every line sees.   *)
(***************************************************************************)
EXTENDS MSILineSteps, MSIProofs

-----------------------------------------------------------------------------
(* Channels.                                                               *)

(* The messages for a line once one is sent.                               *)
LEMMA MessagesAppend ==
  ASSUME NEW S, NEW q \in Seq(S), NEW m \in S, NEW a
  PROVE  Messages(Append(q, m), a) =
           IF m.addr = a THEN Messages(q, a) \cup {m} ELSE Messages(q, a)
<1> DEFINE r == Append(q, m)
<1>1. /\ DOMAIN r = 1..(Len(q) + 1) /\ DOMAIN q = 1..Len(q) /\ Len(q) \in Nat
      /\ r[Len(q) + 1] = m
      /\ \A i \in DOMAIN q : r[i] = q[i]
  OBVIOUS
<1> HIDE DEF r
<1>2. \A x : x \in Messages(r, a) <=> \E i \in DOMAIN r : r[i].addr = a /\ x = r[i]
  BY DEF Messages
<1>3. \A x : x \in Messages(q, a) <=> \E i \in DOMAIN q : q[i].addr = a /\ x = q[i]
  BY DEF Messages
<1>4. \A x : x \in Messages(r, a) <=>
               x \in Messages(q, a) \/ (m.addr = a /\ x = m)
  BY <1>1, <1>2, <1>3
<1> QED
  BY <1>4 DEF r

(* The messages for a line once the first of the channel is taken.         *)
LEMMA MessagesTail ==
  ASSUME NEW S, NEW q \in Seq(S), q # <<>>, Injective(q), NEW a
  PROVE  /\ Head(q) \in S /\ Tail(q) \in Seq(S)
         /\ Head(q) \in Messages(q, Head(q).addr)
         /\ Messages(Tail(q), a) =
              IF Head(q).addr = a THEN Messages(q, a) \ {Head(q)}
                                  ELSE Messages(q, a)
<1> DEFINE r == Tail(q)
           h == Head(q)
<1>1. /\ DOMAIN r = 1..(Len(q) - 1) /\ DOMAIN q = 1..Len(q) /\ Len(q) \in Nat \ {0}
      /\ \A i \in DOMAIN r : r[i] = q[i + 1]
      /\ h = q[1] /\ h \in S /\ r \in Seq(S)
  OBVIOUS
<1> HIDE DEF r, h
<1>2. \A x : x \in Messages(r, a) <=> \E i \in DOMAIN r : r[i].addr = a /\ x = r[i]
  BY DEF Messages
<1>3. \A x : x \in Messages(q, a) <=> \E i \in DOMAIN q : q[i].addr = a /\ x = q[i]
  BY DEF Messages
<1>4. h \in Messages(q, h.addr)
  BY <1>1 DEF Messages
<1>5. ASSUME NEW x \in Messages(r, a)
      PROVE  x \in Messages(q, a) /\ x # h
  <2>1. PICK i \in DOMAIN r : r[i].addr = a /\ x = r[i]
    BY <1>2, <1>5
  <2>2. i + 1 \in DOMAIN q /\ q[i + 1] = x /\ i + 1 # 1 /\ 1 \in DOMAIN q
    BY <1>1, <2>1
  <2> QED
    BY <1>1, <1>3, <2>1, <2>2 DEF Injective
<1>6. ASSUME NEW x \in Messages(q, a), x # h
      PROVE  x \in Messages(r, a)
  <2>1. PICK i \in DOMAIN q : q[i].addr = a /\ x = q[i]
    BY <1>3, <1>6
  <2>2. i - 1 \in DOMAIN r /\ r[i - 1] = x
    BY <1>1, <1>6, <2>1
  <2> QED
    BY <1>2, <2>1, <2>2
<1>7. h.addr # a => h \notin Messages(q, a)
  BY <1>3
<1>8. Messages(r, a) = Messages(q, a) \ {h}
  BY <1>5, <1>6
<1> QED
  BY <1>1, <1>4, <1>7, <1>8 DEF r, h

(* Channels hold no message twice.                                         *)
LEMMA InjectiveAppend ==
  ASSUME NEW S, NEW q \in Seq(S), NEW m \in S, Injective(q),
         m \notin Messages(q, m.addr)
  PROVE  Injective(Append(q, m))
<1> DEFINE r == Append(q, m)
<1>1. /\ DOMAIN r = 1..(Len(q) + 1) /\ DOMAIN q = 1..Len(q) /\ Len(q) \in Nat
      /\ r[Len(q) + 1] = m
      /\ \A i \in DOMAIN q : r[i] = q[i]
  OBVIOUS
<1> HIDE DEF r
<1>2. \A i \in DOMAIN q : q[i] # m
  BY DEF Messages
<1>3. Injective(r)
  BY <1>1, <1>2 DEF Injective
<1> QED
  BY <1>3 DEF r

(* Nor do they when one is taken; a PutAck stays the last of its line.     *)
LEMMA ChannelTail ==
  ASSUME NEW S, NEW q \in Seq(S), q # <<>>
  PROVE  /\ Injective(q) => Injective(Tail(q))
         /\ PutAckLast(q) => PutAckLast(Tail(q))
<1> DEFINE r == Tail(q)
<1>1. /\ DOMAIN r = 1..(Len(q) - 1) /\ DOMAIN q = 1..Len(q) /\ Len(q) \in Nat \ {0}
      /\ \A i \in DOMAIN r : r[i] = q[i + 1]
  OBVIOUS
<1> HIDE DEF r
<1>2. Injective(q) => Injective(r)
  BY <1>1 DEF Injective
<1>3. PutAckLast(q) => PutAckLast(r)
  BY <1>1 DEF PutAckLast
<1> QED
  BY <1>2, <1>3 DEF r

(* A message sent where no PutAck of its line waits leaves PutAcks last.   *)
LEMMA PutAckLastAppend ==
  ASSUME NEW S, NEW q \in Seq(S), NEW m \in S, PutAckLast(q),
         \A n \in Messages(q, m.addr) : n.Type # "PutAck"
  PROVE  PutAckLast(Append(q, m))
<1> DEFINE r == Append(q, m)
<1>1. /\ DOMAIN r = 1..(Len(q) + 1) /\ DOMAIN q = 1..Len(q) /\ Len(q) \in Nat
      /\ r[Len(q) + 1] = m
      /\ \A i \in DOMAIN q : r[i] = q[i]
  OBVIOUS
<1> HIDE DEF r
<1>2. \A i \in DOMAIN q : q[i].addr = m.addr => q[i].Type # "PutAck"
  BY DEF Messages
<1>3. PutAckLast(r)
  BY <1>1, <1>2 DEF PutAckLast
<1> QED
  BY <1>3 DEF r

(* A cache that finds a PutAck has no other message for the line.          *)
LEMMA PutAckAlone ==
  ASSUME NEW S, NEW q \in Seq(S), q # <<>>, PutAckLast(q), Head(q).Type = "PutAck"
  PROVE  Messages(q, Head(q).addr) = {Head(q)}
<1>1. DOMAIN q = 1..Len(q) /\ Len(q) \in Nat \ {0} /\ Head(q) = q[1]
  OBVIOUS
<1>2. \A i \in DOMAIN q : i # 1 => q[i].addr # q[1].addr
  BY <1>1 DEF PutAckLast
<1> QED
  BY <1>1, <1>2 DEF Messages

(* What the lines see of cache c's channel of q when m is sent on it.      *)
Sends(q, p, c, m) ==
  /\ ChangedAt(LineOf(q, m.addr), LineOf(p, m.addr), c, LineOf(q, m.addr)[c] \cup {m})
  /\ \A b : b # m.addr => LineOf(p, b) = LineOf(q, b)
  /\ m \notin LineOf(q, m.addr)[c] /\ (\A y \in Cache : Injective(q[y]))
       => \A y \in Cache : Injective(p[y])

(* Appending to one channel of an array of channels is a send.             *)
LEMMA ArrayAppend ==
  ASSUME NEW S, NEW q \in [Cache -> Seq(S)], NEW c \in Cache, NEW m \in S, NEW p,
         p = [q EXCEPT ![c] = Append(@, m)]
  PROVE  Sends(q, p, c, m)
<1>1. /\ p[c] = Append(q[c], m) /\ q[c] \in Seq(S)
      /\ \A y \in Cache : y # c => p[y] = q[y]
  OBVIOUS
<1>2. \A b : Messages(p[c], b) = IF m.addr = b THEN Messages(q[c], b) \cup {m}
                                               ELSE Messages(q[c], b)
  BY <1>1, MessagesAppend
<1>3. ASSUME NEW b PROVE
        /\ \A y \in Cache : LineOf(q, b)[y] = Messages(q[y], b)
        /\ \A y \in Cache : LineOf(p, b)[y] = Messages(p[y], b)
  BY DEF LineOf
<1>4. ChangedAt(LineOf(q, m.addr), LineOf(p, m.addr), c,
                LineOf(q, m.addr)[c] \cup {m})
  <2>1. /\ \A y \in Cache : LineOf(q, m.addr)[y] = Messages(q[y], m.addr)
        /\ \A y \in Cache : LineOf(p, m.addr)[y] = Messages(p[y], m.addr)
    BY <1>3, Zenon
  <2>2. Messages(p[c], m.addr) = Messages(q[c], m.addr) \cup {m}
    BY <1>2, Zenon
  <2> QED
    BY <1>1, <2>1, <2>2 DEF ChangedAt
<1>5. ASSUME NEW b, b # m.addr PROVE LineOf(p, b) = LineOf(q, b)
  <2>1. \A y \in Cache : Messages(p[y], b) = Messages(q[y], b)
    BY <1>1, <1>2, <1>5
  <2> QED
    BY <2>1, Zenon DEF LineOf
<1>6. ASSUME m \notin LineOf(q, m.addr)[c], \A y \in Cache : Injective(q[y])
      PROVE  \A y \in Cache : Injective(p[y])
  <2>1. m \notin Messages(q[c], m.addr)
    BY <1>3, <1>6
  <2>2. Injective(p[c])
    BY <1>1, <1>6, <2>1, InjectiveAppend
  <2> QED
    BY <1>1, <1>6, <2>2
<1> QED
  BY <1>4, <1>5, <1>6 DEF Sends

(* What they see when the first message m of the channel is taken.         *)
Takes(q, p, c, m) ==
  /\ m \in LineOf(q, m.addr)[c]
  /\ ChangedAt(LineOf(q, m.addr), LineOf(p, m.addr), c, LineOf(q, m.addr)[c] \ {m})
  /\ \A b : b # m.addr => LineOf(p, b) = LineOf(q, b)
  /\ \A y \in Cache : Injective(p[y])

(* Taking the head of one channel of an array of channels is a receipt.    *)
LEMMA ArrayTail ==
  ASSUME NEW S, NEW q \in [Cache -> Seq(S)], NEW c \in Cache, q[c] # <<>>, NEW p,
         p = [q EXCEPT ![c] = Tail(@)], \A y \in Cache : Injective(q[y])
  PROVE  Head(q[c]) \in S /\ Takes(q, p, c, Head(q[c]))
<1> DEFINE m == Head(q[c])
<1>1. /\ p[c] = Tail(q[c]) /\ q[c] \in Seq(S)
      /\ \A y \in Cache : y # c => p[y] = q[y]
  OBVIOUS
<1>2. /\ m \in S /\ m \in Messages(q[c], m.addr)
      /\ \A b : Messages(p[c], b) = IF m.addr = b THEN Messages(q[c], b) \ {m}
                                                  ELSE Messages(q[c], b)
  BY <1>1, MessagesTail
<1> HIDE DEF m
<1>3. ASSUME NEW b PROVE
        /\ \A y \in Cache : LineOf(q, b)[y] = Messages(q[y], b)
        /\ \A y \in Cache : LineOf(p, b)[y] = Messages(p[y], b)
  BY DEF LineOf
<1>4. /\ m \in LineOf(q, m.addr)[c]
      /\ ChangedAt(LineOf(q, m.addr), LineOf(p, m.addr), c,
                   LineOf(q, m.addr)[c] \ {m})
  <2>1. /\ \A y \in Cache : LineOf(q, m.addr)[y] = Messages(q[y], m.addr)
        /\ \A y \in Cache : LineOf(p, m.addr)[y] = Messages(p[y], m.addr)
    BY <1>3, Zenon
  <2>2. Messages(p[c], m.addr) = Messages(q[c], m.addr) \ {m}
    BY <1>2, Zenon
  <2> QED
    BY <1>1, <1>2, <2>1, <2>2 DEF ChangedAt
<1>5. ASSUME NEW b, b # m.addr PROVE LineOf(p, b) = LineOf(q, b)
  <2>1. \A y \in Cache : Messages(p[y], b) = Messages(q[y], b)
    BY <1>1, <1>2, <1>5
  <2> QED
    BY <2>1, Zenon DEF LineOf
<1>6. \A y \in Cache : Injective(p[y])
  BY <1>1, ChannelTail
<1> QED
  BY <1>2, <1>4, <1>5, <1>6 DEF m, Takes

(* What they see when copies of m are sent on the channels of D.           *)
Broadcasts(q, p, D, m) ==
  /\ \A c \in Cache : LineOf(p, m.addr)[c] =
       LineOf(q, m.addr)[c] \cup (IF c \in D THEN {m} ELSE {})
  /\ \A b : b # m.addr => LineOf(p, b) = LineOf(q, b)
  /\ \A c \in Cache :
       /\ c \in D => m \notin LineOf(q, m.addr)[c]
       /\ Injective(q[c])
       => Injective(p[c])
  /\ \A c \in Cache :
       /\ c \in D => \A n \in LineOf(q, m.addr)[c] : n.Type # "PutAck"
       /\ PutAckLast(q[c])
       => PutAckLast(p[c])

(* Appending to the channels of a set of caches is a broadcast.            *)
LEMMA ArrayBroadcast ==
  ASSUME NEW S, NEW q \in [Cache -> Seq(S)], NEW D, NEW m \in S, NEW p,
         p = [c \in Cache |-> IF c \in D THEN Append(q[c], m) ELSE q[c]]
  PROVE  Broadcasts(q, p, D, m)
<1>1. \A c \in Cache : /\ q[c] \in Seq(S)
                       /\ p[c] = IF c \in D THEN Append(q[c], m) ELSE q[c]
  OBVIOUS
<1>2. ASSUME NEW c \in Cache, NEW b
      PROVE  Messages(p[c], b) = IF c \in D /\ m.addr = b
                                   THEN Messages(q[c], b) \cup {m}
                                   ELSE Messages(q[c], b)
  <2>1. q[c] \in Seq(S) /\ p[c] = IF c \in D THEN Append(q[c], m) ELSE q[c]
    BY <1>1
  <2>2. Messages(Append(q[c], m), b) =
          IF m.addr = b THEN Messages(q[c], b) \cup {m} ELSE Messages(q[c], b)
    BY <2>1, MessagesAppend
  <2> QED
    BY <2>1, <2>2
<1>3. ASSUME NEW b PROVE
        /\ \A y \in Cache : LineOf(q, b)[y] = Messages(q[y], b)
        /\ \A y \in Cache : LineOf(p, b)[y] = Messages(p[y], b)
  BY DEF LineOf
<1>4. \A c \in Cache : LineOf(p, m.addr)[c] =
        LineOf(q, m.addr)[c] \cup (IF c \in D THEN {m} ELSE {})
  <2>1. /\ \A y \in Cache : LineOf(q, m.addr)[y] = Messages(q[y], m.addr)
        /\ \A y \in Cache : LineOf(p, m.addr)[y] = Messages(p[y], m.addr)
    BY <1>3, Zenon
  <2>2. \A c \in Cache : Messages(p[c], m.addr) = IF c \in D
           THEN Messages(q[c], m.addr) \cup {m} ELSE Messages(q[c], m.addr)
    BY <1>2
  <2> QED
    BY <2>1, <2>2
<1>5. ASSUME NEW b, b # m.addr PROVE LineOf(p, b) = LineOf(q, b)
  <2>1. \A y \in Cache : Messages(p[y], b) = Messages(q[y], b)
    BY <1>2, <1>5
  <2> QED
    BY <2>1, Zenon DEF LineOf
<1>6. ASSUME NEW c \in Cache, c \in D => m \notin LineOf(q, m.addr)[c],
             Injective(q[c])
      PROVE  Injective(p[c])
  BY <1>1, <1>3, <1>6, InjectiveAppend
<1>7. ASSUME NEW c \in Cache, PutAckLast(q[c]),
             c \in D => \A n \in LineOf(q, m.addr)[c] : n.Type # "PutAck"
      PROVE  PutAckLast(p[c])
  BY <1>1, <1>3, <1>7, PutAckLastAppend
<1> QED
  BY <1>4, <1>5, <1>6, <1>7 DEF Broadcasts

(* The channel changes for line a only.                                    *)
OthersSee(q, p, a) == \A b : b # a => Messages(p, b) = Messages(q, b)

(* What the lines see of one of the channels of responses that changes.    *)
LEMMA PairChanges ==
  ASSUME NEW q, NEW p, NEW c \in Cache, NEW s \in Machine, NEW a,
         NEW more, Messages(p[c][s], a) = more,
         PairChangedAt(q, p, c, s, p[c][s])
  PROVE  PairChangedAt(LineOfPairs(q, a), LineOfPairs(p, a), c, s, more)
<1>1. ASSUME NEW y \in Cache, NEW z \in Machine
      PROVE  /\ LineOfPairs(q, a)[y][z] = Messages(q[y][z], a)
             /\ LineOfPairs(p, a)[y][z] = Messages(p[y][z], a)
  BY Zenon DEF LineOfPairs
<1>2. LineOfPairs(p, a)[c][s] = more
  BY <1>1, Zenon
<1>3. ASSUME NEW y \in Cache, NEW z \in Machine, y # c \/ z # s
      PROVE  LineOfPairs(p, a)[y][z] = LineOfPairs(q, a)[y][z]
  <2>1. p[y][z] = q[y][z]
    BY <1>3, Zenon DEF PairChangedAt
  <2>2. /\ LineOfPairs(q, a)[y][z] = Messages(q[y][z], a)
        /\ LineOfPairs(p, a)[y][z] = Messages(p[y][z], a)
    BY <1>1, Zenon
  <2> QED
    BY <2>1, <2>2, Zenon
<1> QED
  BY <1>2, <1>3, Zenon DEF PairChangedAt

OtherLinesKept(q, p, c, s, a) == \A b : b # a => LineOfPairs(p, b) = LineOfPairs(q, b)

(* The other lines see nothing of it.                                      *)
LEMMA PairOthers ==
  ASSUME NEW q, NEW p, NEW c \in Cache, NEW s \in Machine, NEW a,
         PairChangedAt(q, p, c, s, p[c][s]), OthersSee(q[c][s], p[c][s], a)
  PROVE  OtherLinesKept(q, p, c, s, a)
<1> SUFFICES ASSUME NEW b, b # a PROVE LineOfPairs(p, b) = LineOfPairs(q, b)
  BY Zenon DEF OtherLinesKept
<1>1. \A y \in Cache, z \in Machine : Messages(p[y][z], b) = Messages(q[y][z], b)
  BY Zenon DEF PairChangedAt, OthersSee
<1> QED
  BY <1>1, Zenon DEF LineOfPairs

(* The line of a message sent, and the others.                             *)
LEMMA MessagesAppended ==
  ASSUME NEW S, NEW q \in Seq(S), NEW m \in S
  PROVE  /\ Messages(Append(q, m), m.addr) = Messages(q, m.addr) \cup {m}
         /\ OthersSee(q, Append(q, m), m.addr)
  BY MessagesAppend DEF OthersSee

(* The line of a message taken, and the others.                            *)
LEMMA MessagesTaken ==
  ASSUME NEW S, NEW q \in Seq(S), q # <<>>, Injective(q)
  PROVE  /\ Head(q) \in S /\ Head(q) \in Messages(q, Head(q).addr)
         /\ Messages(Tail(q), Head(q).addr) = Messages(q, Head(q).addr) \ {Head(q)}
         /\ OthersSee(q, Tail(q), Head(q).addr)
         /\ Injective(Tail(q))
  BY MessagesTail, ChannelTail DEF OthersSee

PairSends(q, p, c, s, m) ==
  /\ PairChangedAt(LineOfPairs(q, m.addr), LineOfPairs(p, m.addr), c, s,
                   LineOfPairs(q, m.addr)[c][s] \cup {m})
  /\ \A b : b # m.addr => LineOfPairs(p, b) = LineOfPairs(q, b)
  /\ /\ m \notin LineOfPairs(q, m.addr)[c][s]
     /\ \A y \in Cache, z \in Machine : Injective(q[y][z])
     => \A y \in Cache, z \in Machine : Injective(p[y][z])

(* Appending to one channel of responses is a send.                        *)
LEMMA PairAppend ==
  ASSUME NEW S, NEW q \in [Cache -> [Machine -> Seq(S)]],
         NEW c \in Cache, NEW s \in Machine, NEW m \in S, NEW p,
         p = [q EXCEPT ![c][s] = Append(@, m)]
  PROVE  PairSends(q, p, c, s, m)
<1>1. /\ p[c][s] = Append(q[c][s], m) /\ q[c][s] \in Seq(S)
      /\ \A y \in Cache, z \in Machine : y # c \/ z # s => p[y][z] = q[y][z]
  <2>1. q[c] \in [Machine -> Seq(S)]
    OBVIOUS
  <2>2. p = [q EXCEPT ![c] = [q[c] EXCEPT ![s] = Append(q[c][s], m)]]
    OBVIOUS
  <2>3. /\ p[c] = [q[c] EXCEPT ![s] = Append(q[c][s], m)]
        /\ \A y \in Cache : y # c => p[y] = q[y]
    BY <2>2, Zenon
  <2> QED
    BY <2>1, <2>3, Zenon
<1>2. /\ Messages(p[c][s], m.addr) = Messages(q[c][s], m.addr) \cup {m}
      /\ OthersSee(q[c][s], p[c][s], m.addr)
  <2>1. q[c][s] \in Seq(S) /\ p[c][s] = Append(q[c][s], m)
    BY <1>1, Zenon
  <2>2. /\ Messages(Append(q[c][s], m), m.addr) = Messages(q[c][s], m.addr) \cup {m}
        /\ OthersSee(q[c][s], Append(q[c][s], m), m.addr)
    BY <2>1, MessagesAppended, Zenon
  <2> QED
    BY <2>1, <2>2, Zenon
<1>3. LineOfPairs(q, m.addr)[c][s] = Messages(q[c][s], m.addr)
  BY Zenon DEF LineOfPairs
<1>4. /\ PairChangedAt(LineOfPairs(q, m.addr), LineOfPairs(p, m.addr), c, s,
                       LineOfPairs(q, m.addr)[c][s] \cup {m})
      /\ \A b : b # m.addr => LineOfPairs(p, b) = LineOfPairs(q, b)
  <2>1. Messages(p[c][s], m.addr) = LineOfPairs(q, m.addr)[c][s] \cup {m}
    BY <1>2, <1>3, Zenon
  <2>2. PairChangedAt(q, p, c, s, p[c][s])
    BY <1>1, Zenon DEF PairChangedAt
  <2>3. PairChangedAt(LineOfPairs(q, m.addr), LineOfPairs(p, m.addr), c, s,
                      LineOfPairs(q, m.addr)[c][s] \cup {m})
    BY <1>2, <2>1, <2>2, PairChanges, Zenon
  <2>4. OtherLinesKept(q, p, c, s, m.addr)
    BY <1>2, <2>1, <2>2, PairOthers, Zenon
  <2> QED
    BY <2>3, <2>4 DEF OtherLinesKept
<1>5. ASSUME m \notin LineOfPairs(q, m.addr)[c][s],
             \A y \in Cache, z \in Machine : Injective(q[y][z])
      PROVE  \A y \in Cache, z \in Machine : Injective(p[y][z])
  <2>1. m \notin Messages(q[c][s], m.addr)
    BY <1>3, <1>5, Zenon
  <2>2. Injective(p[c][s])
    BY <1>1, <1>5, <2>1, InjectiveAppend, Zenon
  <2>3. ASSUME NEW y \in Cache, NEW z \in Machine PROVE Injective(p[y][z])
    BY <1>1, <1>5, <2>2, Zenon
  <2> QED
    BY <2>3
<1> QED
  BY <1>4, <1>5 DEF PairSends

PairTakes(q, p, c, s, m) ==
  /\ m \in LineOfPairs(q, m.addr)[c][s]
  /\ PairChangedAt(LineOfPairs(q, m.addr), LineOfPairs(p, m.addr), c, s,
                   LineOfPairs(q, m.addr)[c][s] \ {m})
  /\ \A b : b # m.addr => LineOfPairs(p, b) = LineOfPairs(q, b)
  /\ \A y \in Cache, z \in Machine : Injective(p[y][z])

(* Taking the head of one channel of responses is a receipt.               *)
LEMMA PairTail ==
  ASSUME NEW S, NEW q \in [Cache -> [Machine -> Seq(S)]],
         NEW c \in Cache, NEW s \in Machine, q[c][s] # <<>>, NEW p,
         p = [q EXCEPT ![c][s] = Tail(@)],
         \A y \in Cache, z \in Machine : Injective(q[y][z])
  PROVE  Head(q[c][s]) \in S /\ PairTakes(q, p, c, s, Head(q[c][s]))
<1> DEFINE m == Head(q[c][s])
<1>1. /\ p[c][s] = Tail(q[c][s]) /\ q[c][s] \in Seq(S)
      /\ \A y \in Cache, z \in Machine : y # c \/ z # s => p[y][z] = q[y][z]
  <2>1. q[c] \in [Machine -> Seq(S)]
    OBVIOUS
  <2>2. p = [q EXCEPT ![c] = [q[c] EXCEPT ![s] = Tail(q[c][s])]]
    OBVIOUS
  <2>3. /\ p[c] = [q[c] EXCEPT ![s] = Tail(q[c][s])]
        /\ \A y \in Cache : y # c => p[y] = q[y]
    BY <2>2, Zenon
  <2> QED
    BY <2>1, <2>3, Zenon
<1>2. Injective(q[c][s])
  BY Zenon
<1>3. /\ m \in S /\ m \in Messages(q[c][s], m.addr)
      /\ Messages(p[c][s], m.addr) = Messages(q[c][s], m.addr) \ {m}
      /\ OthersSee(q[c][s], p[c][s], m.addr)
      /\ Injective(p[c][s])
  <2>1. q[c][s] \in Seq(S) /\ p[c][s] = Tail(q[c][s])
    BY <1>1, Zenon
  <2>2. /\ Head(q[c][s]) \in S
        /\ Head(q[c][s]) \in Messages(q[c][s], Head(q[c][s]).addr)
        /\ Messages(Tail(q[c][s]), Head(q[c][s]).addr) =
             Messages(q[c][s], Head(q[c][s]).addr) \ {Head(q[c][s])}
        /\ OthersSee(q[c][s], Tail(q[c][s]), Head(q[c][s]).addr)
        /\ Injective(Tail(q[c][s]))
    BY <1>2, <2>1, MessagesTaken, Zenon
  <2> QED
    BY <2>1, <2>2, Zenon
<1> HIDE DEF m
<1>4. LineOfPairs(q, m.addr)[c][s] = Messages(q[c][s], m.addr)
  BY Zenon DEF LineOfPairs
<1>5. /\ PairChangedAt(LineOfPairs(q, m.addr), LineOfPairs(p, m.addr), c, s,
                       LineOfPairs(q, m.addr)[c][s] \ {m})
      /\ \A b : b # m.addr => LineOfPairs(p, b) = LineOfPairs(q, b)
  <2>1. Messages(p[c][s], m.addr) = LineOfPairs(q, m.addr)[c][s] \ {m}
    BY <1>3, <1>4, Zenon
  <2>2. PairChangedAt(q, p, c, s, p[c][s])
    BY <1>1, Zenon DEF PairChangedAt
  <2>3. PairChangedAt(LineOfPairs(q, m.addr), LineOfPairs(p, m.addr), c, s,
                      LineOfPairs(q, m.addr)[c][s] \ {m})
    BY <1>3, <2>1, <2>2, PairChanges, Zenon
  <2>4. OtherLinesKept(q, p, c, s, m.addr)
    BY <1>3, <2>1, <2>2, PairOthers, Zenon
  <2> QED
    BY <2>3, <2>4 DEF OtherLinesKept
<1>6. ASSUME NEW y \in Cache, NEW z \in Machine PROVE Injective(p[y][z])
  BY <1>1, <1>3, Zenon
<1>7. m \in LineOfPairs(q, m.addr)[c][s]
  BY <1>3, <1>4, Zenon
<1> QED
  BY <1>3, <1>5, <1>6, <1>7 DEF m, PairTakes

-----------------------------------------------------------------------------
(* What a line sees has the types MSILines gives it.                       *)

(* What a line sees of a channel has the type of the channel.              *)
LEMMA MessagesType ==
  ASSUME NEW S, NEW q \in Seq(S), NEW a
  PROVE  Messages(q, a) \in SUBSET {m \in S : m.addr = a}
<1>1. \A i \in DOMAIN q : q[i] \in S
  OBVIOUS
<1> QED
  BY <1>1 DEF Messages

(* What a line sees of an array of channels has the type of its view.      *)
LEMMA LineTypes ==
  ASSUME NEW a \in Addr
  PROVE  /\ \A q \in [Cache -> Seq(RequestMsg)] : LineOf(q, a) \in SentType
         /\ \A q \in [Cache -> Seq(ForwardMsg)] : LineOf(q, a) \in ForwardsType(a)
         /\ \A q \in [Cache -> Seq(CacheResponse)] : LineOf(q, a) \in HomeType
         /\ \A q \in [Cache -> [Machine -> Seq(ResponseMsg)]] :
              LineOfPairs(q, a) \in AnswersType
         /\ \A q \in Seq(RequestMsg) : Messages(q, a) \in SUBSET RequestMsg
<1>1. ASSUME NEW S, NEW q \in [Cache -> Seq(S)]
      PROVE  LineOf(q, a) \in [Cache -> SUBSET {m \in S : m.addr = a}]
  <2>1. \A c \in Cache : Messages(q[c], a) \in SUBSET {m \in S : m.addr = a}
    BY MessagesType
  <2> QED
    BY <2>1 DEF LineOf
<1>2. ASSUME NEW S, NEW q \in [Cache -> Seq(S)]
      PROVE  LineOf(q, a) \in [Cache -> SUBSET S]
  <2>1. \A c \in Cache : LineOf(q, a)[c] \in SUBSET S
    BY <1>1
  <2> QED
    BY <2>1 DEF LineOf
<1>3. ASSUME NEW q \in [Cache -> [Machine -> Seq(ResponseMsg)]]
      PROVE  LineOfPairs(q, a) \in AnswersType
  <2>1. \A c \in Cache, s \in Machine : Messages(q[c][s], a) \in SUBSET ResponseMsg
    <3>1. \A c \in Cache, s \in Machine : q[c][s] \in Seq(ResponseMsg)
      OBVIOUS
    <3> QED
      BY <3>1, MessagesType
  <2> QED
    BY <2>1, Zenon DEF LineOfPairs, AnswersType
<1>4. \A q \in Seq(RequestMsg) : Messages(q, a) \in SUBSET RequestMsg
  BY MessagesType
<1>5. \A q \in [Cache -> Seq(RequestMsg)] : LineOf(q, a) \in SentType
  BY <1>2 DEF SentType
<1>6. \A q \in [Cache -> Seq(CacheResponse)] : LineOf(q, a) \in HomeType
  BY <1>2 DEF HomeType
<1>7. \A q \in [Cache -> Seq(ForwardMsg)] : LineOf(q, a) \in ForwardsType(a)
  BY <1>1 DEF ForwardsType, ForwardsFor
<1> QED
  BY <1>3, <1>4, <1>5, <1>6, <1>7

(* What line a sees.                                                       *)
LineTyped(a) ==
  /\ SentOf(a) \in SentType
  /\ ArrivedOf(a) \in SUBSET RequestMsg
  /\ AtMemory(a) \in SUBSET MemoryMsg
  /\ ForwardsOf(a) \in ForwardsType(a)
  /\ AnswersOf(a) \in AnswersType
  /\ HomeOf(a) \in HomeType
  /\ directory[a] \in Entry
  /\ StateOf(a) \in StateType
  /\ AcksOf(a) \in AcksType

(* The views of a line have their types.                                   *)
LEMMA LineIsTyped == TypeOK => \A a \in Addr : LineTyped(a)
<1> SUFFICES ASSUME TypeOK, NEW a \in Addr PROVE LineTyped(a)
  OBVIOUS
<1>1. SentOf(a) \in SentType /\ ArrivedOf(a) \in SUBSET RequestMsg
      /\ ForwardsOf(a) \in ForwardsType(a) /\ HomeOf(a) \in HomeType
      /\ AnswersOf(a) \in AnswersType
  BY LineTypes, Zenon DEF TypeOK, ChannelsTypeOK, SentOf, ArrivedOf, ForwardsOf, HomeOf,
     AnswersOf
<1>2. AtMemory(a) \in SUBSET MemoryMsg /\ directory[a] \in Entry
  BY DEF TypeOK, DirTypeOK, AtMemory
<1>3. \A c \in Cache : line[c][a] \in Line
  BY DEF TypeOK, CacheTypeOK
<1>4. StateOf(a) \in StateType
  BY <1>3 DEF StateOf, StateType, Line
<1>5. AcksOf(a) \in AcksType
  BY <1>3 DEF AcksOf, AcksType, Line
<1> QED
  BY <1>1, <1>2, <1>4, <1>5 DEF LineTyped

(* Likewise in the next state.                                             *)
LEMMA NextLineIsTyped == TypeOK' => \A a \in Addr : LineTyped(a)'
<1>1. TypeOK => \A a \in Addr : LineTyped(a)
  BY LineIsTyped
<1>2. TypeOK' => (\A a \in Addr : LineTyped(a))'
  BY <1>1, PTL
<1> QED
  BY <1>2

-----------------------------------------------------------------------------
(* Steps of the protocol.                                                  *)

(* Line b sees nothing of a step.                                          *)
LineKept(b) ==
  /\ SentOf(b)' = SentOf(b)
  /\ ArrivedOf(b)' = ArrivedOf(b)
  /\ AtMemory(b)' = AtMemory(b)
  /\ ForwardsOf(b)' = ForwardsOf(b)
  /\ AnswersOf(b)' = AnswersOf(b)
  /\ HomeOf(b)' = HomeOf(b)
  /\ directory'[b] = directory[b]
  /\ StateOf(b)' = StateOf(b)
  /\ AcksOf(b)' = AcksOf(b)

(* A view of a variable that does not change does not change.              *)
LEMMA Untouched ==
  ASSUME NEW b
  PROVE  /\ requestToDir' = requestToDir => SentOf(b)' = SentOf(b)
         /\ requestFromCache' = requestFromCache => ArrivedOf(b)' = ArrivedOf(b)
         /\ memQueue' = memQueue => AtMemory(b)' = AtMemory(b)
         /\ forwardToCache' = forwardToCache => ForwardsOf(b)' = ForwardsOf(b)
         /\ responseToCache' = responseToCache => AnswersOf(b)' = AnswersOf(b)
         /\ responseToDir' = responseToDir => HomeOf(b)' = HomeOf(b)
         /\ directory' = directory => directory'[b] = directory[b]
         /\ line' = line => StateOf(b)' = StateOf(b) /\ AcksOf(b)' = AcksOf(b)
  BY DEF SentOf, ArrivedOf, AtMemory, ForwardsOf, AnswersOf, HomeOf, StateOf, AcksOf

(* A step that concerns line a keeps the invariant of the other lines.     *)
LEMMA LineStep ==
  ASSUME LinesInv, NEW a \in Addr, LineHoldsNow(a)',
         \A b \in Addr : b # a => LineKept(b)
  PROVE  LinesInv'
<1>1. ASSUME NEW b \in Addr, b # a PROVE LineHoldsNow(b)'
  <2>1. LineHoldsNow(b) /\ LineKept(b)
    BY <1>1 DEF LinesInv
  <2> QED
    BY <2>1 DEF LineHoldsNow, LineKept
<1> QED
  BY <1>1 DEF LinesInv

(* What the lines see of a step of one cache's block and TBE.              *)
LEMMA LineUpdated ==
  ASSUME TypeOK, NEW c \in Cache, NEW a \in Addr, NEW l, NEW s, Update(c, a, l, s)
  PROVE  /\ ChangedAt(StateOf(a), StateOf(a)', c, setState(l, s).State)
         /\ ChangedAt(AcksOf(a), AcksOf(a)', c, setState(l, s).AcksOutstanding)
         /\ \A b \in Addr : b # a => /\ StateOf(b)' = StateOf(b)
                                     /\ AcksOf(b)' = AcksOf(b)
         /\ setState(l, s).AcksOutstanding = line[c][a].AcksOutstanding
              => AcksOf(a)' = AcksOf(a)
<1> DEFINE k == setState(l, s)
<1>1. line \in [Cache -> [Addr -> Line]]
  BY DEF TypeOK, CacheTypeOK
<1>2. line' = [line EXCEPT ![c] = [line[c] EXCEPT ![a] = k]]
  BY <1>1, Zenon DEF Update
<1> HIDE DEF k
<1>3. /\ line'[c] = [line[c] EXCEPT ![a] = k] /\ line[c] \in [Addr -> Line]
      /\ \A y \in Cache : y # c => line'[y] = line[y]
  BY <1>1, <1>2, Zenon
<1>4. /\ line'[c][a] = k
      /\ \A b \in Addr : b # a => line'[c][b] = line[c][b]
  BY <1>3, Zenon
<1>5. ChangedAt(StateOf(a), StateOf(a)', c, k.State)
  BY <1>3, <1>4, Zenon DEF ChangedAt, StateOf
<1>6. ChangedAt(AcksOf(a), AcksOf(a)', c, k.AcksOutstanding)
  BY <1>3, <1>4, Zenon DEF ChangedAt, AcksOf
<1>7. ASSUME NEW b \in Addr, b # a
      PROVE  StateOf(b)' = StateOf(b) /\ AcksOf(b)' = AcksOf(b)
  <2>1. \A y \in Cache : line'[y][b] = line[y][b]
    BY <1>3, <1>4, <1>7, Zenon
  <2> QED
    BY <2>1, Zenon DEF StateOf, AcksOf
<1>8. ASSUME k.AcksOutstanding = line[c][a].AcksOutstanding
      PROVE  AcksOf(a)' = AcksOf(a)
  <2>1. \A y \in Cache : line'[y][a].AcksOutstanding = line[y][a].AcksOutstanding
    BY <1>3, <1>4, <1>8, Zenon
  <2> QED
    BY <2>1, Zenon DEF AcksOf
<1> QED
  BY <1>5, <1>6, <1>7, <1>8 DEF k

(* A cache that starts a request has none on its way.                      *)
LEMMA FreshRequest ==
  ASSUME TypeOK, LinesInv, NEW a \in Addr, NEW c \in Cache,
         LineState(c, a) \in {"I", "S", "M"}
  PROVE  SentOf(a)[c] = {}
<1>1. PICK stage, by, chain, inv, ack :
        LineInv(a, SentOf(a), ArrivedOf(a), AtMemory(a), ForwardsOf(a), AnswersOf(a),
                HomeOf(a), directory[a], StateOf(a), AcksOf(a), stage, by, chain, inv, ack)
  BY DEF LinesInv, LineHoldsNow, LineHolds
<1>2. SentOK(SentOf(a), StateOf(a), stage)
  BY <1>1, Zenon DEF LineInv
<1>3. StateOf(a)[c] = LineState(c, a)
  BY DEF StateOf, LineState
<1>4. \A m \in SentOf(a)[c] : m.Type \in {"GetS", "GetM", "PutS", "PutM"}
  <2>1. SentOf(a) \in SentType
    BY LineIsTyped DEF LineTyped
  <2> QED
    BY <2>1 DEF SentType, RequestMsg
<1> QED
  BY <1>2, <1>3, <1>4 DEF SentOK, Fits, PutStates

(* A cache starts a request or a put.                                      *)
LEMMA StartStep ==
  ASSUME TypeOK, TypeOK', ChannelInv, LinesInv,
         NEW c \in Cache, NEW a \in Addr, NEW type, NEW d \in Data, NEW l, NEW t,
         SendRequest(c, type, a, d), Update(c, a, l, t),
         Starts(LineState(c, a), type, t), setState(l, t).State = t,
         setState(l, t).AcksOutstanding =
           IF t \in PutStates THEN line[c][a].AcksOutstanding ELSE 0,
         UNCHANGED <<requestFromCache, forwardToCache, responseToDir,
                     responseToCache, dirVars>>
  PROVE  LinesInv' /\ ChannelInv'
<1> DEFINE m == [Type |-> type, addr |-> a, Requestor |-> c, DataBlk |-> d]
<1>1. m \in RequestMsg /\ m.addr = a /\ m.Requestor = c /\ m.Type = type
  BY DEF RequestMsg, Starts
<1>2. requestToDir \in [Cache -> Seq(RequestMsg)]
  BY DEF TypeOK, ChannelsTypeOK
<1>3. requestToDir' = [requestToDir EXCEPT ![c] = Append(@, m)]
  BY DEF SendRequest
<1> HIDE DEF m
<1>4. /\ ChangedAt(SentOf(a), SentOf(a)', c, SentOf(a)[c] \cup {m})
      /\ \A b \in Addr : b # a => SentOf(b)' = SentOf(b)
      /\ \A y \in Cache : Injective(requestToDir'[y])
  <2>1. m \notin SentOf(a)[c]
    BY FreshRequest DEF Starts
  <2>2. \A y \in Cache : Injective(requestToDir[y])
    BY DEF ChannelInv
  <2>3. Sends(requestToDir, requestToDir', c, m)
    BY <1>1, <1>2, <1>3, ArrayAppend, Zenon
  <2> QED
    BY <1>1, <2>1, <2>2, <2>3 DEF SentOf, Sends
<1>5. /\ ChangedAt(StateOf(a), StateOf(a)', c, t)
      /\ ChangedAt(AcksOf(a), AcksOf(a)', c, setState(l, t).AcksOutstanding)
      /\ \A b \in Addr : b # a => StateOf(b)' = StateOf(b) /\ AcksOf(b)' = AcksOf(b)
  BY LineUpdated
<1>6. /\ StateOf(a)[c] = LineState(c, a)
      /\ AcksOf(a)[c] = line[c][a].AcksOutstanding
  BY DEF StateOf, AcksOf, LineState
<1>7. LineTyped(a) /\ LineTyped(a)'
  BY LineIsTyped, NextLineIsTyped
<1>8. setState(l, t).AcksOutstanding \in Int
  BY <1>5, <1>7 DEF ChangedAt, LineTyped, AcksType
<1>9. LineHolds(a, SentOf(a)', ArrivedOf(a), AtMemory(a), ForwardsOf(a),
                AnswersOf(a), HomeOf(a), directory[a], StateOf(a)', AcksOf(a)')
  <2>1. LineHolds(a, SentOf(a), ArrivedOf(a), AtMemory(a), ForwardsOf(a),
                AnswersOf(a), HomeOf(a), directory[a], StateOf(a), AcksOf(a))
    BY DEF LinesInv, LineHoldsNow
  <2> QED
    BY <1>1, <1>4, <1>5, <1>6, <1>7, <1>8, <2>1, RequestStarts DEF LineTyped
<1>10. LineHoldsNow(a)'
  BY <1>9, Untouched DEF LineHoldsNow, dirVars
<1>11. ASSUME NEW b \in Addr, b # a PROVE LineKept(b)
  BY <1>4, <1>5, <1>11, Untouched DEF LineKept, dirVars
<1>12. LinesInv'
  BY <1>10, <1>11, LineStep
<1>13. ChannelInv'
  BY <1>4 DEF ChannelInv
<1> QED
  BY <1>12, <1>13

-----------------------------------------------------------------------------
(* What is sent is not under way already.                                  *)

LineInvNow(a, stage, by, chain, inv, ack) ==
  LineInv(a, SentOf(a), ArrivedOf(a), AtMemory(a), ForwardsOf(a), AnswersOf(a),
          HomeOf(a), directory[a], StateOf(a), AcksOf(a), stage, by, chain, inv, ack)

(* The stages, the chain and the invalidations that LinesInv says exist.   *)
LEMMA Witnesses ==
  ASSUME LinesInv, NEW a \in Addr
  PROVE  \E stage \in StageType, by \in ByType,
            chain \in Seq(Cache), inv \in SUBSET Cache, ack \in SUBSET Cache :
           LineInvNow(a, stage, by, chain, inv, ack)
  BY DEF LinesInv, LineHoldsNow, LineHolds, LineInvNow

(* A request arrives once.                                                 *)
LEMMA FreshArrival ==
  ASSUME LinesInv, NEW a \in Addr, NEW c \in Cache, NEW m \in SentOf(a)[c]
  PROVE  m \notin ArrivedOf(a)
<1>1. PICK stage \in StageType, by \in ByType,
           chain \in Seq(Cache), inv \in SUBSET Cache, ack \in SUBSET Cache :
        LineInvNow(a, stage, by, chain, inv, ack)
  BY Witnesses
<1>2. SentOK(SentOf(a), StateOf(a), stage) /\ ArrivedOK(ArrivedOf(a), StateOf(a), stage)
  BY <1>1, Zenon DEF LineInvNow, LineInv
<1> QED
  BY <1>2 DEF SentOK, ArrivedOK

(* An owner has not answered what it is asked.                             *)
LEMMA FreshAnswer ==
  ASSUME TypeOK, LinesInv, NEW a \in Addr, NEW c \in Cache, NEW m \in ForwardsOf(a)[c],
         m.Type \in {"GetS", "GetM"}
  PROVE  /\ \A r \in AnswersOf(a)[m.Requestor][c] : r.Type # "Data"
         /\ m.Type = "GetS" => HomeOf(a)[c] = {}
<1>1. PICK stage \in StageType, by \in ByType,
           chain \in Seq(Cache), inv \in SUBSET Cache, ack \in SUBSET Cache :
        LineInvNow(a, stage, by, chain, inv, ack)
  BY Witnesses
<1>2. /\ AskedOK(a, ForwardsOf(a), StateOf(a), stage, by)
      /\ DataSentOK(AnswersOf(a), stage, by)
      /\ HomeOK(HomeOf(a), directory[a], chain)
      /\ ReaderOK(directory[a], StateOf(a), stage, by, chain)
  BY <1>1, Zenon DEF LineInvNow, LineInv
<1>3. m.Requestor \in Cache
  <2>1. ForwardsOf(a) \in ForwardsType(a)
    BY LineIsTyped DEF LineTyped
  <2> QED
    BY <2>1, ForwardTypes
<1>4. stage[m.Requestor] = "forwarded" /\ Fits(m.Type, StateOf(a)[m.Requestor])
  BY <1>2 DEF AskedOK
<1>5. \A r \in AnswersOf(a)[m.Requestor][c] : r.Type # "Data"
  BY <1>2, <1>3, <1>4 DEF DataSentOK, Machine
<1>6. ASSUME m.Type = "GetS" PROVE HomeOf(a)[c] = {}
  <2>1. chain # <<>>
    BY <1>2, <1>3, <1>4, <1>6 DEF ReaderOK, Reads, Fits
  <2> QED
    BY <1>2, <2>1 DEF HomeOK
<1> QED
  BY <1>5, <1>6

(* A cache has not acknowledged the invalidation that it finds.            *)
LEMMA FreshAck ==
  ASSUME TypeOK, LinesInv, NEW a \in Addr, NEW c \in Cache, NEW m \in ForwardsOf(a)[c],
         m.Type = "Inv"
  PROVE  \A r \in AnswersOf(a)[m.Requestor][c] : r.Type # "InvAck"
<1>1. PICK stage \in StageType, by \in ByType,
           chain \in Seq(Cache), inv \in SUBSET Cache, ack \in SUBSET Cache :
        LineInvNow(a, stage, by, chain, inv, ack)
  BY Witnesses
<1>2. /\ InvSentOK(a, ForwardsOf(a), chain, inv)
      /\ InvAckSentOK(AnswersOf(a), chain, ack)
      /\ InvsOK(StateOf(a), stage, chain, inv, ack)
  BY <1>1, Zenon DEF LineInvNow, LineInv
<1>3. m.Requestor \in Cache
  <2>1. ForwardsOf(a) \in ForwardsType(a)
    BY LineIsTyped DEF LineTyped
  <2> QED
    BY <2>1, ForwardTypes
<1>4. c \in inv /\ c \notin ack
  BY <1>2 DEF InvSentOK, InvsOK
<1> QED
  BY <1>2, <1>3, <1>4 DEF InvAckSentOK, Machine

(* A sharer that the directory counts on has no invalidation to come, and  *)
(* no acknowledgement of a put.                                            *)
LEMMA FreshInvs ==
  ASSUME TypeOK, DirInv, LinesInv, NEW a \in Addr,
         directory[a].DirState \in {"I", "S"}, NEW c \in directory[a].Sharers
  PROVE  \A n \in ForwardsOf(a)[c] : n.Type \notin {"Inv", "PutAck"}
<1>1. PICK stage \in StageType, by \in ByType,
           chain \in Seq(Cache), inv \in SUBSET Cache, ack \in SUBSET Cache :
        LineInvNow(a, stage, by, chain, inv, ack)
  BY Witnesses
<1>2. /\ InvSentOK(a, ForwardsOf(a), chain, inv)
      /\ AckedOK(a, ForwardsOf(a), stage)
      /\ InvsOK(StateOf(a), stage, chain, inv, ack)
      /\ EntryOK(directory[a], stage, chain)
      /\ SharersOK(directory[a], StateOf(a), stage, chain)
      /\ StageOK(StateOf(a), stage)
  BY <1>1, Zenon DEF LineInvNow, LineInv
<1>3. c \in Cache
  BY LineIsTyped, EntryTypes DEF LineTyped
<1>4. directory[a].DirState = "S" /\ chain = <<>>
  BY <1>2 DEF DirInv, DirectoryConsistent, EntryConsistent, EntryOK
<1>5. inv = {}
  BY <1>2, <1>4 DEF InvsOK
<1>6. stage[c] # "acked"
  BY <1>2, <1>3, <1>4 DEF SharersOK, Settled, StageOK
<1> QED
  BY <1>2, <1>3, <1>5, <1>6 DEF InvSentOK, AckedOK

(* An owner that the directory passes a request on to has not been asked   *)
(* to answer it, and has no acknowledgement of a put to come.              *)
LEMMA FreshForward ==
  ASSUME TypeOK, DirInv, LinesInv, NEW a \in Addr, directory[a].DirState = "M",
         NEW c \in directory[a].Owner, NEW m \in ArrivedOf(a)
  PROVE  \A n \in ForwardsOf(a)[c] :
           /\ n.Type # "PutAck"
           /\ n.Type \in {"GetS", "GetM"} => n.Requestor # m.Requestor
<1>1. PICK stage \in StageType, by \in ByType,
           chain \in Seq(Cache), inv \in SUBSET Cache, ack \in SUBSET Cache :
        LineInvNow(a, stage, by, chain, inv, ack)
  BY Witnesses
<1>2. /\ AskedOK(a, ForwardsOf(a), StateOf(a), stage, by)
      /\ ArrivedOK(ArrivedOf(a), StateOf(a), stage)
      /\ AckedOK(a, ForwardsOf(a), stage)
  BY <1>1, Zenon DEF LineInvNow, LineInv
<1>3. directory[a] \in Entry /\ StateOf(a) \in StateType
  BY LineIsTyped DEF LineTyped
<1>4. LastOf(chain) \in Cache /\ directory[a].Owner = {LastOf(chain)}
      /\ stage[LastOf(chain)] # "acked"
  <2>1. /\ StageOK(StateOf(a), stage) /\ OwnersOK(StateOf(a), stage, by, chain)
        /\ LinksOK(stage, by, chain) /\ EntryOK(directory[a], stage, chain)
        /\ MemoryOK(directory[a], StateOf(a), stage)
        /\ ReaderOK(directory[a], StateOf(a), stage, by, chain)
    BY <1>1, Zenon DEF LineInvNow, LineInv
  <2> QED
    BY <1>3, <2>1, OwnerUnasked
<1> QED
  BY <1>2, <1>4 DEF AskedOK, ArrivedOK, AckedOK

(* A put that arrives has not been acknowledged.                           *)
LEMMA FreshPutAck ==
  ASSUME TypeOK, LinesInv, NEW a \in Addr, NEW m \in ArrivedOf(a)
  PROVE  \A n \in ForwardsOf(a)[m.Requestor] : n.Type # "PutAck"
<1>1. PICK stage \in StageType, by \in ByType,
           chain \in Seq(Cache), inv \in SUBSET Cache, ack \in SUBSET Cache :
        LineInvNow(a, stage, by, chain, inv, ack)
  BY Witnesses
<1>2. /\ ArrivedOK(ArrivedOf(a), StateOf(a), stage)
      /\ AckedOK(a, ForwardsOf(a), stage)
  BY <1>1, Zenon DEF LineInvNow, LineInv
<1>3. m.Requestor \in Cache
  BY LineIsTyped, MessageTypes DEF LineTyped
<1> QED
  BY <1>2, <1>3 DEF ArrivedOK, AckedOK

(* A read that memory answers has had no data from the directory.          *)
LEMMA FreshData ==
  ASSUME TypeOK, LinesInv, NEW a \in Addr, NEW m \in AtMemory(a), m.Type = "MEMORY_READ"
  PROVE  AnswersOf(a)[m.OriginalRequestor][Directory] = {}
<1>1. PICK stage \in StageType, by \in ByType,
           chain \in Seq(Cache), inv \in SUBSET Cache, ack \in SUBSET Cache :
        LineInvNow(a, stage, by, chain, inv, ack)
  BY Witnesses
<1>2. /\ QueuedOK(AtMemory(a), stage)
      /\ ResponsesOK(AnswersOf(a))
      /\ DataSentOK(AnswersOf(a), stage, by)
  BY <1>1, Zenon DEF LineInvNow, LineInv
<1>3. m.OriginalRequestor \in Cache /\ Directory \in Machine
  BY LineIsTyped, MessageTypes DEF LineTyped, Machine
<1> QED
  BY <1>2, <1>3 DEF QueuedOK, ResponsesOK, DataSentOK

-----------------------------------------------------------------------------
(* A cache takes a forward.                                                *)

(* A cache takes the first of its forwards.                                *)
LEMMA ForwardTaken ==
  ASSUME TypeOK, ChannelInv, NEW c \in Cache, forwardToCache[c] # <<>>,
         popForwardQueue(c)
  PROVE  /\ Head(forwardToCache[c]) \in ForwardMsg
         /\ Takes(forwardToCache, forwardToCache', c, Head(forwardToCache[c]))
         /\ \A y \in Cache : PutAckLast(forwardToCache'[y])
<1>1. forwardToCache \in [Cache -> Seq(ForwardMsg)]
  BY DEF TypeOK, ChannelsTypeOK
<1>2. \A y \in Cache : Injective(forwardToCache[y])
  BY DEF ChannelInv
<1>3. forwardToCache' = [forwardToCache EXCEPT ![c] = Tail(@)]
  BY DEF popForwardQueue
<1>4. /\ Head(forwardToCache[c]) \in ForwardMsg
      /\ Takes(forwardToCache, forwardToCache', c, Head(forwardToCache[c]))
  BY <1>1, <1>2, <1>3, ArrayTail, Zenon
<1>5. ASSUME NEW y \in Cache PROVE PutAckLast(forwardToCache'[y])
  <2>1. PutAckLast(forwardToCache[y])
    BY DEF ChannelInv
  <2>2. CASE y = c
    BY <1>1, <1>3, <2>1, <2>2, ChannelTail
  <2>3. CASE y # c
    BY <1>1, <1>3, <2>1, <2>3
  <2> QED
    BY <2>2, <2>3
<1> QED
  BY <1>4, <1>5

(* A machine sends a response to a cache.                                  *)
LEMMA ResponseSent ==
  ASSUME TypeOK, NEW x \in Cache, NEW s \in Machine, NEW r \in ResponseMsg,
         responseToCache' = [responseToCache EXCEPT ![x][s] = Append(@, r)]
  PROVE  PairSends(responseToCache, responseToCache', x, s, r)
<1>1. responseToCache \in [Cache -> [Machine -> Seq(ResponseMsg)]]
  BY DEF TypeOK, ChannelsTypeOK
<1> QED
  BY <1>1, PairAppend, Zenon

(* A cache that has a block keeps its state and the count of acks.         *)
LEMMA BlockState ==
  ASSUME TypeOK, AllocInv, NEW c \in Cache, NEW a \in Addr, NEW t,
         LineState(c, a) # "I"
  PROVE  /\ setState(line[c][a], t).State = t
         /\ setState(line[c][a], t).AcksOutstanding = line[c][a].AcksOutstanding
<1>1. line[c][a] \in Line /\ line[c][a].block
  BY DEF TypeOK, CacheTypeOK, AllocInv, AllocationFits, LineState
<1> QED
  BY <1>1 DEF setState, Line

(* transition({M, MI_A}, FwdGetS): the owner answers the reader and the    *)
(* directory.                                                              *)
LEMMA FwdGetSStep ==
  ASSUME TypeOK, TypeOK', ChannelInv, AllocInv, LinesInv, NEW c \in Cache,
         NEW from, NEW to, OwnerFwdGetS(c, from, to), UNCHANGED dirVars,
         \/ from = "M" /\ to = "S"
         \/ from = "MI_A" /\ to = "SI_A"
  PROVE  LinesInv' /\ ChannelInv'
<1>0. PICK m, a, r : m = Head(forwardToCache[c]) /\ a = m.addr
                     /\ r = Response(c, "Data", a, line[c][a].DataBlk)
  OBVIOUS
<1>1. /\ Forwarded(c, "GetS", {from})
      /\ responseToCache' =
           [responseToCache EXCEPT ![m.Requestor][c] = Append(@, r)]
      /\ responseToDir' = [responseToDir EXCEPT ![c] = Append(@, r)]
      /\ Update(c, a, line[c][a], to) /\ popForwardQueue(c)
      /\ UNCHANGED <<requestToDir, requestFromCache, memQueue, directory>>
  BY <1>0 DEF OwnerFwdGetS, sendCacheDataToReq, sendCacheDataToDir, dirVars
<1>2. /\ forwardToCache[c] # <<>> /\ m.Type = "GetS" /\ LineState(c, a) = from
      /\ a \in Addr /\ m.Requestor \in Cache
  BY <1>0, <1>1, ForwardHead DEF Forwarded
<1>3. /\ r \in CacheResponse /\ r \in ResponseMsg
      /\ r.Type = "Data" /\ r.Sender = c /\ r.addr = a
  BY <1>0, <1>2 DEF TypeOK, CacheTypeOK, Line, Response, CacheResponse, ResponseMsg, Machine
<1>4. c \in Machine
  BY DEF Machine
<1>5. Takes(forwardToCache, forwardToCache', c, m)
      /\ \A y \in Cache : PutAckLast(forwardToCache'[y])
  BY <1>0, <1>1, <1>2, ForwardTaken, Zenon
<1>6. PairSends(responseToCache, responseToCache', m.Requestor, c, r)
  BY <1>1, <1>2, <1>3, <1>4, ResponseSent, Zenon
<1>7. Sends(responseToDir, responseToDir', c, r)
  <2>1. responseToDir \in [Cache -> Seq(CacheResponse)]
    BY DEF TypeOK, ChannelsTypeOK
  <2> QED
    BY <1>1, <1>3, <2>1, ArrayAppend, Zenon
<1>8. m \in ForwardsOf(a)[c]
  BY <1>0, <1>5 DEF Takes, ForwardsOf
<1>9. r \notin AnswersOf(a)[m.Requestor][c] /\ r \notin HomeOf(a)[c]
  BY <1>2, <1>3, <1>8, FreshAnswer
<1>10. ChannelInv'
  <2>1. \A y \in Cache : Injective(forwardToCache'[y])
    BY <1>5 DEF Takes
  <2>2. \A y \in Cache : Injective(responseToDir'[y])
    BY <1>3, <1>7, <1>9 DEF Sends, HomeOf, ChannelInv
  <2>3. \A y \in Cache, z \in Machine : Injective(responseToCache'[y][z])
    BY <1>3, <1>6, <1>9 DEF PairSends, AnswersOf, ChannelInv
  <2> QED
    BY <1>1, <1>5, <2>1, <2>2, <2>3 DEF ChannelInv
<1>11. /\ ChangedAt(StateOf(a), StateOf(a)', c, to)
       /\ AcksOf(a)' = AcksOf(a)
       /\ \A b \in Addr : b # a => StateOf(b)' = StateOf(b) /\ AcksOf(b)' = AcksOf(b)
  <2>1. /\ setState(line[c][a], to).State = to
        /\ setState(line[c][a], to).AcksOutstanding = line[c][a].AcksOutstanding
    BY <1>2, BlockState
  <2> QED
    BY <1>1, <1>2, <2>1, LineUpdated
<1>12. StateOf(a)[c] = from
  BY <1>2 DEF StateOf, LineState
<1>13. LineTyped(a) /\ LineTyped(a)'
  BY <1>2, LineIsTyped, NextLineIsTyped
<1>14. LineHolds(a, SentOf(a), ArrivedOf(a), AtMemory(a), ForwardsOf(a)',
                 AnswersOf(a)', HomeOf(a)', directory[a], StateOf(a)', AcksOf(a))
  <2>1. LineHolds(a, SentOf(a), ArrivedOf(a), AtMemory(a), ForwardsOf(a),
                  AnswersOf(a), HomeOf(a), directory[a], StateOf(a), AcksOf(a))
    BY <1>2 DEF LinesInv, LineHoldsNow
  <2>2. ChangedAt(ForwardsOf(a), ForwardsOf(a)', c, ForwardsOf(a)[c] \ {m})
    BY <1>0, <1>5 DEF Takes, ForwardsOf
  <2>3. PairChangedAt(AnswersOf(a), AnswersOf(a)', m.Requestor, c,
                      AnswersOf(a)[m.Requestor][c] \cup {r})
    BY <1>3, <1>6 DEF PairSends, AnswersOf
  <2>4. ChangedAt(HomeOf(a), HomeOf(a)', c, HomeOf(a)[c] \cup {r})
    BY <1>3, <1>7 DEF Sends, HomeOf
  <2>5. /\ StateOf(a)[c] \in {"M", "MI_A"}
        /\ to = IF StateOf(a)[c] = "M" THEN "S" ELSE "SI_A"
    BY <1>12
  <2>6. a \in Addr /\ m.Type = "GetS"
        /\ r \in CacheResponse /\ r.Type = "Data" /\ r.Sender = c
        /\ ChangedAt(StateOf(a), StateOf(a)', c, to)
    BY <1>2, <1>3, <1>11
  <2> QED
    BY <1>8, <1>13, <2>1, <2>2, <2>3, <2>4, <2>5, <2>6, OwnerAnswersRead DEF LineTyped
<1>15. LineHoldsNow(a)'
  BY <1>1, <1>11, <1>14, Untouched DEF LineHoldsNow
<1>16. ASSUME NEW b \in Addr, b # a PROVE LineKept(b)
  <2>1. ForwardsOf(b)' = ForwardsOf(b)
    BY <1>0, <1>5, <1>16 DEF Takes, ForwardsOf
  <2>2. AnswersOf(b)' = AnswersOf(b)
    BY <1>3, <1>6, <1>16 DEF PairSends, AnswersOf
  <2>3. HomeOf(b)' = HomeOf(b)
    BY <1>3, <1>7, <1>16 DEF Sends, HomeOf
  <2> QED
    BY <1>1, <1>11, <1>16, <2>1, <2>2, <2>3, Untouched DEF LineKept
<1>17. LinesInv'
  BY <1>2, <1>15, <1>16, LineStep
<1> QED
  BY <1>10, <1>17

(* The message m, of this type, is the first that cache c has received.    *)
ForwardIs(c, m, type) ==
  /\ forwardToCache[c] # <<>> /\ m = Head(forwardToCache[c]) /\ m.Type = type
  /\ m.addr \in Addr /\ m.Requestor \in Cache

(* Cache c brings line a to state t and waits for as many acks as before.  *)
Moves(c, a, l, t) ==
  /\ Update(c, a, l, t)
  /\ setState(l, t).State = t
  /\ setState(l, t).AcksOutstanding = line[c][a].AcksOutstanding

(* transition({M, MI_A}, FwdGetM): the owner answers the writer.           *)
LEMMA FwdGetMStep ==
  ASSUME TypeOK, TypeOK', ChannelInv, LinesInv, NEW c \in Cache,
         NEW l, NEW t, NEW m, ForwardIs(c, m, "GetM"), sendCacheDataToReq(c, m),
         Moves(c, m.addr, l, t), popForwardQueue(c),
         \/ LineState(c, m.addr) = "M" /\ t = "I"
         \/ LineState(c, m.addr) = "MI_A" /\ t = "II_A",
         UNCHANGED <<requestToDir, requestFromCache, responseToDir, dirVars>>
  PROVE  LinesInv' /\ ChannelInv'
<1>1. PICK a, r : a = m.addr /\ r = Response(c, "Data", a, line[c][a].DataBlk)
  OBVIOUS
<1>2. /\ responseToCache' =
           [responseToCache EXCEPT ![m.Requestor][c] = Append(@, r)]
      /\ Moves(c, a, l, t)
      /\ m.Type = "GetM" /\ a \in Addr /\ m.Requestor \in Cache
      /\ UNCHANGED <<requestToDir, requestFromCache, responseToDir, memQueue, directory>>
  BY <1>1 DEF sendCacheDataToReq, dirVars, ForwardIs
<1>3. /\ r \in CacheResponse /\ r \in ResponseMsg
      /\ r.Type = "Data" /\ r.Sender = c /\ r.addr = a
  BY <1>1, <1>2, MSIConstants DEF MSIConstants, TypeOK, CacheTypeOK, Line, Response, CacheResponse,
     ResponseMsg, Machine
<1>4. c \in Machine
  BY DEF Machine
<1>5. /\ Takes(forwardToCache, forwardToCache', c, m)
      /\ \A y \in Cache : PutAckLast(forwardToCache'[y])
  BY ForwardTaken, Zenon DEF ForwardIs
<1>6. PairSends(responseToCache, responseToCache', m.Requestor, c, r)
  BY <1>2, <1>3, <1>4, ResponseSent, Zenon
<1>7. m \in ForwardsOf(a)[c]
  BY <1>1, <1>5 DEF Takes, ForwardsOf
<1>8. r \notin AnswersOf(a)[m.Requestor][c]
  BY <1>2, <1>3, <1>7, FreshAnswer
<1>9. ChannelInv'
  <2>1. \A y \in Cache : Injective(forwardToCache'[y])
    BY <1>5 DEF Takes
  <2>2. \A y \in Cache, z \in Machine : Injective(responseToCache'[y][z])
    BY <1>3, <1>6, <1>8 DEF PairSends, AnswersOf, ChannelInv
  <2> QED
    BY <1>2, <1>5, <2>1, <2>2 DEF ChannelInv
<1>10. /\ ChangedAt(StateOf(a), StateOf(a)', c, t)
       /\ AcksOf(a)' = AcksOf(a)
       /\ \A b \in Addr : b # a => StateOf(b)' = StateOf(b) /\ AcksOf(b)' = AcksOf(b)
  BY <1>2, LineUpdated DEF Moves
<1>11. LineTyped(a) /\ LineTyped(a)'
  BY <1>2, LineIsTyped, NextLineIsTyped
<1>12. LineHolds(a, SentOf(a), ArrivedOf(a), AtMemory(a), ForwardsOf(a)',
                 AnswersOf(a)', HomeOf(a), directory[a], StateOf(a)', AcksOf(a))
  <2>1. LineHolds(a, SentOf(a), ArrivedOf(a), AtMemory(a), ForwardsOf(a),
                  AnswersOf(a), HomeOf(a), directory[a], StateOf(a), AcksOf(a))
    BY <1>2 DEF LinesInv, LineHoldsNow
  <2>2. ChangedAt(ForwardsOf(a), ForwardsOf(a)', c, ForwardsOf(a)[c] \ {m})
    BY <1>1, <1>5 DEF Takes, ForwardsOf
  <2>3. PairChangedAt(AnswersOf(a), AnswersOf(a)', m.Requestor, c,
                      AnswersOf(a)[m.Requestor][c] \cup {r})
    BY <1>3, <1>6 DEF PairSends, AnswersOf
  <2>4. StateOf(a)[c] = LineState(c, a)
    BY DEF StateOf, LineState
  <2>5. /\ StateOf(a)[c] \in {"M", "MI_A"}
        /\ t = IF StateOf(a)[c] = "M" THEN "I" ELSE "II_A"
    BY <1>1, <2>4
  <2>6. a \in Addr /\ m.Type = "GetM"
        /\ r \in CacheResponse /\ r.Type = "Data" /\ r.Sender = c
        /\ ChangedAt(StateOf(a), StateOf(a)', c, t)
    BY <1>2, <1>3, <1>10
  <2> QED
    BY <1>7, <1>11, <2>1, <2>2, <2>3, <2>5, <2>6, OwnerAnswersWrite DEF LineTyped
<1>13. LineHoldsNow(a)'
  BY <1>2, <1>10, <1>12, Untouched DEF LineHoldsNow
<1>14. ASSUME NEW b \in Addr, b # a PROVE LineKept(b)
  <2>1. ForwardsOf(b)' = ForwardsOf(b)
    BY <1>1, <1>5, <1>14 DEF Takes, ForwardsOf
  <2>2. AnswersOf(b)' = AnswersOf(b)
    BY <1>3, <1>6, <1>14 DEF PairSends, AnswersOf
  <2> QED
    BY <1>2, <1>10, <1>14, <2>1, <2>2, Untouched DEF LineKept
<1>15. LinesInv'
  BY <1>2, <1>13, <1>14, LineStep
<1> QED
  BY <1>9, <1>15

(* transition({S, SM_AD, SI_A}, Inv): the cache acknowledges.              *)
LEMMA InvStep ==
  ASSUME TypeOK, TypeOK', ChannelInv, LinesInv, NEW c \in Cache,
         NEW l, NEW t, NEW m, ForwardIs(c, m, "Inv"), sendInvAcktoReq(c, m),
         Moves(c, m.addr, l, t), popForwardQueue(c),
         \/ LineState(c, m.addr) = "S" /\ t = "I"
         \/ LineState(c, m.addr) = "SM_AD" /\ t = "IM_AD"
         \/ LineState(c, m.addr) = "SI_A" /\ t = "II_A",
         UNCHANGED <<requestToDir, requestFromCache, responseToDir, dirVars>>
  PROVE  LinesInv' /\ ChannelInv'
<1>1. PICK a, r : a = m.addr /\ r = Response(c, "InvAck", a, ZeroBlock)
  OBVIOUS
<1>2. /\ responseToCache' =
           [responseToCache EXCEPT ![m.Requestor][c] = Append(@, r)]
      /\ Moves(c, a, l, t)
      /\ m.Type = "Inv" /\ a \in Addr /\ m.Requestor \in Cache
      /\ UNCHANGED <<requestToDir, requestFromCache, responseToDir, memQueue, directory>>
  BY <1>1 DEF sendInvAcktoReq, dirVars, ForwardIs
<1>3. /\ r \in CacheResponse /\ r \in ResponseMsg
      /\ r.Type = "InvAck" /\ r.Sender = c /\ r.addr = a
  BY <1>1, <1>2, MSIConstants DEF MSIConstants, TypeOK, CacheTypeOK, Line, Response, CacheResponse,
     ResponseMsg, Machine
<1>4. c \in Machine
  BY DEF Machine
<1>5. /\ Takes(forwardToCache, forwardToCache', c, m)
      /\ \A y \in Cache : PutAckLast(forwardToCache'[y])
  BY ForwardTaken, Zenon DEF ForwardIs
<1>6. PairSends(responseToCache, responseToCache', m.Requestor, c, r)
  BY <1>2, <1>3, <1>4, ResponseSent, Zenon
<1>7. m \in ForwardsOf(a)[c]
  BY <1>1, <1>5 DEF Takes, ForwardsOf
<1>8. r \notin AnswersOf(a)[m.Requestor][c]
  BY <1>2, <1>3, <1>7, FreshAck
<1>9. ChannelInv'
  <2>1. \A y \in Cache : Injective(forwardToCache'[y])
    BY <1>5 DEF Takes
  <2>2. \A y \in Cache, z \in Machine : Injective(responseToCache'[y][z])
    BY <1>3, <1>6, <1>8 DEF PairSends, AnswersOf, ChannelInv
  <2> QED
    BY <1>2, <1>5, <2>1, <2>2 DEF ChannelInv
<1>10. /\ ChangedAt(StateOf(a), StateOf(a)', c, t)
       /\ AcksOf(a)' = AcksOf(a)
       /\ \A b \in Addr : b # a => StateOf(b)' = StateOf(b) /\ AcksOf(b)' = AcksOf(b)
  BY <1>2, LineUpdated DEF Moves
<1>11. LineTyped(a) /\ LineTyped(a)'
  BY <1>2, LineIsTyped, NextLineIsTyped
<1>12. LineHolds(a, SentOf(a), ArrivedOf(a), AtMemory(a), ForwardsOf(a)',
                 AnswersOf(a)', HomeOf(a), directory[a], StateOf(a)', AcksOf(a))
  <2>1. LineHolds(a, SentOf(a), ArrivedOf(a), AtMemory(a), ForwardsOf(a),
                  AnswersOf(a), HomeOf(a), directory[a], StateOf(a), AcksOf(a))
    BY <1>2 DEF LinesInv, LineHoldsNow
  <2>2. ChangedAt(ForwardsOf(a), ForwardsOf(a)', c, ForwardsOf(a)[c] \ {m})
    BY <1>1, <1>5 DEF Takes, ForwardsOf
  <2>3. PairChangedAt(AnswersOf(a), AnswersOf(a)', m.Requestor, c,
                      AnswersOf(a)[m.Requestor][c] \cup {r})
    BY <1>3, <1>6 DEF PairSends, AnswersOf
  <2>4. StateOf(a)[c] = LineState(c, a)
    BY DEF StateOf, LineState
  <2>5. \/ StateOf(a)[c] = "S" /\ t = "I"
        \/ StateOf(a)[c] = "SM_AD" /\ t = "IM_AD"
        \/ StateOf(a)[c] = "SI_A" /\ t = "II_A"
    BY <1>1, <2>4
  <2>6. a \in Addr /\ m.Type = "Inv"
        /\ r \in ResponseMsg /\ r.Type = "InvAck" /\ r.Sender = c
        /\ ChangedAt(StateOf(a), StateOf(a)', c, t)
    BY <1>2, <1>3, <1>10
  <2> QED
    BY <1>7, <1>11, <2>1, <2>2, <2>3, <2>5, <2>6, Invalidated DEF LineTyped
<1>13. LineHoldsNow(a)'
  BY <1>2, <1>10, <1>12, Untouched DEF LineHoldsNow
<1>14. ASSUME NEW b \in Addr, b # a PROVE LineKept(b)
  <2>1. ForwardsOf(b)' = ForwardsOf(b)
    BY <1>1, <1>5, <1>14 DEF Takes, ForwardsOf
  <2>2. AnswersOf(b)' = AnswersOf(b)
    BY <1>3, <1>6, <1>14 DEF PairSends, AnswersOf
  <2> QED
    BY <1>2, <1>10, <1>14, <2>1, <2>2, Untouched DEF LineKept
<1>15. LinesInv'
  BY <1>2, <1>13, <1>14, LineStep
<1> QED
  BY <1>9, <1>15

(* transition({MI_A, SI_A, II_A}, PutAck): nothing else is to come for the *)
(* line.                                                                   *)
LEMMA PutAckStep ==
  ASSUME TypeOK, TypeOK', ChannelInv, LinesInv, NEW c \in Cache,
         PutAck(c), UNCHANGED dirVars
  PROVE  LinesInv' /\ ChannelInv'
<1>1. PICK m, a, l : m = Head(forwardToCache[c]) /\ a = m.addr
                     /\ l = deallocateCacheBlock(line[c][a])
  OBVIOUS
<1>2. /\ Forwarded(c, "PutAck", PutStates)
      /\ Update(c, a, l, "I") /\ popForwardQueue(c)
      /\ UNCHANGED <<requestToDir, requestFromCache, responseToDir, responseToCache,
                     memQueue, directory>>
  BY <1>1 DEF PutAck, dirVars, PutStates
<1>3. /\ forwardToCache[c] # <<>> /\ m.Type = "PutAck" /\ LineState(c, a) \in PutStates
      /\ a \in Addr
  BY <1>1, <1>2, ForwardHead DEF Forwarded
<1>4. /\ Takes(forwardToCache, forwardToCache', c, m)
      /\ \A y \in Cache : PutAckLast(forwardToCache'[y])
  BY <1>1, <1>2, <1>3, ForwardTaken, Zenon
<1>5. ForwardsOf(a)[c] = {m}
  <2>1. forwardToCache[c] \in Seq(ForwardMsg) /\ PutAckLast(forwardToCache[c])
    BY DEF TypeOK, ChannelsTypeOK, ChannelInv
  <2>2. Messages(forwardToCache[c], a) = {m}
    BY <1>1, <1>3, <2>1, PutAckAlone
  <2> QED
    BY <2>2, Zenon DEF ForwardsOf, LineOf
<1>6. ChannelInv'
  <2>1. \A y \in Cache : Injective(forwardToCache'[y])
    BY <1>4 DEF Takes
  <2> QED
    BY <1>2, <1>4, <2>1 DEF ChannelInv
<1>7. /\ ChangedAt(StateOf(a), StateOf(a)', c, "I")
      /\ AcksOf(a)' = AcksOf(a)
      /\ \A b \in Addr : b # a => StateOf(b)' = StateOf(b) /\ AcksOf(b)' = AcksOf(b)
  <2>1. line[c][a] \in Line
    BY <1>3 DEF TypeOK, CacheTypeOK
  <2>2. /\ setState(l, "I").State = "I"
        /\ setState(l, "I").AcksOutstanding = line[c][a].AcksOutstanding
    BY <1>1, <2>1 DEF setState, deallocateCacheBlock, Line
  <2> QED
    BY <1>2, <1>3, <2>2, LineUpdated
<1>8. LineTyped(a) /\ LineTyped(a)'
  BY <1>3, LineIsTyped, NextLineIsTyped
<1>9. LineHolds(a, SentOf(a), ArrivedOf(a), AtMemory(a), ForwardsOf(a)',
                AnswersOf(a), HomeOf(a), directory[a], StateOf(a)', AcksOf(a))
  <2>1. LineHolds(a, SentOf(a), ArrivedOf(a), AtMemory(a), ForwardsOf(a),
                  AnswersOf(a), HomeOf(a), directory[a], StateOf(a), AcksOf(a))
    BY <1>3 DEF LinesInv, LineHoldsNow
  <2>2. ChangedAt(ForwardsOf(a), ForwardsOf(a)', c, {})
    BY <1>1, <1>4, <1>5 DEF Takes, ForwardsOf
  <2>3. a \in Addr /\ m.Type = "PutAck" /\ StateOf(a)[c] \in PutStates
        /\ ChangedAt(StateOf(a), StateOf(a)', c, "I")
    BY <1>3, <1>7 DEF StateOf, LineState
  <2> QED
    BY <1>5, <1>8, <2>1, <2>2, <2>3, PutAcked DEF LineTyped
<1>10. LineHoldsNow(a)'
  BY <1>2, <1>7, <1>9, Untouched DEF LineHoldsNow
<1>11. ASSUME NEW b \in Addr, b # a PROVE LineKept(b)
  <2>1. ForwardsOf(b)' = ForwardsOf(b)
    BY <1>1, <1>4, <1>11 DEF Takes, ForwardsOf
  <2> QED
    BY <1>2, <1>7, <1>11, <2>1, Untouched DEF LineKept
<1>12. LinesInv'
  BY <1>3, <1>10, <1>11, LineStep
<1> QED
  BY <1>6, <1>12

-----------------------------------------------------------------------------
(* A cache takes a response.                                               *)

(* The message m is the first that cache c has received from s, and is     *)
(* taken; line m.addr of the cache comes to be l in state t.               *)
Collects(c, s, m, l, t) ==
  /\ responseToCache[c][s] # <<>> /\ m = Head(responseToCache[c][s])
  /\ popResponseQueue(c, s)
  /\ Update(c, m.addr, l, t)
  /\ UNCHANGED <<requestToDir, requestFromCache, forwardToCache, responseToDir,
                 memQueue, directory>>

(* A cache takes the first response of a sender.                           *)
LEMMA ResponseTaken ==
  ASSUME TypeOK, ChannelInv, NEW c \in Cache, NEW s \in Machine,
         NEW m, NEW l, NEW t, Collects(c, s, m, l, t)
  PROVE  /\ m \in ResponseMsg
         /\ PairTakes(responseToCache, responseToCache', c, s, m)
<1>1. responseToCache \in [Cache -> [Machine -> Seq(ResponseMsg)]]
  BY DEF TypeOK, ChannelsTypeOK
<1>2. \A y \in Cache, z \in Machine : Injective(responseToCache[y][z])
  BY DEF ChannelInv
<1>3. /\ responseToCache' = [responseToCache EXCEPT ![c][s] = Tail(@)]
      /\ responseToCache[c][s] # <<>> /\ m = Head(responseToCache[c][s])
  BY DEF Collects, popResponseQueue
<1> QED
  BY <1>1, <1>2, <1>3, PairTail, Zenon

(* What the line sees of it, and who sent the message.                     *)
LEMMA ResponseSeen ==
  ASSUME TypeOK, ChannelInv, LinesInv, NEW c \in Cache, NEW s \in Machine,
         NEW m, NEW a, NEW l, NEW t, Collects(c, s, m, l, t), a = m.addr
  PROVE  /\ m \in ResponseMsg /\ a \in Addr /\ m.Acks \in Int
         /\ m \in AnswersOf(a)[c][s] /\ m.Sender = s
         /\ PairChangedAt(AnswersOf(a), AnswersOf(a)', c, s, AnswersOf(a)[c][s] \ {m})
         /\ ChangedAt(StateOf(a), StateOf(a)', c, setState(l, t).State)
         /\ ChangedAt(AcksOf(a), AcksOf(a)', c, setState(l, t).AcksOutstanding)
<1>1. m \in ResponseMsg /\ PairTakes(responseToCache, responseToCache', c, s, m)
  BY ResponseTaken
<1>2. a \in Addr /\ m.Acks \in Int
  BY <1>1 DEF ResponseMsg
<1>3. /\ m \in AnswersOf(a)[c][s]
      /\ PairChangedAt(AnswersOf(a), AnswersOf(a)', c, s, AnswersOf(a)[c][s] \ {m})
  BY <1>1 DEF PairTakes, AnswersOf
<1>4. m.Sender = s
  <2>1. PICK stage \in StageType, by \in ByType,
             chain \in Seq(Cache), inv \in SUBSET Cache, ack \in SUBSET Cache :
          LineInvNow(a, stage, by, chain, inv, ack)
    BY <1>2, Witnesses
  <2>2. ResponsesOK(AnswersOf(a))
    BY <2>1, Zenon DEF LineInvNow, LineInv
  <2> QED
    BY <1>3, <2>2 DEF ResponsesOK
<1>5. /\ ChangedAt(StateOf(a), StateOf(a)', c, setState(l, t).State)
      /\ ChangedAt(AcksOf(a), AcksOf(a)', c, setState(l, t).AcksOutstanding)
  <2>1. Update(c, a, l, t)
    BY DEF Collects
  <2> QED
    BY <1>2, <2>1, LineUpdated
<1> QED
  BY <1>1, <1>2, <1>3, <1>4, <1>5

(* It is all that the step changes.                                        *)
LEMMA ResponseLine ==
  ASSUME TypeOK, ChannelInv, LinesInv, NEW c \in Cache, NEW s \in Machine,
         NEW m, NEW a, NEW l, NEW t, Collects(c, s, m, l, t), a = m.addr,
         LineHolds(a, SentOf(a), ArrivedOf(a), AtMemory(a), ForwardsOf(a), AnswersOf(a)',
                   HomeOf(a), directory[a], StateOf(a)', AcksOf(a)')
  PROVE  LinesInv' /\ ChannelInv'
<1>1. m \in ResponseMsg /\ PairTakes(responseToCache, responseToCache', c, s, m)
  BY ResponseTaken
<1>2. a \in Addr
  BY <1>1 DEF ResponseMsg
<1>3. UNCHANGED <<requestToDir, requestFromCache, forwardToCache, responseToDir,
                  memQueue, directory>>
  BY DEF Collects
<1>4. ChannelInv'
  <2>1. \A y \in Cache, z \in Machine : Injective(responseToCache'[y][z])
    BY <1>1 DEF PairTakes
  <2> QED
    BY <1>3, <2>1 DEF ChannelInv
<1>5. LineHoldsNow(a)'
  BY <1>3, Untouched DEF LineHoldsNow
<1>6. ASSUME NEW b \in Addr, b # a PROVE LineKept(b)
  <2>1. AnswersOf(b)' = AnswersOf(b)
    BY <1>1, <1>6 DEF PairTakes, AnswersOf
  <2>2. Update(c, a, l, t)
    BY DEF Collects
  <2>3. StateOf(b)' = StateOf(b) /\ AcksOf(b)' = AcksOf(b)
    BY <1>2, <1>6, <2>2, LineUpdated
  <2> QED
    BY <1>3, <2>1, <2>3, Untouched DEF LineKept
<1>7. LinesInv'
  BY <1>2, <1>5, <1>6, LineStep
<1> QED
  BY <1>4, <1>7

(* The line as the step finds it.                                          *)
LEMMA LineNow ==
  ASSUME LinesInv, NEW a \in Addr
  PROVE  LineHolds(a, SentOf(a), ArrivedOf(a), AtMemory(a), ForwardsOf(a), AnswersOf(a),
                   HomeOf(a), directory[a], StateOf(a), AcksOf(a))
  BY DEF LinesInv, LineHoldsNow

(* What the steps make of the block and TBE of a cache that has both.      *)
LEMMA HasBoth ==
  ASSUME TypeOK, AllocInv, NEW c \in Cache, NEW a \in Addr,
         line[c][a].tbe, LineState(c, a) # "I"
  PROVE  line[c][a] \in Line /\ line[c][a].block
  BY DEF TypeOK, CacheTypeOK, AllocInv, AllocationFits, LineState

(* The block is written and the TBE gone: no acks are counted any more.    *)
LEMMA Finished ==
  ASSUME NEW k \in Line, k.block, NEW d, NEW t
  PROVE  /\ setState(deallocateTBE(writeDataToCache(k, d)), t).State = t
         /\ setState(deallocateTBE(writeDataToCache(k, d)), t).AcksOutstanding = 0
  BY DEF setState, deallocateTBE, writeDataToCache, Line

(* The acks that the data brings are added to the TBE's.                   *)
LEMMA Stored ==
  ASSUME NEW k \in Line, k.block, NEW d, NEW n, NEW t
  PROVE  /\ setState(storeAcks(writeDataToCache(k, d), n), t).State = t
         /\ setState(storeAcks(writeDataToCache(k, d), n), t).AcksOutstanding =
              n + k.AcksOutstanding
  BY DEF setState, storeAcks, writeDataToCache, Line

(* An InvAck takes one from the TBE's.                                     *)
LEMMA Decreased ==
  ASSUME NEW k \in Line, k.block, NEW t
  PROVE  /\ setState(decrAcks(k), t).State = t
         /\ setState(decrAcks(k), t).AcksOutstanding = k.AcksOutstanding - 1
  BY DEF setState, decrAcks, Line

(* transition(IS_D, {DataDirNoAcks, DataOwner}, S)                         *)
LEMMA ReadDataStep ==
  ASSUME TypeOK, TypeOK', ChannelInv, AllocInv, LinesInv, NEW c \in Cache, NEW s \in Machine,
         IS_D_Data(c, s), UNCHANGED dirVars
  PROVE  LinesInv' /\ ChannelInv'
<1>1. PICK m, a, d, l :
        /\ m = Head(responseToCache[c][s]) /\ a = m.addr /\ d = m.DataBlk
        /\ l = deallocateTBE(writeDataToCache(line[c][a], d))
  OBVIOUS
<1>2. /\ Collects(c, s, m, l, "S")
      /\ ResponseAssertsHold(c, m)
      /\ ResponseEvent(m, line[c][a].AcksOutstanding) \in {"DataDirNoAcks", "DataOwner"}
      /\ LineState(c, a) = "IS_D"
  BY <1>1 DEF IS_D_Data, Responded, Collects, dirVars
<1>3. /\ m \in ResponseMsg /\ a \in Addr /\ m.Acks \in Int
      /\ m \in AnswersOf(a)[c][s] /\ m.Sender = s
      /\ PairChangedAt(AnswersOf(a), AnswersOf(a)', c, s, AnswersOf(a)[c][s] \ {m})
      /\ ChangedAt(StateOf(a), StateOf(a)', c, setState(l, "S").State)
      /\ ChangedAt(AcksOf(a), AcksOf(a)', c, setState(l, "S").AcksOutstanding)
  BY <1>1, <1>2, ResponseSeen
<1>4. /\ StateOf(a)[c] = LineState(c, a)
      /\ AcksOf(a)[c] = line[c][a].AcksOutstanding
  BY DEF StateOf, AcksOf, LineState
<1>5. m.Type = "Data"
  BY <1>1, <1>2, <1>3, <1>4 DEF ResponseEvent, ResponseAssertsHold, ResponseMsg
<1>6. /\ setState(l, "S").State = "S"
      /\ setState(l, "S").AcksOutstanding = 0
  <2>1. line[c][a] \in Line /\ line[c][a].block
    <3>1. line[c][a].tbe /\ LineState(c, a) # "I" /\ a \in Addr
      BY <1>1, <1>2, <1>3 DEF ResponseAssertsHold, Stalled
    <3> QED
      BY <3>1, HasBoth
  <2>2. l = deallocateTBE(writeDataToCache(line[c][a], d))
    BY <1>1
  <2> QED
    BY <2>1, <2>2, Finished
<1>7. LineTyped(a) /\ LineTyped(a)'
  BY <1>3, LineIsTyped, NextLineIsTyped
<1>8. LineHolds(a, SentOf(a), ArrivedOf(a), AtMemory(a), ForwardsOf(a), AnswersOf(a)',
                HomeOf(a), directory[a], StateOf(a)', AcksOf(a)')
  <2>1. LineHolds(a, SentOf(a), ArrivedOf(a), AtMemory(a), ForwardsOf(a), AnswersOf(a),
                  HomeOf(a), directory[a], StateOf(a), AcksOf(a))
    BY <1>3, LineNow
  <2>2. /\ m.Type = "Data" /\ StateOf(a)[c] = "IS_D" /\ a \in Addr
        /\ m \in AnswersOf(a)[c][s]
        /\ PairChangedAt(AnswersOf(a), AnswersOf(a)', c, s, AnswersOf(a)[c][s] \ {m})
        /\ ChangedAt(StateOf(a), StateOf(a)', c, "S")
        /\ ChangedAt(AcksOf(a), AcksOf(a)', c, 0)
    BY <1>2, <1>3, <1>4, <1>5, <1>6
  <2> QED
    BY <1>7, <2>1, <2>2, ReadCompletes DEF LineTyped
<1> QED
  BY <1>1, <1>2, <1>8, ResponseLine

(* transition({IM_AD, SM_AD}, {DataDirNoAcks, DataOwner}, M)               *)
LEMMA UpgradeStep ==
  ASSUME TypeOK, TypeOK', ChannelInv, AllocInv, LinesInv, NEW c \in Cache, NEW s \in Machine,
         NEW d \in Data, Upgrade_Data(c, s, d), UNCHANGED dirVars
  PROVE  LinesInv' /\ ChannelInv'
<1>1. PICK m, a, l :
        /\ m = Head(responseToCache[c][s]) /\ a = m.addr
        /\ l = deallocateTBE(writeDataToCache(line[c][a], d))
  OBVIOUS
<1>2. /\ Collects(c, s, m, l, "M")
      /\ ResponseAssertsHold(c, m)
      /\ ResponseEvent(m, line[c][a].AcksOutstanding) \in {"DataDirNoAcks", "DataOwner"}
      /\ LineState(c, a) \in {"IM_AD", "SM_AD"}
  BY <1>1 DEF Upgrade_Data, Responded, Collects, dirVars
<1>3. /\ m \in ResponseMsg /\ a \in Addr /\ m.Acks \in Int
      /\ m \in AnswersOf(a)[c][s] /\ m.Sender = s
      /\ PairChangedAt(AnswersOf(a), AnswersOf(a)', c, s, AnswersOf(a)[c][s] \ {m})
      /\ ChangedAt(StateOf(a), StateOf(a)', c, setState(l, "M").State)
      /\ ChangedAt(AcksOf(a), AcksOf(a)', c, setState(l, "M").AcksOutstanding)
  BY <1>1, <1>2, ResponseSeen
<1>4. /\ StateOf(a)[c] = LineState(c, a)
      /\ AcksOf(a)[c] = line[c][a].AcksOutstanding
  BY DEF StateOf, AcksOf, LineState
<1>5. m.Type = "Data" /\ (s = Directory => m.Acks + line[c][a].AcksOutstanding = 0)
  BY <1>1, <1>2, <1>3, <1>4 DEF ResponseEvent, ResponseAssertsHold, ResponseMsg
<1>6. /\ setState(l, "M").State = "M"
      /\ setState(l, "M").AcksOutstanding = 0
  <2>1. line[c][a] \in Line /\ line[c][a].block
    <3>1. line[c][a].tbe /\ LineState(c, a) # "I" /\ a \in Addr
      BY <1>1, <1>2, <1>3 DEF ResponseAssertsHold, Stalled
    <3> QED
      BY <3>1, HasBoth
  <2>2. l = deallocateTBE(writeDataToCache(line[c][a], d))
    BY <1>1
  <2> QED
    BY <2>1, <2>2, Finished
<1>7. LineTyped(a) /\ LineTyped(a)'
  BY <1>3, LineIsTyped, NextLineIsTyped
<1>8. LineHolds(a, SentOf(a), ArrivedOf(a), AtMemory(a), ForwardsOf(a), AnswersOf(a)',
                HomeOf(a), directory[a], StateOf(a)', AcksOf(a)')
  <2>1. LineHolds(a, SentOf(a), ArrivedOf(a), AtMemory(a), ForwardsOf(a), AnswersOf(a),
                  HomeOf(a), directory[a], StateOf(a), AcksOf(a))
    BY <1>3, LineNow
  <2>2. /\ m.Type = "Data" /\ m.Acks \in Int /\ StateOf(a)[c] \in {"IM_AD", "SM_AD"}
        /\ s = Directory => m.Acks + AcksOf(a)[c] = 0
        /\ a \in Addr /\ m \in AnswersOf(a)[c][s]
        /\ PairChangedAt(AnswersOf(a), AnswersOf(a)', c, s, AnswersOf(a)[c][s] \ {m})
    BY <1>2, <1>3, <1>4, <1>5
  <2>3. PICK t, n : t = "M" /\ n = 0
    OBVIOUS
  <2>4. /\ ChangedAt(StateOf(a), StateOf(a)', c, t)
        /\ ChangedAt(AcksOf(a), AcksOf(a)', c, n)
    BY <1>3, <1>6, <2>3
  <2>5. /\ n \in Int
        /\ \/ t = "M" /\ n = 0 /\ (s = Directory => m.Acks + AcksOf(a)[c] = 0)
           \/ t \in {"IM_A", "SM_A"} /\ s = Directory /\ n = m.Acks + AcksOf(a)[c]
    BY <2>2, <2>3
  <2> QED
    BY <1>7, <2>1, <2>2, <2>4, <2>5, DataTaken DEF LineTyped
<1> QED
  BY <1>1, <1>2, <1>8, ResponseLine

(* transition(IM_AD, DataDirAcks, IM_A) and transition(SM_AD, DataDirAcks, *)
(* SM_A)                                                                   *)
LEMMA CountedDataStep ==
  ASSUME TypeOK, TypeOK', ChannelInv, AllocInv, LinesInv, NEW c \in Cache, NEW s \in Machine,
         NEW from, NEW to,
         \/ from = "IM_AD" /\ to = "IM_A"
         \/ from = "SM_AD" /\ to = "SM_A",
         DataDirAcks(c, s, from, to), UNCHANGED dirVars
  PROVE  LinesInv' /\ ChannelInv'
<1>1. PICK m, a, d, n, l :
        /\ m = Head(responseToCache[c][s]) /\ a = m.addr /\ d = m.DataBlk /\ n = m.Acks
        /\ l = storeAcks(writeDataToCache(line[c][a], d), n)
  OBVIOUS
<1>2. /\ Collects(c, s, m, l, to)
      /\ ResponseAssertsHold(c, m)
      /\ ResponseEvent(m, line[c][a].AcksOutstanding) \in {"DataDirAcks"}
      /\ LineState(c, a) = from
  BY <1>1 DEF DataDirAcks, Responded, Collects, dirVars
<1>3. /\ m \in ResponseMsg /\ a \in Addr /\ m.Acks \in Int
      /\ m \in AnswersOf(a)[c][s] /\ m.Sender = s
      /\ PairChangedAt(AnswersOf(a), AnswersOf(a)', c, s, AnswersOf(a)[c][s] \ {m})
      /\ ChangedAt(StateOf(a), StateOf(a)', c, setState(l, to).State)
      /\ ChangedAt(AcksOf(a), AcksOf(a)', c, setState(l, to).AcksOutstanding)
  BY <1>1, <1>2, ResponseSeen
<1>4. /\ StateOf(a)[c] = LineState(c, a)
      /\ AcksOf(a)[c] = line[c][a].AcksOutstanding
  BY DEF StateOf, AcksOf, LineState
<1>5. m.Type = "Data" /\ s = Directory
  BY <1>1, <1>2, <1>3, <1>4 DEF ResponseEvent, ResponseAssertsHold, ResponseMsg
<1>6. /\ setState(l, to).State = to
      /\ setState(l, to).AcksOutstanding = m.Acks + line[c][a].AcksOutstanding
  <2>1. line[c][a] \in Line /\ line[c][a].block
    <3>1. line[c][a].tbe /\ LineState(c, a) # "I" /\ a \in Addr
      BY <1>1, <1>2, <1>3 DEF ResponseAssertsHold, Stalled
    <3> QED
      BY <3>1, HasBoth
  <2>2. l = storeAcks(writeDataToCache(line[c][a], d), n) /\ n = m.Acks
    BY <1>1
  <2> QED
    BY <2>1, <2>2, Stored
<1>7. LineTyped(a) /\ LineTyped(a)'
  BY <1>3, LineIsTyped, NextLineIsTyped
<1>8. LineHolds(a, SentOf(a), ArrivedOf(a), AtMemory(a), ForwardsOf(a), AnswersOf(a)',
                HomeOf(a), directory[a], StateOf(a)', AcksOf(a)')
  <2>1. LineHolds(a, SentOf(a), ArrivedOf(a), AtMemory(a), ForwardsOf(a), AnswersOf(a),
                  HomeOf(a), directory[a], StateOf(a), AcksOf(a))
    BY <1>3, LineNow
  <2>2. /\ m.Type = "Data" /\ m.Acks \in Int /\ StateOf(a)[c] \in {"IM_AD", "SM_AD"}
        /\ s = Directory /\ to \in {"IM_A", "SM_A"}
        /\ m.Acks + AcksOf(a)[c] \in Int
        /\ a \in Addr /\ m \in AnswersOf(a)[c][s]
        /\ PairChangedAt(AnswersOf(a), AnswersOf(a)', c, s, AnswersOf(a)[c][s] \ {m})
        /\ ChangedAt(StateOf(a), StateOf(a)', c, to)
        /\ ChangedAt(AcksOf(a), AcksOf(a)', c, m.Acks + AcksOf(a)[c])
    <3>1. AcksOf(a)[c] \in Int
      BY <1>7, AcksTypes DEF LineTyped
    <3> QED
      BY <1>2, <1>3, <1>4, <1>5, <1>6, <3>1
  <2> QED
    BY <1>7, <2>1, <2>2, DataTaken DEF LineTyped
<1> QED
  BY <1>1, <1>2, <1>8, ResponseLine

(* transition({IM_AD, IM_A, SM_AD, SM_A}, InvAck)                          *)
LEMMA CountedAckStep ==
  ASSUME TypeOK, TypeOK', ChannelInv, AllocInv, LinesInv, NEW c \in Cache, NEW s \in Machine,
         InvAck(c, s), UNCHANGED dirVars
  PROVE  LinesInv' /\ ChannelInv'
<1>1. PICK m, a, l :
        /\ m = Head(responseToCache[c][s]) /\ a = m.addr
        /\ l = decrAcks(line[c][a])
  OBVIOUS
<1>2. /\ Collects(c, s, m, l, LineState(c, a))
      /\ ResponseAssertsHold(c, m)
      /\ ResponseEvent(m, line[c][a].AcksOutstanding) \in {"InvAck"}
      /\ LineState(c, a) \in Stalled
  BY <1>1 DEF InvAck, Responded, Stalled, Collects, dirVars
<1>3. /\ m \in ResponseMsg /\ a \in Addr /\ m.Acks \in Int
      /\ m \in AnswersOf(a)[c][s] /\ m.Sender = s
      /\ PairChangedAt(AnswersOf(a), AnswersOf(a)', c, s, AnswersOf(a)[c][s] \ {m})
      /\ ChangedAt(StateOf(a), StateOf(a)', c, setState(l, LineState(c, a)).State)
      /\ ChangedAt(AcksOf(a), AcksOf(a)', c, setState(l, LineState(c, a)).AcksOutstanding)
  BY <1>1, <1>2, ResponseSeen
<1>4. /\ StateOf(a)[c] = LineState(c, a)
      /\ AcksOf(a)[c] = line[c][a].AcksOutstanding
  BY DEF StateOf, AcksOf, LineState
<1>5. m.Type = "InvAck"
  BY <1>1, <1>2, <1>3, <1>4 DEF ResponseEvent, ResponseAssertsHold, ResponseMsg
<1>6. /\ setState(l, LineState(c, a)).State = LineState(c, a)
      /\ setState(l, LineState(c, a)).AcksOutstanding = line[c][a].AcksOutstanding - 1
  <2>1. line[c][a] \in Line /\ line[c][a].block
    <3>1. line[c][a].tbe /\ LineState(c, a) # "I" /\ a \in Addr
      BY <1>1, <1>2, <1>3 DEF ResponseAssertsHold, Stalled
    <3> QED
      BY <3>1, HasBoth
  <2>2. l = decrAcks(line[c][a])
    BY <1>1
  <2> QED
    BY <2>1, <2>2, Decreased
<1>7. LineTyped(a) /\ LineTyped(a)'
  BY <1>3, LineIsTyped, NextLineIsTyped
<1>8. LineHolds(a, SentOf(a), ArrivedOf(a), AtMemory(a), ForwardsOf(a), AnswersOf(a)',
                HomeOf(a), directory[a], StateOf(a)', AcksOf(a)')
  <2>1. LineHolds(a, SentOf(a), ArrivedOf(a), AtMemory(a), ForwardsOf(a), AnswersOf(a),
                  HomeOf(a), directory[a], StateOf(a), AcksOf(a))
    BY <1>3, LineNow
  <2>2. /\ m.Type = "InvAck" /\ StateOf(a)[c] \in Stalled
        /\ AcksOf(a)[c] - 1 \in Int
        /\ a \in Addr /\ m \in AnswersOf(a)[c][s]
        /\ PairChangedAt(AnswersOf(a), AnswersOf(a)', c, s, AnswersOf(a)[c][s] \ {m})
        /\ ChangedAt(StateOf(a), StateOf(a)', c, StateOf(a)[c])
        /\ ChangedAt(AcksOf(a), AcksOf(a)', c, AcksOf(a)[c] - 1)
    <3>1. AcksOf(a)[c] \in Int
      BY <1>7, AcksTypes DEF LineTyped
    <3> QED
      BY <1>2, <1>3, <1>4, <1>5, <1>6, <3>1
  <2> QED
    BY <1>7, <2>1, <2>2, AckTaken DEF LineTyped
<1> QED
  BY <1>1, <1>2, <1>8, ResponseLine

(* transition({IM_A, SM_A}, LastInvAck, M)                                 *)
LEMMA LastAckStep ==
  ASSUME TypeOK, TypeOK', ChannelInv, AllocInv, LinesInv, NEW c \in Cache, NEW s \in Machine,
         NEW d \in Data, LastInvAck(c, s, d), UNCHANGED dirVars
  PROVE  LinesInv' /\ ChannelInv'
<1>1. PICK m, a, l :
        /\ m = Head(responseToCache[c][s]) /\ a = m.addr
        /\ l = deallocateTBE(writeDataToCache(line[c][a], d))
  OBVIOUS
<1>2. /\ Collects(c, s, m, l, "M")
      /\ ResponseAssertsHold(c, m)
      /\ ResponseEvent(m, line[c][a].AcksOutstanding) \in {"LastInvAck"}
      /\ LineState(c, a) \in {"IM_A", "SM_A"}
  BY <1>1 DEF LastInvAck, Responded, Collects, dirVars
<1>3. /\ m \in ResponseMsg /\ a \in Addr /\ m.Acks \in Int
      /\ m \in AnswersOf(a)[c][s] /\ m.Sender = s
      /\ PairChangedAt(AnswersOf(a), AnswersOf(a)', c, s, AnswersOf(a)[c][s] \ {m})
      /\ ChangedAt(StateOf(a), StateOf(a)', c, setState(l, "M").State)
      /\ ChangedAt(AcksOf(a), AcksOf(a)', c, setState(l, "M").AcksOutstanding)
  BY <1>1, <1>2, ResponseSeen
<1>4. /\ StateOf(a)[c] = LineState(c, a)
      /\ AcksOf(a)[c] = line[c][a].AcksOutstanding
  BY DEF StateOf, AcksOf, LineState
<1>5. m.Type = "InvAck" /\ line[c][a].AcksOutstanding = 1
  BY <1>1, <1>2, <1>3, <1>4 DEF ResponseEvent, ResponseAssertsHold, ResponseMsg
<1>6. /\ setState(l, "M").State = "M"
      /\ setState(l, "M").AcksOutstanding = 0
  <2>1. line[c][a] \in Line /\ line[c][a].block
    <3>1. line[c][a].tbe /\ LineState(c, a) # "I" /\ a \in Addr
      BY <1>1, <1>2, <1>3 DEF ResponseAssertsHold, Stalled
    <3> QED
      BY <3>1, HasBoth
  <2>2. l = deallocateTBE(writeDataToCache(line[c][a], d))
    BY <1>1
  <2> QED
    BY <2>1, <2>2, Finished
<1>7. LineTyped(a) /\ LineTyped(a)'
  BY <1>3, LineIsTyped, NextLineIsTyped
<1>8. LineHolds(a, SentOf(a), ArrivedOf(a), AtMemory(a), ForwardsOf(a), AnswersOf(a)',
                HomeOf(a), directory[a], StateOf(a)', AcksOf(a)')
  <2>1. LineHolds(a, SentOf(a), ArrivedOf(a), AtMemory(a), ForwardsOf(a), AnswersOf(a),
                  HomeOf(a), directory[a], StateOf(a), AcksOf(a))
    BY <1>3, LineNow
  <2>2. /\ m.Type = "InvAck" /\ AcksOf(a)[c] = 1
        /\ StateOf(a)[c] \in {"IM_A", "SM_A"} /\ StateOf(a)[c] \in Stalled
        /\ a \in Addr /\ m \in AnswersOf(a)[c][s]
        /\ PairChangedAt(AnswersOf(a), AnswersOf(a)', c, s, AnswersOf(a)[c][s] \ {m})
    BY <1>2, <1>3, <1>4, <1>5 DEF Stalled
  <2>3. PICK t, n : t = "M" /\ n = 0
    OBVIOUS
  <2>4. /\ ChangedAt(StateOf(a), StateOf(a)', c, t)
        /\ ChangedAt(AcksOf(a), AcksOf(a)', c, n)
    BY <1>3, <1>6, <2>3
  <2>5. /\ n \in Int
        /\ \/ t = StateOf(a)[c] /\ n = AcksOf(a)[c] - 1
           \/ /\ t = "M" /\ n = 0 /\ AcksOf(a)[c] = 1
              /\ StateOf(a)[c] \in {"IM_A", "SM_A"}
    BY <2>2, <2>3
  <2> QED
    BY <1>7, <2>1, <2>2, <2>4, <2>5, AckTaken DEF LineTyped
<1> QED
  BY <1>1, <1>2, <1>8, ResponseLine

-----------------------------------------------------------------------------
(* The mandatory queue.                                                    *)

(* No line sees a step that changes no channel, no entry and no state.     *)
LEMMA UnseenStep ==
  ASSUME ChannelInv, LinesInv,
         UNCHANGED <<channels, memQueue, directory>>,
         \A b \in Addr : StateOf(b)' = StateOf(b) /\ AcksOf(b)' = AcksOf(b)
  PROVE  LinesInv' /\ ChannelInv'
<1>1. UNCHANGED <<requestToDir, requestFromCache, forwardToCache, responseToDir,
                  responseToCache, memQueue, directory>>
  BY DEF channels
<1>2. ASSUME NEW b \in Addr PROVE LineHoldsNow(b)'
  <2>1. LineHoldsNow(b)
    BY DEF LinesInv
  <2> QED
    BY <1>1, <2>1, Untouched DEF LineHoldsNow
<1>3. LinesInv'
  BY <1>2 DEF LinesInv
<1>4. ChannelInv'
  BY <1>1 DEF ChannelInv
<1> QED
  BY <1>3, <1>4

(* A store that hits changes data only.                                    *)
LEMMA StoreHitStep ==
  ASSUME TypeOK, AllocInv, ChannelInv, LinesInv, NEW c \in Cache, NEW a \in Addr,
         NEW d \in Data, M_Store(c, a, d), UNCHANGED dirVars
  PROVE  LinesInv' /\ ChannelInv'
<1>1. /\ LineState(c, a) = "M" /\ Update(c, a, writeDataToCache(line[c][a], d), "M")
      /\ UNCHANGED <<channels, memQueue, directory>>
  BY DEF M_Store, Mandatory, dirVars
<1>2. line[c][a] \in Line /\ line[c][a].block
  BY <1>1 DEF TypeOK, CacheTypeOK, AllocInv, AllocationFits, LineState
<1>3. PICK l : l = writeDataToCache(line[c][a], d)
  OBVIOUS
<1>4. /\ setState(l, "M").State = "M"
      /\ setState(l, "M").AcksOutstanding = line[c][a].AcksOutstanding
  BY <1>2, <1>3 DEF setState, writeDataToCache, Line
<1>5. /\ ChangedAt(StateOf(a), StateOf(a)', c, "M") /\ AcksOf(a)' = AcksOf(a)
      /\ \A b \in Addr : b # a => StateOf(b)' = StateOf(b) /\ AcksOf(b)' = AcksOf(b)
  BY <1>1, <1>3, <1>4, LineUpdated
<1>6. StateOf(a)' = StateOf(a)
  <2>1. \A y \in Cache : line'[y][a].State = line[y][a].State
    BY <1>1, <1>5 DEF ChangedAt, StateOf, LineState
  <2> QED
    BY <2>1, Zenon DEF StateOf
<1> QED
  BY <1>1, <1>5, <1>6, UnseenStep

(* What a cache that starts a request makes of its block and TBE.          *)
LEMMA StartFields ==
  ASSUME NEW k \in Line, NEW t
  PROVE  /\ setState(allocateTBE(allocateCacheBlock(k)), t).State = t
         /\ setState(allocateTBE(allocateCacheBlock(k)), t).AcksOutstanding = 0
         /\ setState(allocateTBE(k), t).State = t
         /\ setState(allocateTBE(k), t).AcksOutstanding = 0
  BY DEF setState, allocateTBE, allocateCacheBlock, Line

(* Every step of the mandatory queue keeps the invariant.                  *)
LEMMA MandatoryStepLines ==
  ASSUME TypeOK, TypeOK', AllocInv, ChannelInv, LinesInv, NEW c \in Cache,
         MandatoryStep(c), UNCHANGED dirVars
  PROVE  LinesInv' /\ ChannelInv'
<1>1. PICK a \in Addr :
        \/ I_Load(c, a) \/ I_Store(c, a) \/ LoadHit(c, a) \/ S_Store(c, a)
        \/ \E d \in Data : M_Store(c, a, d)
        \/ S_Replacement(c, a) \/ M_Replacement(c, a)
  BY DEF MandatoryStep
<1>2. line[c][a] \in Line /\ line[c][a].DataBlk \in Data /\ ZeroBlock \in Data
  <2>1. line[c][a] \in Line
    BY DEF TypeOK, CacheTypeOK
  <2> QED
    BY <2>1, MSIConstants DEF MSIConstants, Line
<1>3. CASE I_Load(c, a)
  <2>1. PICK l : l = allocateTBE(allocateCacheBlock(line[c][a]))
    OBVIOUS
  <2>2. /\ SendRequest(c, "GetS", a, ZeroBlock) /\ Update(c, a, l, "IS_D")
        /\ Starts(LineState(c, a), "GetS", "IS_D")
        /\ UNCHANGED <<requestFromCache, forwardToCache, responseToDir, responseToCache>>
    BY <1>3, <2>1 DEF I_Load, Mandatory, sendGetS, Starts
  <2>3. setState(l, "IS_D").State = "IS_D" /\ setState(l, "IS_D").AcksOutstanding = 0
    BY <1>2, <2>1, StartFields
  <2> QED
    BY <1>2, <2>2, <2>3, StartStep DEF PutStates
<1>4. CASE I_Store(c, a)
  <2>1. PICK l : l = allocateTBE(allocateCacheBlock(line[c][a]))
    OBVIOUS
  <2>2. /\ SendRequest(c, "GetM", a, ZeroBlock) /\ Update(c, a, l, "IM_AD")
        /\ Starts(LineState(c, a), "GetM", "IM_AD")
        /\ UNCHANGED <<requestFromCache, forwardToCache, responseToDir, responseToCache>>
    BY <1>4, <2>1 DEF I_Store, Mandatory, sendGetM, Starts
  <2>3. setState(l, "IM_AD").State = "IM_AD" /\ setState(l, "IM_AD").AcksOutstanding = 0
    BY <1>2, <2>1, StartFields
  <2> QED
    BY <1>2, <2>2, <2>3, StartStep DEF PutStates
<1>5. CASE LoadHit(c, a)
  <2>1. UNCHANGED <<channels, memQueue, directory>> /\ line' = line
    BY <1>5 DEF LoadHit, dirVars
  <2> QED
    BY <2>1, Untouched, UnseenStep
<1>6. CASE S_Store(c, a)
  <2>1. PICK l : l = allocateTBE(line[c][a])
    OBVIOUS
  <2>2. /\ SendRequest(c, "GetM", a, ZeroBlock) /\ Update(c, a, l, "SM_AD")
        /\ Starts(LineState(c, a), "GetM", "SM_AD")
        /\ UNCHANGED <<requestFromCache, forwardToCache, responseToDir, responseToCache>>
    BY <1>6, <2>1 DEF S_Store, Mandatory, sendGetM, Starts
  <2>3. setState(l, "SM_AD").State = "SM_AD" /\ setState(l, "SM_AD").AcksOutstanding = 0
    BY <1>2, <2>1, StartFields
  <2> QED
    BY <1>2, <2>2, <2>3, StartStep DEF PutStates
<1>7. CASE \E d \in Data : M_Store(c, a, d)
  BY <1>7, StoreHitStep
<1>8. CASE S_Replacement(c, a)
  <2>1. /\ SendRequest(c, "PutS", a, ZeroBlock) /\ Update(c, a, line[c][a], "SI_A")
        /\ Starts(LineState(c, a), "PutS", "SI_A") /\ LineState(c, a) # "I"
        /\ UNCHANGED <<requestFromCache, forwardToCache, responseToDir, responseToCache>>
    BY <1>8 DEF S_Replacement, Replacement, sendPutS, Starts
  <2>2. /\ setState(line[c][a], "SI_A").State = "SI_A"
        /\ setState(line[c][a], "SI_A").AcksOutstanding = line[c][a].AcksOutstanding
    BY <2>1, BlockState
  <2> QED
    BY <1>2, <2>1, <2>2, StartStep DEF PutStates
<1>9. CASE M_Replacement(c, a)
  <2>1. /\ SendRequest(c, "PutM", a, line[c][a].DataBlk) /\ Update(c, a, line[c][a], "MI_A")
        /\ Starts(LineState(c, a), "PutM", "MI_A") /\ LineState(c, a) # "I"
        /\ UNCHANGED <<requestFromCache, forwardToCache, responseToDir, responseToCache>>
    BY <1>9 DEF M_Replacement, Replacement, sendPutM, Starts
  <2>2. /\ setState(line[c][a], "MI_A").State = "MI_A"
        /\ setState(line[c][a], "MI_A").AcksOutstanding = line[c][a].AcksOutstanding
    BY <2>1, BlockState
  <2> QED
    BY <1>2, <2>1, <2>2, StartStep DEF PutStates
<1> QED
  BY <1>1, <1>3, <1>4, <1>5, <1>6, <1>7, <1>8, <1>9

-----------------------------------------------------------------------------
(* The steps of a cache.                                                   *)

(* transition(SM_AD, Inv, IM_AD) and transition(SI_A, Inv, II_A).          *)
LEMMA WaitingInvStep ==
  ASSUME TypeOK, TypeOK', AllocInv, ChannelInv, LinesInv, NEW c \in Cache,
         NEW from, NEW to, WaitingInv(c, from, to), UNCHANGED dirVars,
         \/ from = "SM_AD" /\ to = "IM_AD"
         \/ from = "SI_A" /\ to = "II_A"
  PROVE  LinesInv' /\ ChannelInv'
<1>1. PICK m, a : m = Head(forwardToCache[c]) /\ a = m.addr
  OBVIOUS
<1>2. /\ Forwarded(c, "Inv", {from}) /\ sendInvAcktoReq(c, m)
      /\ Update(c, a, line[c][a], to) /\ popForwardQueue(c)
      /\ UNCHANGED <<requestToDir, requestFromCache, responseToDir>>
  BY <1>1 DEF WaitingInv
<1>3. ForwardIs(c, m, "Inv") /\ LineState(c, a) = from
  BY <1>1, <1>2, ForwardHead DEF ForwardIs, Forwarded
<1>4. Moves(c, a, line[c][a], to)
  BY <1>1, <1>2, <1>3, BlockState DEF Moves, ForwardIs
<1> QED
  BY <1>1, <1>2, <1>3, <1>4, InvStep

(* Every step of a cache that takes a forward keeps the invariant.         *)
LEMMA ForwardStepLines ==
  ASSUME TypeOK, TypeOK', AllocInv, ChannelInv, LinesInv, NEW c \in Cache,
         ForwardStep(c), UNCHANGED dirVars
  PROVE  LinesInv' /\ ChannelInv'
<1>1. PICK m, a : m = Head(forwardToCache[c]) /\ a = m.addr
  OBVIOUS
<1>2. CASE M_FwdGetS(c) \/ MI_A_FwdGetS(c)
  BY <1>2, FwdGetSStep DEF M_FwdGetS, MI_A_FwdGetS
<1>3. CASE M_FwdGetM(c)
  <2>1. PICK l : l = deallocateCacheBlock(line[c][a])
    OBVIOUS
  <2>2. /\ Forwarded(c, "GetM", {"M"}) /\ sendCacheDataToReq(c, m)
        /\ Update(c, a, l, "I") /\ popForwardQueue(c)
        /\ UNCHANGED <<requestToDir, requestFromCache, responseToDir>>
    BY <1>1, <1>3, <2>1 DEF M_FwdGetM
  <2>3. ForwardIs(c, m, "GetM") /\ LineState(c, a) = "M"
    BY <1>1, <2>2, ForwardHead DEF ForwardIs, Forwarded
  <2>4. Moves(c, a, l, "I")
    <3>1. line[c][a] \in Line
      BY <1>1, <2>3 DEF TypeOK, CacheTypeOK, ForwardIs
    <3> QED
      BY <2>1, <2>2, <3>1 DEF Moves, setState, deallocateCacheBlock, Line
  <2> QED
    BY <1>1, <2>2, <2>3, <2>4, FwdGetMStep
<1>4. CASE MI_A_FwdGetM(c)
  <2>2. /\ Forwarded(c, "GetM", {"MI_A"}) /\ sendCacheDataToReq(c, m)
        /\ Update(c, a, line[c][a], "II_A") /\ popForwardQueue(c)
        /\ UNCHANGED <<requestToDir, requestFromCache, responseToDir>>
    BY <1>1, <1>4 DEF MI_A_FwdGetM
  <2>3. ForwardIs(c, m, "GetM") /\ LineState(c, a) = "MI_A"
    BY <1>1, <2>2, ForwardHead DEF ForwardIs, Forwarded
  <2>4. Moves(c, a, line[c][a], "II_A")
    <3>1. a \in Addr /\ LineState(c, a) # "I"
      BY <1>1, <2>3 DEF ForwardIs
    <3>2. /\ setState(line[c][a], "II_A").State = "II_A"
          /\ setState(line[c][a], "II_A").AcksOutstanding = line[c][a].AcksOutstanding
      BY <3>1, BlockState
    <3> QED
      BY <2>2, <3>2 DEF Moves
  <2> QED
    BY <1>1, <2>2, <2>3, <2>4, FwdGetMStep
<1>5. CASE S_Inv(c)
  <2>1. PICK l : l = deallocateCacheBlock(line[c][a])
    OBVIOUS
  <2>2. /\ Forwarded(c, "Inv", {"S"}) /\ sendInvAcktoReq(c, m)
        /\ Update(c, a, l, "I") /\ popForwardQueue(c)
        /\ UNCHANGED <<requestToDir, requestFromCache, responseToDir>>
    BY <1>1, <1>5, <2>1 DEF S_Inv
  <2>3. ForwardIs(c, m, "Inv") /\ LineState(c, a) = "S"
    BY <1>1, <2>2, ForwardHead DEF ForwardIs, Forwarded
  <2>4. Moves(c, a, l, "I")
    <3>1. line[c][a] \in Line
      BY <1>1, <2>3 DEF TypeOK, CacheTypeOK, ForwardIs
    <3> QED
      BY <2>1, <2>2, <3>1 DEF Moves, setState, deallocateCacheBlock, Line
  <2> QED
    BY <1>1, <2>2, <2>3, <2>4, InvStep
<1>6. CASE SM_AD_Inv(c)
  BY <1>6, WaitingInvStep DEF SM_AD_Inv
<1>7. CASE SI_A_Inv(c)
  BY <1>7, WaitingInvStep DEF SI_A_Inv
<1>8. CASE PutAck(c)
  BY <1>8, PutAckStep
<1> QED
  BY <1>2, <1>3, <1>4, <1>5, <1>6, <1>7, <1>8 DEF ForwardStep

(* Every step of a cache keeps the invariant.                              *)
LEMMA CacheStepLines ==
  ASSUME TypeOK, TypeOK', AllocInv, ChannelInv, LinesInv, CacheNext, UNCHANGED dirVars
  PROVE  LinesInv' /\ ChannelInv'
<1>1. PICK c \in Cache :
        \/ \E a \in Addr, type \in RequestType : Issue(c, a, type)
        \/ MandatoryStep(c) \/ ForwardStep(c)
        \/ \E s \in Machine : ResponseStep(c, s)
  BY DEF CacheNext
<1>2. CASE \E a \in Addr, type \in RequestType : Issue(c, a, type)
  <2>1. UNCHANGED <<channels, memQueue, directory>> /\ line' = line
    BY <1>2 DEF Issue, dirVars
  <2> QED
    BY <2>1, Untouched, UnseenStep
<1>3. CASE MandatoryStep(c)
  BY <1>3, MandatoryStepLines
<1>4. CASE ForwardStep(c)
  BY <1>4, ForwardStepLines
<1>5. CASE \E s \in Machine : ResponseStep(c, s)
  <2>1. PICK s \in Machine : ResponseStep(c, s)
    BY <1>5
  <2>2. CASE IS_D_Data(c, s)
    BY <2>2, ReadDataStep
  <2>3. CASE InvAck(c, s)
    BY <2>3, CountedAckStep
  <2>4. CASE IM_AD_DataDirAcks(c, s) \/ SM_AD_DataDirAcks(c, s)
    BY <2>4, CountedDataStep DEF IM_AD_DataDirAcks, SM_AD_DataDirAcks
  <2>5. CASE \E d \in Data : Upgrade_Data(c, s, d) \/ LastInvAck(c, s, d)
    BY <2>5, UpgradeStep, LastAckStep
  <2> QED
    BY <2>1, <2>2, <2>3, <2>4, <2>5 DEF ResponseStep
<1> QED
  BY <1>1, <1>2, <1>3, <1>4, <1>5

-----------------------------------------------------------------------------
(* The directory.                                                          *)

(* The request m is the first that the directory has received, and is      *)
(* taken.                                                                  *)
Serves(m) ==
  requestFromCache # <<>> /\ m = Head(requestFromCache) /\ popRequestQueue

(* What the lines see of the request that the directory takes.             *)
LEMMA RequestServed ==
  ASSUME TypeOK, ChannelInv, NEW m, NEW a, Serves(m), a = m.addr
  PROVE  /\ m \in RequestMsg /\ a \in Addr /\ m.Requestor \in Cache
         /\ m \in ArrivedOf(a) /\ ArrivedOf(a)' = ArrivedOf(a) \ {m}
         /\ \A b : b # a => ArrivedOf(b)' = ArrivedOf(b)
         /\ Injective(requestFromCache')
<1>1. /\ requestFromCache \in Seq(RequestMsg) /\ requestFromCache # <<>>
      /\ Injective(requestFromCache)
      /\ m = Head(requestFromCache) /\ requestFromCache' = Tail(requestFromCache)
  BY DEF TypeOK, ChannelsTypeOK, ChannelInv, Serves, popRequestQueue
<1>2. /\ m \in RequestMsg /\ m \in Messages(requestFromCache, m.addr)
      /\ Messages(requestFromCache', m.addr) = Messages(requestFromCache, m.addr) \ {m}
      /\ OthersSee(requestFromCache, requestFromCache', m.addr)
      /\ Injective(requestFromCache')
  BY <1>1, MessagesTaken, Zenon
<1> QED
  BY <1>2 DEF ArrivedOf, OthersSee, RequestMsg

(* The entry of the line, and it alone, changes.                           *)
LEMMA EntryUpdated ==
  ASSUME TypeOK, NEW a \in Addr, NEW e, NEW s, UpdateEntry(a, e, s)
  PROVE  /\ directory'[a] = setDirState(e, s)
         /\ \A b \in Addr : b # a => directory'[b] = directory[b]
  BY DEF UpdateEntry, TypeOK, DirTypeOK

(* The line has one more request at memory.                                *)
LEMMA MemoryQueued ==
  ASSUME NEW type \in {"MEMORY_READ", "MEMORY_WB"}, NEW a \in Addr, NEW r \in Cache,
         NEW d \in Data, queueMemory(type, a, r, d)
  PROVE  /\ \E q \in MemoryMsg : /\ q.Type = type /\ q.OriginalRequestor = r
                                 /\ AtMemory(a)' = AtMemory(a) \cup {q}
         /\ \A b : b # a => AtMemory(b)' = AtMemory(b)
<1> DEFINE q == [Type |-> type, addr |-> a, OriginalRequestor |-> r, DataBlk |-> d]
<1>1. /\ q \in MemoryMsg /\ q.Type = type /\ q.OriginalRequestor = r /\ q.addr = a
      /\ memQueue' = memQueue \cup {q}
  BY DEF queueMemory, MemoryMsg
<1> HIDE DEF q
<1>2. AtMemory(a)' = AtMemory(a) \cup {q}
  BY <1>1 DEF AtMemory
<1>3. \A b : b # a => AtMemory(b)' = AtMemory(b)
  BY <1>1 DEF AtMemory
<1> QED
  BY <1>1, <1>2, <1>3

(* Or one less.                                                            *)
LEMMA MemoryPopped ==
  ASSUME TypeOK, NEW m \in memQueue, popMemQueue(m), NEW a, a = m.addr
  PROVE  /\ a \in Addr /\ m \in AtMemory(a) /\ AtMemory(a)' = AtMemory(a) \ {m}
         /\ \A b : b # a => AtMemory(b)' = AtMemory(b)
  BY DEF popMemQueue, AtMemory, TypeOK, DirTypeOK, MemoryMsg

(* No cache of D has the forward k to come, or a PutAck for its line.      *)
NewTo(D, k) ==
  \A c \in Cache : c \in D =>
    /\ k \notin ForwardsOf(k.addr)[c]
    /\ \A n \in ForwardsOf(k.addr)[c] : n.Type # "PutAck"

(* What the caches see when k, for line a, is sent to those of D.          *)
Multicasts(D, a, k) ==
  /\ \A c \in Cache : ForwardsOf(a)'[c] =
       ForwardsOf(a)[c] \cup (IF c \in D THEN {k} ELSE {})
  /\ \A b : b # a => ForwardsOf(b)' = ForwardsOf(b)
  /\ \A c \in Cache : Injective(forwardToCache'[c]) /\ PutAckLast(forwardToCache'[c])

(* The directory's Forward is a multicast to its destination.              *)
LEMMA ForwardSent ==
  ASSUME TypeOK, ChannelInv, NEW D, NEW type, NEW a \in Addr, NEW r,
         Forward(D, type, a, r), NEW k \in ForwardMsg, k = ForwardOf(type, a, r),
         NewTo(D, k)
  PROVE  Multicasts(D, a, k)
<1>1. forwardToCache \in [Cache -> Seq(ForwardMsg)]
  BY DEF TypeOK, ChannelsTypeOK
<1>2. forwardToCache' =
        [c \in Cache |-> IF c \in D THEN Append(forwardToCache[c], k)
                                    ELSE forwardToCache[c]]
  BY DEF Forward, ForwardOf
<1>3. Broadcasts(forwardToCache, forwardToCache', D, k)
  BY <1>1, <1>2, ArrayBroadcast, Zenon
<1>4. k.addr = a
  BY DEF ForwardOf
<1>5. \A c \in Cache : Injective(forwardToCache[c]) /\ PutAckLast(forwardToCache[c])
  BY DEF ChannelInv
<1>6. /\ \A c \in Cache : ForwardsOf(a)'[c] =
           ForwardsOf(a)[c] \cup (IF c \in D THEN {k} ELSE {})
      /\ \A b : b # a => ForwardsOf(b)' = ForwardsOf(b)
  BY <1>3, <1>4 DEF Broadcasts, ForwardsOf
<1>7. \A c \in Cache : Injective(forwardToCache'[c]) /\ PutAckLast(forwardToCache'[c])
  BY <1>3, <1>4, <1>5 DEF Broadcasts, ForwardsOf, NewTo
<1> QED
  BY <1>6, <1>7 DEF Multicasts

(* A step that leaves the forward network alone sends to no cache.         *)
LEMMA NothingSent ==
  ASSUME ChannelInv, UNCHANGED forwardToCache, NEW a, NEW k
  PROVE  Multicasts({}, a, k)
  BY Untouched DEF ChannelInv, Multicasts

(* The step of the directory concerns line a only.                         *)
Concerns(a) ==
  /\ \A b \in Addr : b # a =>
       /\ AtMemory(b)' = AtMemory(b) /\ directory'[b] = directory[b]
  /\ UNCHANGED <<requestToDir, line>>

(* A step of the directory that serves a request keeps the invariant if it *)
(* keeps that of the line it concerns.                                     *)
LEMMA RequestLine ==
  ASSUME TypeOK, ChannelInv, LinesInv, NEW m, NEW a, Serves(m), a = m.addr,
         Concerns(a), UNCHANGED <<responseToDir, responseToCache>>,
         NEW D, NEW k, Multicasts(D, a, k),
         LineHolds(a, SentOf(a), ArrivedOf(a)', AtMemory(a)', ForwardsOf(a)', AnswersOf(a),
                   HomeOf(a), directory'[a], StateOf(a), AcksOf(a))
  PROVE  LinesInv' /\ ChannelInv'
<1>1. /\ a \in Addr /\ Injective(requestFromCache')
      /\ \A b : b # a => ArrivedOf(b)' = ArrivedOf(b)
  BY RequestServed
<1>2. LineHoldsNow(a)'
  BY Untouched DEF LineHoldsNow, Concerns
<1>3. ASSUME NEW b \in Addr, b # a PROVE LineKept(b)
  BY <1>1, <1>3, Untouched DEF LineKept, Concerns, Multicasts
<1>4. LinesInv'
  BY <1>1, <1>2, <1>3, LineStep
<1>5. ChannelInv'
  BY <1>1 DEF ChannelInv, Concerns, Multicasts
<1> QED
  BY <1>4, <1>5

(* What a request finds.                                                   *)
LEMMA EntryNow ==
  ASSUME TypeOK, DirInv, LinesInv, NEW a \in Addr
  PROVE  /\ EntryConsistent(directory[a]) /\ MemoryConsistent(directory[a], AtMemory(a))
         /\ LineHolds(a, SentOf(a), ArrivedOf(a), AtMemory(a), ForwardsOf(a), AnswersOf(a),
                      HomeOf(a), directory[a], StateOf(a), AcksOf(a))
         /\ LineTyped(a)
  BY LineNow, LineIsTyped DEF DirInv, DirectoryConsistent, OneMemoryRequest

(* What setState makes of an entry.                                        *)
LEMMA StateSet ==
  ASSUME NEW e \in Entry, NEW s
  PROVE  /\ setDirState(e, s).DirState = s
         /\ setDirState(e, s).Sharers = e.Sharers /\ setDirState(e, s).Owner = e.Owner
  BY DEF Entry, setDirState

(* What addReqToSharers makes of an entry.                                 *)
LEMMA SharerAdded ==
  ASSUME NEW e \in Entry, NEW r \in Cache
  PROVE  /\ addReqToSharers(e, r) \in Entry
         /\ addReqToSharers(e, r).Sharers = e.Sharers \cup {r}
         /\ addReqToSharers(e, r).Owner = e.Owner
  BY DEF Entry, addReqToSharers

(* What removeReqFromSharers makes of an entry.                            *)
LEMMA SharerRemoved ==
  ASSUME NEW e \in Entry, NEW r
  PROVE  /\ removeReqFromSharers(e, r) \in Entry
         /\ removeReqFromSharers(e, r).Sharers = e.Sharers \ {r}
         /\ removeReqFromSharers(e, r).Owner = e.Owner
  BY DEF Entry, removeReqFromSharers

(* What setOwner makes of an entry.                                        *)
LEMMA OwnerSet ==
  ASSUME NEW e \in Entry, NEW r \in Cache
  PROVE  /\ setOwner(e, r) \in Entry
         /\ setOwner(e, r).Sharers = e.Sharers
         /\ setOwner(e, r).Owner = e.Owner \cup {r}
  BY DEF Entry, setOwner

(* What clearOwner makes of an entry.                                      *)
LEMMA OwnerCleared ==
  ASSUME NEW e \in Entry
  PROVE  /\ clearOwner(e) \in Entry
         /\ clearOwner(e).Sharers = e.Sharers /\ clearOwner(e).Owner = {}
  BY DEF Entry, clearOwner

(* What addOwnerToSharers makes of an entry.                               *)
LEMMA OwnerAdded ==
  ASSUME NEW e \in Entry
  PROVE  /\ addOwnerToSharers(e) \in Entry
         /\ addOwnerToSharers(e).Sharers = e.Sharers \cup e.Owner
         /\ addOwnerToSharers(e).Owner = e.Owner
  BY DEF Entry, addOwnerToSharers

(* The events that requests raise.                                         *)
LEMMA RequestEvents ==
  ASSUME NEW m \in RequestMsg
  PROVE  /\ RequestEvent(m) \in {"GetS", "GetM"} => m.Type = RequestEvent(m)
         /\ RequestEvent(m) \in {"PutSLast", "PutSNotLast"} => m.Type = "PutS"
         /\ RequestEvent(m) = "PutSLast" => count(directory[m.addr].Sharers) = 1
         /\ RequestEvent(m) = "PutMOwner" =>
              m.Type = "PutM" /\ m.Requestor \in directory[m.addr].Owner
         /\ RequestEvent(m) = "PutMNonOwner" =>
              m.Type = "PutM" /\ m.Requestor \notin directory[m.addr].Owner
<1>1. m.Type \in {"GetS", "GetM", "PutS", "PutM"}
  BY DEF RequestMsg
<1> QED
  BY <1>1 DEF RequestEvent

(* transition({I, S}, GetS, S_m)                                           *)
LEMMA ReadStep ==
  ASSUME TypeOK, TypeOK', DirInv, ChannelInv, LinesInv, IS_GetS, UNCHANGED cacheVars
  PROVE  LinesInv' /\ ChannelInv'
<1>1. PICK m, a, e : /\ m = Head(requestFromCache) /\ a = m.addr
                     /\ e = addReqToSharers(directory[a], m.Requestor)
  OBVIOUS
<1>2. /\ Serves(m) /\ dirState(a) \in {"I", "S"} /\ RequestEvent(m) = "GetS"
      /\ queueMemory("MEMORY_READ", a, m.Requestor, ZeroBlock)
      /\ UpdateEntry(a, e, "S_m")
      /\ UNCHANGED <<requestToDir, forwardToCache, responseToDir, responseToCache, line>>
  BY <1>1 DEF IS_GetS, Requested, Serves, sendMemRead, cacheVars
<1>3. /\ m \in RequestMsg /\ a \in Addr /\ m.Requestor \in Cache
      /\ m \in ArrivedOf(a) /\ ArrivedOf(a)' = ArrivedOf(a) \ {m}
  BY <1>1, <1>2, RequestServed
<1>4. m.Type = "GetS" /\ directory[a].DirState \in {"I", "S"}
  BY <1>2, <1>3, RequestEvents DEF dirState
<1>5. /\ directory'[a] = setDirState(e, "S_m")
      /\ \A b \in Addr : b # a => directory'[b] = directory[b]
  BY <1>2, <1>3, EntryUpdated
<1>6. PICK q \in MemoryMsg :
        /\ q.Type = "MEMORY_READ" /\ q.OriginalRequestor = m.Requestor
        /\ AtMemory(a)' = AtMemory(a) \cup {q}
        /\ \A b : b # a => AtMemory(b)' = AtMemory(b)
  BY <1>2, <1>3, MemoryQueued, MSIConstants DEF MSIConstants
<1>7. /\ LineTyped(a) /\ LineTyped(a)'
      /\ EntryConsistent(directory[a]) /\ MemoryConsistent(directory[a], AtMemory(a))
      /\ LineHolds(a, SentOf(a), ArrivedOf(a), AtMemory(a), ForwardsOf(a), AnswersOf(a),
                   HomeOf(a), directory[a], StateOf(a), AcksOf(a))
  BY <1>3, EntryNow, NextLineIsTyped
<1>8. /\ directory'[a].DirState = "S_m"
      /\ directory'[a].Sharers = directory[a].Sharers \cup {m.Requestor}
      /\ directory'[a].Owner = directory[a].Owner
  <2>1. directory[a] \in Entry
    BY <1>7 DEF LineTyped
  <2> QED
    BY <1>1, <1>3, <1>5, <2>1, SharerAdded, StateSet
<1>9. LineHolds(a, SentOf(a), ArrivedOf(a)', AtMemory(a)', ForwardsOf(a)', AnswersOf(a),
                HomeOf(a), directory'[a], StateOf(a), AcksOf(a))
  <2>1. LineHolds(a, SentOf(a), ArrivedOf(a)', AtMemory(a)', ForwardsOf(a), AnswersOf(a),
                  HomeOf(a), directory'[a], StateOf(a), AcksOf(a))
    BY <1>3, <1>4, <1>6, <1>7, <1>8, ReadFromMemory DEF LineTyped
  <2>2. ForwardsOf(a)' = ForwardsOf(a)
    BY <1>2, Untouched
  <2> QED
    BY <2>1, <2>2
<1>10. Concerns(a)
  BY <1>2, <1>5, <1>6 DEF Concerns
<1>11. Multicasts({}, a, m)
  BY <1>2, NothingSent
<1> QED
  BY <1>1, <1>2, <1>9, <1>10, <1>11, RequestLine

(* transition(I, GetM, M_m) and transition(S, GetM, M_m)                   *)
LEMMA WriteStep ==
  ASSUME TypeOK, TypeOK', DirInv, ChannelInv, LinesInv, I_GetM \/ S_GetM,
         UNCHANGED cacheVars
  PROVE  LinesInv' /\ ChannelInv'
<1>1. PICK m, a, k, D : /\ m = Head(requestFromCache) /\ a = m.addr
                        /\ k = ForwardOf("Inv", a, m.Requestor)
                        /\ D = directory[a].Sharers \ {m.Requestor}
  OBVIOUS
<1>2. /\ Serves(m) /\ dirState(a) \in {"I", "S"} /\ RequestEvent(m) = "GetM"
      /\ queueMemory("MEMORY_READ", a, m.Requestor, ZeroBlock)
      /\ UNCHANGED <<requestToDir, responseToDir, responseToCache, line>>
  BY <1>1 DEF I_GetM, S_GetM, Requested, Serves, sendMemRead, cacheVars
<1>3. /\ m \in RequestMsg /\ a \in Addr /\ m.Requestor \in Cache
      /\ m \in ArrivedOf(a) /\ ArrivedOf(a)' = ArrivedOf(a) \ {m}
  BY <1>1, <1>2, RequestServed
<1>4. m.Type = "GetM" /\ directory[a].DirState \in {"I", "S"}
  BY <1>2, <1>3, RequestEvents DEF dirState
<1>5. PICK q \in MemoryMsg :
        /\ q.Type = "MEMORY_READ" /\ q.OriginalRequestor = m.Requestor
        /\ AtMemory(a)' = AtMemory(a) \cup {q}
        /\ \A b : b # a => AtMemory(b)' = AtMemory(b)
  BY <1>2, <1>3, MemoryQueued, MSIConstants DEF MSIConstants
<1>6. /\ LineTyped(a) /\ LineTyped(a)'
      /\ EntryConsistent(directory[a]) /\ MemoryConsistent(directory[a], AtMemory(a))
      /\ LineHolds(a, SentOf(a), ArrivedOf(a), AtMemory(a), ForwardsOf(a), AnswersOf(a),
                   HomeOf(a), directory[a], StateOf(a), AcksOf(a))
  BY <1>3, EntryNow, NextLineIsTyped
<1>7. directory[a] \in Entry
  BY <1>6 DEF LineTyped
<1>8. /\ directory'[a].DirState = "M_m" /\ directory'[a].Sharers = D
      /\ directory'[a].Owner = directory[a].Owner \cup {m.Requestor}
      /\ \A b \in Addr : b # a => directory'[b] = directory[b]
      /\ \/ Forward(D, "Inv", a, m.Requestor)
         \/ D = {} /\ forwardToCache' = forwardToCache
  <2>1. CASE I_GetM
    <3>1. PICK e : e = setOwner(directory[a], m.Requestor) /\ UpdateEntry(a, e, "M_m")
                   /\ forwardToCache' = forwardToCache /\ directory[a].DirState = "I"
      BY <1>1, <2>1 DEF I_GetM, Requested, dirState
    <3>2. /\ directory'[a] = setDirState(e, "M_m")
          /\ \A b \in Addr : b # a => directory'[b] = directory[b]
      BY <1>3, <3>1, EntryUpdated
    <3>3. directory[a].Sharers = {}
      BY <1>6, <3>1 DEF EntryConsistent
    <3>4. /\ e \in Entry /\ e.Sharers = directory[a].Sharers
          /\ e.Owner = directory[a].Owner \cup {m.Requestor}
      BY <1>3, <1>7, <3>1, OwnerSet
    <3>5. /\ directory'[a].DirState = "M_m" /\ directory'[a].Sharers = e.Sharers
          /\ directory'[a].Owner = e.Owner
      BY <3>2, <3>4 DEF setDirState, Entry
    <3>6. D = {}
      BY <1>1, <3>3
    <3> QED
      BY <3>1, <3>2, <3>3, <3>4, <3>5, <3>6
  <2>2. CASE S_GetM
    <3>1. PICK d, e : /\ d = removeReqFromSharers(directory[a], m.Requestor)
                      /\ e = setOwner(d, m.Requestor) /\ UpdateEntry(a, e, "M_m")
                      /\ Forward(d.Sharers, "Inv", a, m.Requestor)
      BY <1>1, <2>2 DEF S_GetM, sendInvToSharers
    <3>2. /\ directory'[a] = setDirState(e, "M_m")
          /\ \A b \in Addr : b # a => directory'[b] = directory[b]
      BY <1>3, <3>1, EntryUpdated
    <3>3. /\ d \in Entry /\ d.Sharers = directory[a].Sharers \ {m.Requestor}
          /\ d.Owner = directory[a].Owner
      BY <1>3, <1>7, <3>1, SharerRemoved
    <3>4. /\ e \in Entry /\ e.Sharers = d.Sharers
          /\ e.Owner = d.Owner \cup {m.Requestor}
      BY <1>3, <3>1, <3>3, OwnerSet
    <3>5. /\ directory'[a].DirState = "M_m" /\ directory'[a].Sharers = e.Sharers
          /\ directory'[a].Owner = e.Owner
      BY <3>2, <3>4 DEF setDirState, Entry
    <3>6. d.Sharers = D /\ Forward(D, "Inv", a, m.Requestor)
      BY <1>1, <3>1, <3>3
    <3> QED
      BY <3>2, <3>3, <3>4, <3>5, <3>6
  <2> QED
    BY <2>1, <2>2
<1>9. Multicasts(D, a, k)
  <2>1. CASE Forward(D, "Inv", a, m.Requestor)
    <3>1. k \in ForwardMsg /\ k.Type = "Inv"
      BY <1>1, <1>3 DEF ForwardOf, ForwardMsg
    <3>2. ASSUME NEW c \in Cache, c \in D
          PROVE  k \notin ForwardsOf(a)[c] /\ \A n \in ForwardsOf(a)[c] : n.Type # "PutAck"
      <4>1. c \in directory[a].Sharers
        BY <1>1, <3>2
      <4>2. \A n \in ForwardsOf(a)[c] : n.Type \notin {"Inv", "PutAck"}
        BY <1>3, <1>4, <4>1, FreshInvs
      <4> QED
        BY <3>1, <4>2
    <3>3. PICK r : r = m.Requestor /\ Forward(D, "Inv", a, r) /\ k = ForwardOf("Inv", a, r)
      BY <1>1, <2>1
    <3>4. NewTo(D, k)
      BY <3>2, <3>3 DEF NewTo, ForwardOf
    <3> QED
      BY <1>3, <3>1, <3>3, <3>4, ForwardSent, Zenon
  <2>2. CASE D = {} /\ forwardToCache' = forwardToCache
    BY <2>2, NothingSent
  <2> QED
    BY <1>8, <2>1, <2>2
<1>10. LineHolds(a, SentOf(a), ArrivedOf(a)', AtMemory(a)', ForwardsOf(a)', AnswersOf(a),
                 HomeOf(a), directory'[a], StateOf(a), AcksOf(a))
  <2>1. \A c \in Cache : ForwardsOf(a)'[c] = ForwardsOf(a)[c] \cup
          (IF c \in directory'[a].Sharers THEN {ForwardOf("Inv", a, m.Requestor)} ELSE {})
    BY <1>1, <1>8, <1>9 DEF Multicasts
  <2>2. directory'[a].Sharers = directory[a].Sharers \ {m.Requestor}
    BY <1>1, <1>8
  <2> QED
    BY <1>3, <1>4, <1>5, <1>6, <1>8, <2>1, <2>2, WriteFromMemory DEF LineTyped
<1>11. Concerns(a)
  BY <1>2, <1>5, <1>8 DEF Concerns
<1> QED
  BY <1>1, <1>2, <1>9, <1>10, <1>11, RequestLine

(* transition(M, GetS, S_D)                                                *)
LEMMA ForwardedReadStep ==
  ASSUME TypeOK, TypeOK', DirInv, ChannelInv, LinesInv, M_GetS, UNCHANGED cacheVars
  PROVE  LinesInv' /\ ChannelInv'
<1>1. PICK m, a, r, k, d, D :
        /\ m = Head(requestFromCache) /\ a = m.addr /\ r = m.Requestor
        /\ k = ForwardOf("GetS", a, r) /\ d = directory[a] /\ D = d.Owner
  OBVIOUS
<1>2. /\ Serves(m) /\ dirState(a) = "M" /\ RequestEvent(m) = "GetS"
      /\ Forward(D, "GetS", a, r)
      /\ UpdateEntry(a, clearOwner(addOwnerToSharers(addReqToSharers(d, r))), "S_D")
      /\ UNCHANGED <<requestToDir, memQueue, responseToDir, responseToCache, line>>
  BY <1>1 DEF M_GetS, Requested, Serves, sendFwdGetS, cacheVars
<1>3. /\ m \in RequestMsg /\ a \in Addr /\ r \in Cache
      /\ m \in ArrivedOf(a) /\ ArrivedOf(a)' = ArrivedOf(a) \ {m}
  BY <1>1, <1>2, RequestServed
<1>4. m.Type = "GetS" /\ directory[a].DirState = "M"
  BY <1>2, <1>3, RequestEvents DEF dirState
<1>5. /\ directory'[a] = setDirState(clearOwner(addOwnerToSharers(addReqToSharers(d, r))), "S_D")
      /\ \A b \in Addr : b # a => directory'[b] = directory[b]
  BY <1>2, <1>3, EntryUpdated
<1>6. /\ LineTyped(a) /\ LineTyped(a)'
      /\ EntryConsistent(directory[a]) /\ MemoryConsistent(directory[a], AtMemory(a))
      /\ LineHolds(a, SentOf(a), ArrivedOf(a), AtMemory(a), ForwardsOf(a), AnswersOf(a),
                   HomeOf(a), directory[a], StateOf(a), AcksOf(a))
  BY <1>3, EntryNow, NextLineIsTyped
<1>7. /\ directory'[a].DirState = "S_D"
      /\ directory'[a].Sharers = directory[a].Sharers \cup {r} \cup D
  <2>1. directory[a] \in Entry
    BY <1>6 DEF LineTyped
  <2>2. PICK e : e = addReqToSharers(d, r) /\ e \in Entry
                 /\ e.Sharers = d.Sharers \cup {r} /\ e.Owner = d.Owner
    BY <1>1, <1>3, <2>1, SharerAdded
  <2>3. PICK f : f = addOwnerToSharers(e) /\ f \in Entry
                 /\ f.Sharers = e.Sharers \cup e.Owner
    BY <2>2, OwnerAdded
  <2>4. PICK g : g = clearOwner(f) /\ g \in Entry /\ g.Sharers = f.Sharers
    BY <2>3, OwnerCleared
  <2>5. directory'[a] = setDirState(g, "S_D")
    BY <1>5, <2>2, <2>3, <2>4
  <2>6. directory'[a].DirState = "S_D" /\ directory'[a].Sharers = g.Sharers
    BY <2>4, <2>5, StateSet
  <2> QED
    BY <1>1, <2>2, <2>3, <2>4, <2>6
<1>8. Multicasts(D, a, k)
  <2>1. k \in ForwardMsg /\ k.Type = "GetS" /\ k.Requestor = r /\ k.addr = a
    BY <1>1, <1>3 DEF ForwardOf, ForwardMsg
  <2>2. ASSUME NEW c \in Cache, c \in D
        PROVE  k \notin ForwardsOf(a)[c] /\ \A n \in ForwardsOf(a)[c] : n.Type # "PutAck"
    <3>1. c \in directory[a].Owner
      BY <1>1, <2>2
    <3>2. \A n \in ForwardsOf(a)[c] :
            /\ n.Type # "PutAck"
            /\ n.Type \in {"GetS", "GetM"} => n.Requestor # m.Requestor
      BY <1>3, <1>4, <3>1, FreshForward
    <3> QED
      BY <1>1, <2>1, <3>2
  <2>3. NewTo(D, k)
    BY <2>1, <2>2 DEF NewTo
  <2> QED
    BY <1>1, <1>2, <1>3, <2>1, <2>3, ForwardSent
<1>9. LineHolds(a, SentOf(a), ArrivedOf(a)', AtMemory(a)', ForwardsOf(a)', AnswersOf(a),
                HomeOf(a), directory'[a], StateOf(a), AcksOf(a))
  <2>1. \A c \in Cache : ForwardsOf(a)'[c] = ForwardsOf(a)[c] \cup
          (IF c \in directory[a].Owner THEN {ForwardOf("GetS", a, m.Requestor)} ELSE {})
    BY <1>1, <1>8 DEF Multicasts
  <2>2. directory'[a].Sharers =
          directory[a].Sharers \cup {m.Requestor} \cup directory[a].Owner
    BY <1>1, <1>7
  <2>3. AtMemory(a)' = AtMemory(a)
    BY <1>2, Untouched
  <2>4. LineHolds(a, SentOf(a), ArrivedOf(a)', AtMemory(a), ForwardsOf(a)', AnswersOf(a),
                HomeOf(a), directory'[a], StateOf(a), AcksOf(a))
    BY <1>3, <1>4, <1>6, <1>7, <2>1, <2>2, ReadFromOwner DEF LineTyped
  <2> QED
    BY <2>3, <2>4
<1>10. Concerns(a)
  BY <1>2, <1>5, Untouched DEF Concerns
<1> QED
  BY <1>1, <1>2, <1>8, <1>9, <1>10, RequestLine

(* transition(M, GetM)                                                     *)
LEMMA ForwardedWriteStep ==
  ASSUME TypeOK, TypeOK', DirInv, ChannelInv, LinesInv, M_GetM, UNCHANGED cacheVars
  PROVE  LinesInv' /\ ChannelInv'
<1>1. PICK m, a, r, k, d, D :
        /\ m = Head(requestFromCache) /\ a = m.addr /\ r = m.Requestor
        /\ k = ForwardOf("GetM", a, r) /\ d = directory[a] /\ D = d.Owner
  OBVIOUS
<1>2. /\ Serves(m) /\ dirState(a) = "M" /\ RequestEvent(m) = "GetM"
      /\ Forward(D, "GetM", a, r)
      /\ UpdateEntry(a, setOwner(clearOwner(d), r), "M")
      /\ UNCHANGED <<requestToDir, memQueue, responseToDir, responseToCache, line>>
  BY <1>1 DEF M_GetM, Requested, Serves, sendFwdGetM, cacheVars
<1>3. /\ m \in RequestMsg /\ a \in Addr /\ r \in Cache
      /\ m \in ArrivedOf(a) /\ ArrivedOf(a)' = ArrivedOf(a) \ {m}
  BY <1>1, <1>2, RequestServed
<1>4. m.Type = "GetM" /\ directory[a].DirState = "M"
  BY <1>2, <1>3, RequestEvents DEF dirState
<1>5. /\ directory'[a] = setDirState(setOwner(clearOwner(d), r), "M")
      /\ \A b \in Addr : b # a => directory'[b] = directory[b]
  BY <1>2, <1>3, EntryUpdated
<1>6. /\ LineTyped(a) /\ LineTyped(a)'
      /\ EntryConsistent(directory[a]) /\ MemoryConsistent(directory[a], AtMemory(a))
      /\ LineHolds(a, SentOf(a), ArrivedOf(a), AtMemory(a), ForwardsOf(a), AnswersOf(a),
                   HomeOf(a), directory[a], StateOf(a), AcksOf(a))
  BY <1>3, EntryNow, NextLineIsTyped
<1>7. directory'[a].DirState = "M" /\ directory'[a].Owner = {r}
  <2>1. directory[a] \in Entry
    BY <1>6 DEF LineTyped
  <2>2. PICK e : e = clearOwner(d) /\ e \in Entry /\ e.Owner = {}
    BY <1>1, <1>3, <2>1, OwnerCleared
  <2>3. PICK f : f = setOwner(e, r) /\ f \in Entry /\ f.Owner = e.Owner \cup {r}
    BY <1>3, <2>2, OwnerSet
  <2>4. directory'[a] = setDirState(f, "M")
    BY <1>5, <2>2, <2>3
  <2>5. directory'[a].DirState = "M" /\ directory'[a].Owner = f.Owner
    BY <2>3, <2>4, StateSet
  <2> QED
    BY <2>2, <2>3, <2>5
<1>8. Multicasts(D, a, k)
  <2>1. k \in ForwardMsg /\ k.Type = "GetM" /\ k.Requestor = r /\ k.addr = a
    BY <1>1, <1>3 DEF ForwardOf, ForwardMsg
  <2>2. ASSUME NEW c \in Cache, c \in D
        PROVE  k \notin ForwardsOf(a)[c] /\ \A n \in ForwardsOf(a)[c] : n.Type # "PutAck"
    <3>1. c \in directory[a].Owner
      BY <1>1, <2>2
    <3>2. \A n \in ForwardsOf(a)[c] :
            /\ n.Type # "PutAck"
            /\ n.Type \in {"GetS", "GetM"} => n.Requestor # m.Requestor
      BY <1>3, <1>4, <3>1, FreshForward
    <3> QED
      BY <1>1, <2>1, <3>2
  <2>3. NewTo(D, k)
    BY <2>1, <2>2 DEF NewTo
  <2> QED
    BY <1>1, <1>2, <1>3, <2>1, <2>3, ForwardSent
<1>9. LineHolds(a, SentOf(a), ArrivedOf(a)', AtMemory(a)', ForwardsOf(a)', AnswersOf(a),
                HomeOf(a), directory'[a], StateOf(a), AcksOf(a))
  <2>1. \A c \in Cache : ForwardsOf(a)'[c] = ForwardsOf(a)[c] \cup
          (IF c \in directory[a].Owner THEN {ForwardOf("GetM", a, m.Requestor)} ELSE {})
    BY <1>1, <1>8 DEF Multicasts
  <2>2. directory'[a].Owner = {m.Requestor}
    BY <1>1, <1>7
  <2>3. AtMemory(a)' = AtMemory(a)
    BY <1>2, Untouched
  <2>4. LineHolds(a, SentOf(a), ArrivedOf(a)', AtMemory(a), ForwardsOf(a)', AnswersOf(a),
                HomeOf(a), directory'[a], StateOf(a), AcksOf(a))
    BY <1>3, <1>4, <1>6, <1>7, <2>1, <2>2, WriteFromOwner DEF LineTyped
  <2> QED
    BY <2>3, <2>4
<1>10. Concerns(a)
  BY <1>2, <1>5, Untouched DEF Concerns
<1> QED
  BY <1>1, <1>2, <1>8, <1>9, <1>10, RequestLine

-----------------------------------------------------------------------------
(* The directory acknowledges a put.                                       *)
LEMMA PutAckSent ==
  ASSUME TypeOK, ChannelInv, LinesInv, NEW a \in Addr, NEW m \in ArrivedOf(a),
         NEW r \in Cache, r = m.Requestor, Forward({r}, "PutAck", a, Directory),
         NEW k, k = ForwardOf("PutAck", a, Directory)
  PROVE  /\ Multicasts({r}, a, k)
         /\ ChangedAt(ForwardsOf(a), ForwardsOf(a)', r, ForwardsOf(a)[r] \cup {k})
<1>1. k \in ForwardMsg /\ k.Type = "PutAck" /\ k.addr = a
  BY DEF ForwardOf, ForwardMsg
<1>2. \A n \in ForwardsOf(a)[r] : n.Type # "PutAck"
  BY FreshPutAck
<1>3. NewTo({r}, k)
  BY <1>1, <1>2 DEF NewTo
<1>4. Multicasts({r}, a, k)
  BY <1>1, <1>3, ForwardSent
<1> QED
  BY <1>4 DEF Multicasts, ChangedAt

(* The steps that do so and take no ownership away.                        *)
LEMMA PutStep ==
  ASSUME TypeOK, TypeOK', DirInv, ChannelInv, LinesInv, NEW m, NEW a, NEW r,
         Serves(m), a = m.addr, r = m.Requestor,
         Forward({r}, "PutAck", a, Directory),
         RequestEvent(m) \in {"PutSLast", "PutSNotLast", "PutMNonOwner"},
         PutSAssertHolds(m),
         NEW e, e = removeReqFromSharers(directory[a], r),
         \/ /\ dirState(a) \in {"I", "M", "M_m", "MI_m"}
            /\ UNCHANGED directory
         \/ /\ dirState(a) \in {"S", "S_D", "SS_m", "S_m"}
            /\ UpdateEntry(a, e, dirState(a))
         \/ /\ dirState(a) = "S" /\ RequestEvent(m) = "PutSLast"
            /\ UpdateEntry(a, e, "I"),
         UNCHANGED <<requestToDir, memQueue, responseToDir, responseToCache, line>>
  PROVE  LinesInv' /\ ChannelInv'
<1>1. PICK k : k = ForwardOf("PutAck", a, Directory)
  OBVIOUS
<1>2. /\ m \in RequestMsg /\ a \in Addr /\ r \in Cache
      /\ m \in ArrivedOf(a) /\ ArrivedOf(a)' = ArrivedOf(a) \ {m}
  BY RequestServed
<1>3. /\ m.Type \in {"PutS", "PutM"}
      /\ m.Type = "PutM" => m.Requestor \notin directory[a].Owner
      /\ RequestEvent(m) = "PutSLast" =>
           m.Type = "PutS" /\ count(directory[a].Sharers) = 1
  BY <1>2, RequestEvents
<1>4. /\ LineTyped(a) /\ LineTyped(a)'
      /\ EntryConsistent(directory[a]) /\ MemoryConsistent(directory[a], AtMemory(a))
      /\ LineHolds(a, SentOf(a), ArrivedOf(a), AtMemory(a), ForwardsOf(a), AnswersOf(a),
                   HomeOf(a), directory[a], StateOf(a), AcksOf(a))
  BY <1>2, EntryNow, NextLineIsTyped
<1>5. directory[a] \in Entry
  BY <1>4 DEF LineTyped
<1>6. /\ e \in Entry /\ e.Sharers = directory[a].Sharers \ {r}
      /\ e.Owner = directory[a].Owner
  BY <1>5, SharerRemoved
<1>7. /\ Multicasts({r}, a, k)
      /\ ChangedAt(ForwardsOf(a), ForwardsOf(a)', r, ForwardsOf(a)[r] \cup {k})
  BY <1>1, <1>2, PutAckSent
<1>8. /\ directory'[a].Owner = directory[a].Owner
      /\ \/ directory'[a] = directory[a] /\ directory[a].DirState \in {"I", "M", "M_m", "MI_m"}
         \/ /\ directory[a].DirState \in {"S", "S_D", "SS_m", "S_m"}
            /\ directory'[a].DirState = directory[a].DirState
            /\ directory'[a].Sharers = directory[a].Sharers \ {r}
         \/ /\ directory[a].DirState = "S" /\ directory[a].Sharers = {r}
            /\ directory'[a].DirState = "I" /\ directory'[a].Sharers = {}
      /\ \A b \in Addr : b # a => directory'[b] = directory[b]
  <2>1. CASE dirState(a) \in {"I", "M", "M_m", "MI_m"} /\ UNCHANGED directory
    BY <2>1 DEF dirState
  <2>2. CASE /\ dirState(a) \in {"S", "S_D", "SS_m", "S_m"}
             /\ UpdateEntry(a, e, dirState(a))
    <3>1. /\ directory'[a] = setDirState(e, dirState(a))
          /\ \A b \in Addr : b # a => directory'[b] = directory[b]
      BY <1>2, <2>2, EntryUpdated
    <3>2. /\ directory'[a].DirState = dirState(a) /\ directory'[a].Sharers = e.Sharers
          /\ directory'[a].Owner = e.Owner
      BY <1>6, <3>1, StateSet
    <3> QED
      BY <1>6, <2>2, <3>1, <3>2 DEF dirState
  <2>3. CASE /\ dirState(a) = "S" /\ RequestEvent(m) = "PutSLast"
             /\ UpdateEntry(a, e, "I")
    <3>1. /\ directory'[a] = setDirState(e, "I")
          /\ \A b \in Addr : b # a => directory'[b] = directory[b]
      BY <1>2, <2>3, EntryUpdated
    <3>2. /\ directory'[a].DirState = "I" /\ directory'[a].Sharers = e.Sharers
          /\ directory'[a].Owner = e.Owner
      BY <1>6, <3>1, StateSet
    <3>3. count(directory[a].Sharers) = 1 /\ r \in directory[a].Sharers
      BY <1>3, <2>3 DEF PutSAssertHolds
    <3>4. directory[a].Sharers = {r}
      <4>1. IsFiniteSet(directory[a].Sharers)
        BY <1>5, EntryTypes
      <4> QED
        BY <3>3, <4>1, Singletons
    <3>5. e.Sharers = {}
      BY <1>6, <3>4
    <3> QED
      BY <1>6, <2>3, <3>1, <3>2, <3>4, <3>5 DEF dirState
  <2> QED
    BY <2>1, <2>2, <2>3
<1>9. LineHolds(a, SentOf(a), ArrivedOf(a)', AtMemory(a)', ForwardsOf(a)', AnswersOf(a),
                HomeOf(a), directory'[a], StateOf(a), AcksOf(a))
  <2>1. ChangedAt(ForwardsOf(a), ForwardsOf(a)', m.Requestor,
                  ForwardsOf(a)[m.Requestor] \cup {ForwardOf("PutAck", a, Directory)})
    BY <1>1, <1>7
  <2>2. AtMemory(a)' = AtMemory(a)
    BY Untouched
  <2>3. /\ directory'[a].Owner = directory[a].Owner
        /\ \/ directory'[a] = directory[a] /\ directory[a].DirState \in {"I", "M", "M_m", "MI_m"}
           \/ /\ directory[a].DirState \in {"S", "S_D", "SS_m", "S_m"}
              /\ directory'[a].DirState = directory[a].DirState
              /\ directory'[a].Sharers = directory[a].Sharers \ {m.Requestor}
           \/ /\ directory[a].DirState = "S" /\ directory[a].Sharers = {m.Requestor}
              /\ directory'[a].DirState = "I" /\ directory'[a].Sharers = {}
    BY <1>8
  <2>4. PICK e0, e1 : e0 = directory[a] /\ e1 = directory'[a]
    OBVIOUS
  <2>5. /\ e1 \in Entry /\ e1.Owner = e0.Owner
        /\ \/ e1 = e0 /\ e0.DirState \in {"I", "M", "M_m", "MI_m"}
           \/ /\ e0.DirState \in {"S", "S_D", "SS_m", "S_m"}
              /\ e1.DirState = e0.DirState
              /\ e1.Sharers = e0.Sharers \ {m.Requestor}
           \/ /\ e0.DirState = "S" /\ e0.Sharers = {m.Requestor}
              /\ e1.DirState = "I" /\ e1.Sharers = {}
    BY <1>4, <2>3, <2>4 DEF LineTyped
  <2>6. /\ LineHolds(a, SentOf(a), ArrivedOf(a), AtMemory(a), ForwardsOf(a), AnswersOf(a),
                     HomeOf(a), e0, StateOf(a), AcksOf(a))
        /\ EntryConsistent(e0) /\ MemoryConsistent(e0, AtMemory(a))
        /\ m \in ArrivedOf(a) /\ m.Type \in {"PutS", "PutM"}
        /\ m.Type = "PutM" => m.Requestor \notin e0.Owner
    BY <1>2, <1>3, <1>4, <2>4
  <2>7. /\ SentOf(a) \in SentType /\ ArrivedOf(a) \in SUBSET RequestMsg
        /\ AtMemory(a) \in SUBSET MemoryMsg /\ ForwardsOf(a) \in ForwardsType(a)
        /\ AnswersOf(a) \in AnswersType /\ HomeOf(a) \in HomeType /\ e0 \in Entry
        /\ StateOf(a) \in StateType /\ AcksOf(a) \in AcksType
        /\ ArrivedOf(a)' \in SUBSET RequestMsg /\ ForwardsOf(a)' \in ForwardsType(a)
    BY <1>4, <2>4 DEF LineTyped
  <2>8. a \in Addr /\ ArrivedOf(a)' = ArrivedOf(a) \ {m}
    BY <1>2
  <2>9. LineHolds(a, SentOf(a), ArrivedOf(a)', AtMemory(a), ForwardsOf(a)', AnswersOf(a),
                  HomeOf(a), e1, StateOf(a), AcksOf(a))
    BY <2>1, <2>5, <2>6, <2>7, <2>8, PutAcknowledged
  <2> QED
    BY <2>2, <2>4, <2>9
<1>10. Concerns(a)
  BY <1>8, Untouched DEF Concerns
<1> QED
  BY <1>7, <1>9, <1>10, RequestLine

(* transition(M, PutMOwner, MI_m)                                          *)
LEMMA OwnerPutStep ==
  ASSUME TypeOK, TypeOK', DirInv, ChannelInv, LinesInv, M_PutMOwner, UNCHANGED cacheVars
  PROVE  LinesInv' /\ ChannelInv'
<1>1. PICK m, a, r, k, d :
        /\ m = Head(requestFromCache) /\ a = m.addr /\ r = m.Requestor
        /\ k = ForwardOf("PutAck", a, Directory) /\ d = m.DataBlk
  OBVIOUS
<1>2. /\ Serves(m) /\ dirState(a) = "M" /\ RequestEvent(m) = "PutMOwner"
      /\ queueMemory("MEMORY_WB", a, r, d)
      /\ UpdateEntry(a, clearOwner(directory[a]), "MI_m")
      /\ Forward({r}, "PutAck", a, Directory)
      /\ UNCHANGED <<requestToDir, responseToDir, responseToCache, line>>
  BY <1>1 DEF M_PutMOwner, Requested, Serves, sendDataToMem, sendPutAck, cacheVars
<1>3. /\ m \in RequestMsg /\ a \in Addr /\ r \in Cache /\ d \in Data
      /\ m \in ArrivedOf(a) /\ ArrivedOf(a)' = ArrivedOf(a) \ {m}
  <2>1. m \in RequestMsg
    BY <1>1, <1>2, RequestServed
  <2>2. d \in Data
    BY <1>1, <2>1 DEF RequestMsg
  <2> QED
    BY <1>1, <1>2, <2>2, RequestServed
<1>4. /\ m.Type = "PutM" /\ directory[a].DirState = "M"
      /\ m.Requestor \in directory[a].Owner
  BY <1>1, <1>2, <1>3, RequestEvents DEF dirState
<1>5. /\ directory'[a] = setDirState(clearOwner(directory[a]), "MI_m")
      /\ \A b \in Addr : b # a => directory'[b] = directory[b]
  BY <1>2, <1>3, EntryUpdated
<1>6. PICK q \in MemoryMsg :
        /\ q.Type = "MEMORY_WB" /\ AtMemory(a)' = AtMemory(a) \cup {q}
        /\ \A b : b # a => AtMemory(b)' = AtMemory(b)
  BY <1>2, <1>3, MemoryQueued
<1>7. /\ LineTyped(a) /\ LineTyped(a)'
      /\ EntryConsistent(directory[a]) /\ MemoryConsistent(directory[a], AtMemory(a))
      /\ LineHolds(a, SentOf(a), ArrivedOf(a), AtMemory(a), ForwardsOf(a), AnswersOf(a),
                   HomeOf(a), directory[a], StateOf(a), AcksOf(a))
  BY <1>3, EntryNow, NextLineIsTyped
<1>8. directory'[a].DirState = "MI_m"
  <2>1. clearOwner(directory[a]) \in Entry
    BY <1>7, OwnerCleared DEF LineTyped
  <2> QED
    BY <1>5, <2>1, StateSet
<1>9. /\ Multicasts({r}, a, k)
      /\ ChangedAt(ForwardsOf(a), ForwardsOf(a)', r, ForwardsOf(a)[r] \cup {k})
  BY <1>1, <1>2, <1>3, PutAckSent
<1>10. LineHolds(a, SentOf(a), ArrivedOf(a)', AtMemory(a)', ForwardsOf(a)', AnswersOf(a),
                 HomeOf(a), directory'[a], StateOf(a), AcksOf(a))
  <2>1. ChangedAt(ForwardsOf(a), ForwardsOf(a)', m.Requestor,
                  ForwardsOf(a)[m.Requestor] \cup {ForwardOf("PutAck", a, Directory)})
    BY <1>1, <1>9
  <2> QED
    BY <1>3, <1>4, <1>6, <1>7, <1>8, <2>1, OwnerPuts DEF LineTyped
<1>11. Concerns(a)
  BY <1>2, <1>5, <1>6 DEF Concerns
<1> QED
  BY <1>1, <1>2, <1>9, <1>10, <1>11, RequestLine

-----------------------------------------------------------------------------
(* A put is acknowledged, whatever the directory makes of it.              *)
LEMMA AcknowledgedPuts ==
  ASSUME TypeOK, TypeOK', DirInv, ChannelInv, LinesInv,
         I_Put \/ M_Put \/ Shared_Put \/ S_PutSLast \/ S_D_PutSLast,
         UNCHANGED cacheVars
  PROVE  LinesInv' /\ ChannelInv'
<1>1. PICK m, a, r, e :
        /\ m = Head(requestFromCache) /\ a = m.addr /\ r = m.Requestor
        /\ e = removeReqFromSharers(directory[a], r)
  OBVIOUS
<1>2. UNCHANGED line
  BY DEF cacheVars
<1>3. /\ Serves(m) /\ Forward({r}, "PutAck", a, Directory)
      /\ RequestEvent(m) \in {"PutSLast", "PutSNotLast", "PutMNonOwner"}
      /\ PutSAssertHolds(m)
      /\ \/ /\ dirState(a) \in {"I", "M", "M_m", "MI_m"}
            /\ UNCHANGED directory
         \/ /\ dirState(a) \in {"S", "S_D", "SS_m", "S_m"}
            /\ UpdateEntry(a, e, dirState(a))
         \/ /\ dirState(a) = "S" /\ RequestEvent(m) = "PutSLast"
            /\ UpdateEntry(a, e, "I")
      /\ UNCHANGED <<requestToDir, memQueue, responseToDir, responseToCache>>
  <2>1. CASE I_Put \/ M_Put
    BY <1>1, <2>1 DEF I_Put, M_Put, StalePut, Requested, Serves, sendPutAck, dirVars
  <2>2. CASE Shared_Put
    BY <1>1, <2>2 DEF Shared_Put, Requested, Serves, sendPutAck, dirState
  <2>3. CASE S_PutSLast
    BY <1>1, <2>3 DEF S_PutSLast, Requested, Serves, sendPutAck
  <2>4. CASE S_D_PutSLast
    BY <1>1, <2>4 DEF S_D_PutSLast, Requested, Serves, sendPutAck
  <2> QED
    BY <2>1, <2>2, <2>3, <2>4
<1> QED
  BY <1>1, <1>2, <1>3, PutStep

(* Every request that the directory serves keeps the invariant.            *)
LEMMA RequestStepLines ==
  ASSUME TypeOK, TypeOK', DirInv, ChannelInv, LinesInv, RequestStep,
         UNCHANGED cacheVars
  PROVE  LinesInv' /\ ChannelInv'
<1>1. CASE IS_GetS
  BY <1>1, ReadStep
<1>2. CASE I_GetM \/ S_GetM
  BY <1>2, WriteStep
<1>3. CASE M_GetS
  BY <1>3, ForwardedReadStep
<1>4. CASE M_GetM
  BY <1>4, ForwardedWriteStep
<1>5. CASE I_Put \/ M_Put \/ Shared_Put \/ S_PutSLast \/ S_D_PutSLast
  BY <1>5, AcknowledgedPuts
<1>6. CASE M_PutMOwner
  BY <1>6, OwnerPutStep
<1> QED
  BY <1>1, <1>2, <1>3, <1>4, <1>5, <1>6 DEF RequestStep

-----------------------------------------------------------------------------
(* A step of the directory that takes no request.                          *)
LEMMA DirectoryLine ==
  ASSUME ChannelInv, LinesInv, NEW a \in Addr, Concerns(a),
         UNCHANGED <<requestFromCache, forwardToCache>>,
         \A b \in Addr : b # a => HomeOf(b)' = HomeOf(b) /\ AnswersOf(b)' = AnswersOf(b),
         \A y \in Cache : /\ Injective(responseToDir'[y])
                          /\ \A z \in Machine : Injective(responseToCache'[y][z]),
         LineHolds(a, SentOf(a), ArrivedOf(a), AtMemory(a)', ForwardsOf(a), AnswersOf(a)',
                   HomeOf(a)', directory'[a], StateOf(a), AcksOf(a))
  PROVE  LinesInv' /\ ChannelInv'
<1>1. LineHoldsNow(a)'
  BY Untouched DEF LineHoldsNow, Concerns
<1>2. ASSUME NEW b \in Addr, b # a PROVE LineKept(b)
  BY <1>2, Untouched DEF LineKept, Concerns
<1>3. LinesInv'
  BY <1>1, <1>2, LineStep
<1>4. ChannelInv'
  BY DEF ChannelInv, Concerns
<1> QED
  BY <1>3, <1>4

(* transition(S_D, Data, SS_m)                                             *)
LEMMA HomeStep ==
  ASSUME TypeOK, TypeOK', DirInv, ChannelInv, LinesInv, NEW c \in Cache, S_D_Data(c),
         UNCHANGED cacheVars
  PROVE  LinesInv' /\ ChannelInv'
<1>1. PICK m, a, r, d : /\ m = Head(responseToDir[c]) /\ a = m.addr /\ r = m.Sender
                        /\ d = m.DataBlk
  OBVIOUS
<1>2. /\ responseToDir[c] # <<>> /\ m.Type = "Data" /\ dirState(a) = "S_D"
      /\ queueMemory("MEMORY_WB", a, r, d)
      /\ UpdateEntry(a, directory[a], "SS_m")
      /\ responseToDir' = [responseToDir EXCEPT ![c] = Tail(@)]
      /\ UNCHANGED <<requestToDir, requestFromCache, forwardToCache, responseToCache, line>>
  BY <1>1 DEF S_D_Data, sendRespDataToMem, popResponseFromCache, cacheVars
<1>3. /\ responseToDir \in [Cache -> Seq(CacheResponse)]
      /\ \A y \in Cache : Injective(responseToDir[y])
  BY DEF TypeOK, ChannelsTypeOK, ChannelInv
<1>4. m \in CacheResponse /\ Takes(responseToDir, responseToDir', c, m)
  BY <1>1, <1>2, <1>3, ArrayTail, Zenon
<1>5. a \in Addr /\ r \in Cache /\ d \in Data
  BY <1>1, <1>4 DEF CacheResponse, ResponseMsg
<1>6. /\ m \in HomeOf(a)[c]
      /\ ChangedAt(HomeOf(a), HomeOf(a)', c, HomeOf(a)[c] \ {m})
      /\ \A b : b # a => HomeOf(b)' = HomeOf(b)
      /\ \A y \in Cache : Injective(responseToDir'[y])
  BY <1>1, <1>4 DEF Takes, HomeOf
<1>7. PICK q \in MemoryMsg : q.Type = "MEMORY_WB" /\ AtMemory(a)' = AtMemory(a) \cup {q}
  BY <1>2, <1>5, MemoryQueued
<1>8. \A b : b # a => AtMemory(b)' = AtMemory(b)
  BY <1>2, <1>5, MemoryQueued
<1>9. /\ directory'[a] = setDirState(directory[a], "SS_m")
      /\ \A b \in Addr : b # a => directory'[b] = directory[b]
  BY <1>2, <1>5, EntryUpdated
<1>10. /\ LineTyped(a) /\ LineTyped(a)'
       /\ EntryConsistent(directory[a]) /\ MemoryConsistent(directory[a], AtMemory(a))
       /\ LineHolds(a, SentOf(a), ArrivedOf(a), AtMemory(a), ForwardsOf(a), AnswersOf(a),
                    HomeOf(a), directory[a], StateOf(a), AcksOf(a))
  BY <1>5, EntryNow, NextLineIsTyped
<1>11. /\ directory'[a].DirState = "SS_m"
       /\ directory'[a].Sharers = directory[a].Sharers
       /\ directory'[a].Owner = directory[a].Owner
  BY <1>9, <1>10, StateSet DEF LineTyped
<1>12. directory[a].DirState = "S_D"
  BY <1>2 DEF dirState
<1>13. LineHolds(a, SentOf(a), ArrivedOf(a), AtMemory(a)', ForwardsOf(a), AnswersOf(a),
                 HomeOf(a)', directory'[a], StateOf(a), AcksOf(a))
  BY <1>5, <1>6, <1>7, <1>10, <1>11, <1>12, HomeData DEF LineTyped
<1>14. Concerns(a)
  BY <1>2, <1>8, <1>9 DEF Concerns
<1>15. AnswersOf(a)' = AnswersOf(a) /\ \A b : AnswersOf(b)' = AnswersOf(b)
  BY <1>2, Untouched
<1>16. \A y \in Cache : /\ Injective(responseToDir'[y])
                        /\ \A z \in Machine : Injective(responseToCache'[y][z])
  BY <1>2, <1>6 DEF ChannelInv
<1> QED
  BY <1>2, <1>5, <1>6, <1>13, <1>14, <1>15, <1>16, DirectoryLine

-----------------------------------------------------------------------------
(* transition(S_m, MemData, S) and transition(M_m, MemData, M)             *)
LEMMA MemDataStep ==
  ASSUME TypeOK, TypeOK', DirInv, ChannelInv, LinesInv, NEW m \in memQueue,
         S_m_MemData(m) \/ M_m_MemData(m), UNCHANGED cacheVars
  PROVE  LinesInv' /\ ChannelInv'
<1>1. PICK a, r, d, e, n :
        /\ a = m.addr /\ r = m.OriginalRequestor /\ e = directory[a]
        /\ n = AcksFor(e, r)
        /\ d = [Type |-> "Data", addr |-> a, Sender |-> Directory, Acks |-> n,
                DataBlk |-> memory[a]]
  OBVIOUS
<1>2. /\ m.Type = "MEMORY_READ" /\ popMemQueue(m)
      /\ responseToCache' = [responseToCache EXCEPT ![r][Directory] = Append(@, d)]
      /\ \/ e.DirState = "S_m" /\ UpdateEntry(a, e, "S")
         \/ e.DirState = "M_m" /\ UpdateEntry(a, clearSharers(e), "M")
      /\ UNCHANGED <<requestToDir, requestFromCache, forwardToCache, responseToDir, line>>
  BY <1>1 DEF S_m_MemData, M_m_MemData, sendDataToReq, cacheVars, dirState
<1>3. m \in MemoryMsg /\ a \in Addr /\ r \in Cache
  BY <1>1 DEF TypeOK, DirTypeOK, MemoryMsg
<1>4. /\ m \in AtMemory(a) /\ AtMemory(a)' = AtMemory(a) \ {m}
      /\ \A b : b # a => AtMemory(b)' = AtMemory(b)
  BY <1>1, <1>2, MemoryPopped
<1>5. /\ LineTyped(a) /\ LineTyped(a)'
      /\ EntryConsistent(e) /\ MemoryConsistent(e, AtMemory(a))
      /\ LineHolds(a, SentOf(a), ArrivedOf(a), AtMemory(a), ForwardsOf(a), AnswersOf(a),
                   HomeOf(a), e, StateOf(a), AcksOf(a))
  BY <1>1, <1>3, EntryNow, NextLineIsTyped
<1>6. e \in Entry
  BY <1>1, <1>5 DEF LineTyped
<1>7. n \in Int
  BY <1>1, <1>6, AcksForType
<1>8. /\ d \in ResponseMsg /\ d.Type = "Data" /\ d.Sender = Directory /\ d.Acks = n
      /\ d.addr = a
  <2>1. memory[a] \in Data /\ Directory \in Machine
    BY <1>3 DEF TypeOK, DirTypeOK, Machine
  <2> QED
    BY <1>1, <1>3, <1>7, <2>1 DEF ResponseMsg
<1>9. PairSends(responseToCache, responseToCache', r, Directory, d)
  <2>1. Directory \in Machine
    BY DEF Machine
  <2> QED
    BY <1>2, <1>3, <1>8, <2>1, ResponseSent, Zenon
<1>10. AnswersOf(a)[r][Directory] = {}
  BY <1>1, <1>2, <1>3, <1>4, FreshData
<1>11. /\ PairChangedAt(AnswersOf(a), AnswersOf(a)', r, Directory,
                        AnswersOf(a)[r][Directory] \cup {d})
       /\ \A b : b # a => AnswersOf(b)' = AnswersOf(b)
  BY <1>8, <1>9 DEF PairSends, AnswersOf
<1>12. \A y \in Cache : /\ Injective(responseToDir'[y])
                        /\ \A z \in Machine : Injective(responseToCache'[y][z])
  <2>1. \A y \in Cache, z \in Machine : Injective(responseToCache'[y][z])
    BY <1>8, <1>9, <1>10 DEF PairSends, AnswersOf, ChannelInv
  <2> QED
    BY <1>2, <2>1 DEF ChannelInv
<1>13. /\ directory'[a].Owner = e.Owner
       /\ \/ /\ e.DirState = "S_m" /\ directory'[a].DirState = "S"
             /\ directory'[a].Sharers = e.Sharers
          \/ e.DirState = "M_m" /\ directory'[a].DirState = "M"
       /\ \A b \in Addr : b # a => directory'[b] = directory[b]
  <2>1. CASE e.DirState = "S_m" /\ UpdateEntry(a, e, "S")
    <3>1. /\ directory'[a] = setDirState(e, "S")
          /\ \A b \in Addr : b # a => directory'[b] = directory[b]
      BY <1>3, <2>1, EntryUpdated
    <3> QED
      BY <1>6, <2>1, <3>1, StateSet
  <2>2. CASE e.DirState = "M_m" /\ UpdateEntry(a, clearSharers(e), "M")
    <3>1. /\ directory'[a] = setDirState(clearSharers(e), "M")
          /\ \A b \in Addr : b # a => directory'[b] = directory[b]
      BY <1>3, <2>2, EntryUpdated
    <3>2. clearSharers(e) \in Entry /\ clearSharers(e).Owner = e.Owner
      BY <1>6 DEF clearSharers, Entry
    <3> QED
      BY <2>2, <3>1, <3>2, StateSet
  <2> QED
    BY <1>2, <2>1, <2>2
<1>14. LineHolds(a, SentOf(a), ArrivedOf(a), AtMemory(a)', ForwardsOf(a), AnswersOf(a)',
                 HomeOf(a), directory'[a], StateOf(a), AcksOf(a))
  <2>1. PICK x : x = directory'[a]
    OBVIOUS
  <2>2. /\ x \in Entry /\ x.Owner = e.Owner
        /\ \/ e.DirState = "S_m" /\ x.DirState = "S" /\ x.Sharers = e.Sharers
           \/ e.DirState = "M_m" /\ x.DirState = "M"
    BY <1>5, <1>13, <2>1 DEF LineTyped
  <2>3. /\ d.Acks = AcksFor(e, m.OriginalRequestor)
        /\ PairChangedAt(AnswersOf(a), AnswersOf(a)', m.OriginalRequestor, Directory,
                         AnswersOf(a)[m.OriginalRequestor][Directory] \cup {d})
        /\ d \in ResponseMsg /\ d.Type = "Data" /\ d.Sender = Directory
        /\ e.DirState \in {"S_m", "M_m"} /\ a \in Addr /\ e \in Entry
        /\ m \in AtMemory(a) /\ m.Type = "MEMORY_READ" /\ AtMemory(a)' = AtMemory(a) \ {m}
    BY <1>1, <1>2, <1>3, <1>4, <1>6, <1>8, <1>11
  <2>4. LineHolds(a, SentOf(a), ArrivedOf(a), AtMemory(a)', ForwardsOf(a), AnswersOf(a)',
                 HomeOf(a), x, StateOf(a), AcksOf(a))
    BY <1>5, <2>2, <2>3, MemoryAnswers DEF LineTyped
  <2> QED
    BY <2>1, <2>4
<1>15. Concerns(a)
  BY <1>2, <1>4, <1>13 DEF Concerns
<1>16. HomeOf(a)' = HomeOf(a) /\ \A b : HomeOf(b)' = HomeOf(b)
  BY <1>2, Untouched
<1> QED
  BY <1>2, <1>3, <1>11, <1>12, <1>14, <1>15, <1>16, DirectoryLine

(* transition(MI_m, MemAck, I) and transition(SS_m, MemAck, S)             *)
LEMMA MemAckStep ==
  ASSUME TypeOK, TypeOK', DirInv, ChannelInv, LinesInv, NEW m \in memQueue,
         MI_m_MemAck(m) \/ SS_m_MemAck(m), UNCHANGED cacheVars
  PROVE  LinesInv' /\ ChannelInv'
<1>1. PICK a, e, s : /\ a = m.addr /\ e = directory[a]
                     /\ s = IF e.DirState = "MI_m" THEN "I" ELSE "S"
  OBVIOUS
<1>2. /\ m.Type = "MEMORY_WB" /\ popMemQueue(m)
      /\ \/ e.DirState = "MI_m" /\ s = "I"
         \/ e.DirState = "SS_m" /\ s = "S"
      /\ UpdateEntry(a, e, s)
      /\ UNCHANGED <<channels, line>>
  <2>1. CASE MemAck(m, "MI_m", "I")
    <3>1. s = "I" /\ e.DirState = "MI_m"
      BY <1>1, <2>1 DEF MemAck, dirState
    <3> QED
      BY <1>1, <2>1, <3>1 DEF MemAck, cacheVars
  <2>2. CASE MemAck(m, "SS_m", "S")
    <3>1. s = "S" /\ e.DirState = "SS_m"
      BY <1>1, <2>2 DEF MemAck, dirState
    <3> QED
      BY <1>1, <2>2, <3>1 DEF MemAck, cacheVars
  <2> QED
    BY <2>1, <2>2 DEF MI_m_MemAck, SS_m_MemAck
<1>3. a \in Addr
  BY <1>1 DEF TypeOK, DirTypeOK, MemoryMsg
<1>4. /\ m \in AtMemory(a) /\ AtMemory(a)' = AtMemory(a) \ {m}
      /\ \A b : b # a => AtMemory(b)' = AtMemory(b)
  BY <1>1, <1>2, MemoryPopped
<1>5. /\ LineTyped(a) /\ LineTyped(a)'
      /\ EntryConsistent(e) /\ MemoryConsistent(e, AtMemory(a))
      /\ LineHolds(a, SentOf(a), ArrivedOf(a), AtMemory(a), ForwardsOf(a), AnswersOf(a),
                   HomeOf(a), e, StateOf(a), AcksOf(a))
  BY <1>1, <1>3, EntryNow, NextLineIsTyped
<1>6. e \in Entry
  BY <1>1, <1>5 DEF LineTyped
<1>7. /\ directory'[a].DirState = s
      /\ directory'[a].Sharers = e.Sharers /\ directory'[a].Owner = e.Owner
      /\ \A b \in Addr : b # a => directory'[b] = directory[b]
  <2>1. /\ directory'[a] = setDirState(e, s)
        /\ \A b \in Addr : b # a => directory'[b] = directory[b]
    BY <1>2, <1>3, EntryUpdated
  <2> QED
    BY <1>6, <2>1, StateSet
<1>8. LineHolds(a, SentOf(a), ArrivedOf(a), AtMemory(a)', ForwardsOf(a), AnswersOf(a),
                HomeOf(a), directory'[a], StateOf(a), AcksOf(a))
  <2>1. PICK x : x = directory'[a]
    OBVIOUS
  <2>2. CASE e.DirState = "MI_m" /\ s = "I"
    <3>1. /\ x \in Entry /\ x.Owner = e.Owner /\ x.Sharers = e.Sharers
          /\ e.DirState = "MI_m" /\ x.DirState = "I" /\ m.Type = "MEMORY_WB"
          /\ e \in Entry
      BY <1>2, <1>5, <1>6, <1>7, <2>1, <2>2 DEF LineTyped
    <3>2. LineHolds(a, SentOf(a), ArrivedOf(a), AtMemory(a)', ForwardsOf(a), AnswersOf(a),
                    HomeOf(a), x, StateOf(a), AcksOf(a))
      BY <1>3, <1>4, <1>5, <3>1, MemoryWritten DEF LineTyped
    <3> QED
      BY <2>1, <3>2
  <2>3. CASE e.DirState = "SS_m" /\ s = "S"
    <3>1. /\ x \in Entry /\ x.Owner = e.Owner /\ x.Sharers = e.Sharers
          /\ e.DirState = "SS_m" /\ x.DirState = "S" /\ m.Type = "MEMORY_WB"
          /\ e \in Entry
      BY <1>2, <1>5, <1>6, <1>7, <2>1, <2>3 DEF LineTyped
    <3>2. LineHolds(a, SentOf(a), ArrivedOf(a), AtMemory(a)', ForwardsOf(a), AnswersOf(a),
                    HomeOf(a), x, StateOf(a), AcksOf(a))
      BY <1>3, <1>4, <1>5, <3>1, MemoryWritten DEF LineTyped
    <3> QED
      BY <2>1, <3>2
  <2> QED
    BY <1>2, <2>2, <2>3
<1>9. Concerns(a)
  BY <1>2, <1>4, <1>7 DEF Concerns, channels
<1>10. UNCHANGED <<requestFromCache, forwardToCache, responseToDir, responseToCache>>
  BY <1>2 DEF channels
<1>11. \A b : HomeOf(b)' = HomeOf(b) /\ AnswersOf(b)' = AnswersOf(b)
  BY <1>10, Untouched
<1>12. \A y \in Cache : /\ Injective(responseToDir'[y])
                        /\ \A z \in Machine : Injective(responseToCache'[y][z])
  BY <1>10 DEF ChannelInv
<1> QED
  BY <1>3, <1>8, <1>9, <1>10, <1>11, <1>12, DirectoryLine

(* Every step of the directory keeps the invariant.                        *)
LEMMA DirStepLines ==
  ASSUME TypeOK, TypeOK', DirInv, ChannelInv, LinesInv, DirNext, UNCHANGED cacheVars
  PROVE  LinesInv' /\ ChannelInv'
<1>1. CASE RequestStep
  BY <1>1, RequestStepLines
<1>2. ASSUME NEW c \in Cache, S_D_Data(c) PROVE LinesInv' /\ ChannelInv'
  BY <1>2, HomeStep
<1>3. ASSUME NEW m \in memQueue, MemoryStep(m) PROVE LinesInv' /\ ChannelInv'
  BY <1>3, MemDataStep, MemAckStep DEF MemoryStep
<1> QED
  BY <1>1, <1>2, <1>3 DEF DirNext

-----------------------------------------------------------------------------
(* The network.                                                            *)
LEMMA DeliverStep ==
  ASSUME TypeOK, TypeOK', ChannelInv, LinesInv, NEW c \in Cache, Deliver(c),
         UNCHANGED <<cacheVars, dirVars>>
  PROVE  LinesInv' /\ ChannelInv'
<1>1. PICK m, a : m = Head(requestToDir[c]) /\ a = m.addr
  OBVIOUS
<1>2. /\ requestToDir[c] # <<>>
      /\ requestToDir' = [requestToDir EXCEPT ![c] = Tail(@)]
      /\ requestFromCache' = Append(requestFromCache, m)
      /\ UNCHANGED <<forwardToCache, responseToDir, responseToCache, line, memQueue, directory>>
  BY <1>1 DEF Deliver, cacheVars, dirVars
<1>3. /\ requestToDir \in [Cache -> Seq(RequestMsg)] /\ requestFromCache \in Seq(RequestMsg)
      /\ \A y \in Cache : Injective(requestToDir[y])
      /\ Injective(requestFromCache)
  BY DEF TypeOK, ChannelsTypeOK, ChannelInv
<1>4. m \in RequestMsg /\ Takes(requestToDir, requestToDir', c, m)
  BY <1>1, <1>2, <1>3, ArrayTail, Zenon
<1>5. a \in Addr
  BY <1>1, <1>4 DEF RequestMsg
<1>6. /\ m \in SentOf(a)[c]
      /\ ChangedAt(SentOf(a), SentOf(a)', c, SentOf(a)[c] \ {m})
      /\ \A b : b # a => SentOf(b)' = SentOf(b)
      /\ \A y \in Cache : Injective(requestToDir'[y])
  BY <1>1, <1>4 DEF Takes, SentOf
<1>7. /\ ArrivedOf(a)' = ArrivedOf(a) \cup {m}
      /\ \A b : b # a => ArrivedOf(b)' = ArrivedOf(b)
  <2>1. /\ Messages(requestFromCache', m.addr) = Messages(requestFromCache, m.addr) \cup {m}
        /\ OthersSee(requestFromCache, requestFromCache', m.addr)
    <3>1. m \in RequestMsg /\ requestFromCache \in Seq(RequestMsg)
      BY <1>3, <1>4
    <3>2. /\ Messages(Append(requestFromCache, m), m.addr)
              = Messages(requestFromCache, m.addr) \cup {m}
          /\ OthersSee(requestFromCache, Append(requestFromCache, m), m.addr)
      BY <3>1, MessagesAppended, ZenonT(30)
    <3>3. requestFromCache' = Append(requestFromCache, m)
      BY <1>2
    <3> QED
      BY <3>2, <3>3, Zenon
  <2> QED
    BY <1>1, <2>1 DEF OthersSee, ArrivedOf
<1>8. Injective(requestFromCache')
  <2>1. m \notin Messages(requestFromCache, m.addr)
    BY <1>1, <1>5, <1>6, FreshArrival DEF ArrivedOf
  <2> QED
    BY <1>2, <1>3, <1>4, <2>1, InjectiveAppend, Zenon
<1>9. LineTyped(a) /\ LineTyped(a)'
  BY <1>5, LineIsTyped, NextLineIsTyped
<1>10. LineHolds(a, SentOf(a)', ArrivedOf(a)', AtMemory(a), ForwardsOf(a),
                 AnswersOf(a), HomeOf(a), directory[a], StateOf(a), AcksOf(a))
  <2>1. LineHolds(a, SentOf(a), ArrivedOf(a), AtMemory(a), ForwardsOf(a),
                  AnswersOf(a), HomeOf(a), directory[a], StateOf(a), AcksOf(a))
    BY <1>5, LineNow
  <2> QED
    BY <1>5, <1>6, <1>7, <1>9, <2>1, RequestDelivered DEF LineTyped
<1>11. LineHoldsNow(a)'
  BY <1>2, <1>10, Untouched DEF LineHoldsNow
<1>12. ASSUME NEW b \in Addr, b # a PROVE LineKept(b)
  BY <1>2, <1>6, <1>7, <1>12, Untouched DEF LineKept
<1>13. LinesInv'
  BY <1>5, <1>11, <1>12, LineStep
<1>14. ChannelInv'
  BY <1>2, <1>6, <1>8 DEF ChannelInv
<1> QED
  BY <1>13, <1>14

-----------------------------------------------------------------------------
(* The invariant.                                                          *)

(* A panic changes nothing that the lines see.                             *)
LEMMA PanicKeepsLines ==
  ASSUME ChannelInv, LinesInv, PanicStep
  PROVE  LinesInv' /\ ChannelInv'
<1>1. UNCHANGED <<channels, cacheVars, dirVars>>
  BY DEF PanicStep, Panic
<1>2. UNCHANGED <<channels, memQueue, directory>> /\ UNCHANGED line
  BY <1>1 DEF cacheVars, dirVars
<1>3. \A b \in Addr : StateOf(b)' = StateOf(b) /\ AcksOf(b)' = AcksOf(b)
  BY <1>2, Untouched
<1> QED
  BY <1>2, <1>3, UnseenStep

(* Nor does a stuttering step.                                             *)
LEMMA StutterKeepsLines ==
  ASSUME ChannelInv, LinesInv, UNCHANGED vars
  PROVE  LinesInv' /\ ChannelInv'
<1>1. UNCHANGED <<channels, cacheVars, dirVars>>
  BY DEF vars
<1>2. UNCHANGED <<channels, memQueue, directory>> /\ UNCHANGED line
  BY <1>1 DEF cacheVars, dirVars
<1>3. \A b \in Addr : StateOf(b)' = StateOf(b) /\ AcksOf(b)' = AcksOf(b)
  BY <1>2, Untouched
<1> QED
  BY <1>2, <1>3, UnseenStep

(* Every step of the protocol keeps the invariant of the lines.            *)
LEMMA NextLines ==
  ASSUME TypeOK, TypeOK', DirInv, AllocInv, ChannelInv, LinesInv, [Next]_vars
  PROVE  LinesInv' /\ ChannelInv'
<1>1. CASE CacheNext /\ UNCHANGED dirVars
  BY <1>1, CacheStepLines
<1>2. CASE DirNext /\ UNCHANGED cacheVars
  BY <1>2, DirStepLines
<1>3. ASSUME NEW c \in Cache, Deliver(c), UNCHANGED <<cacheVars, dirVars>>
      PROVE  LinesInv' /\ ChannelInv'
  BY <1>3, DeliverStep
<1>4. CASE PanicStep
  BY <1>4, PanicKeepsLines
<1>5. CASE UNCHANGED vars
  BY <1>5, StutterKeepsLines
<1> QED
  BY <1>1, <1>2, <1>3, <1>4, <1>5 DEF Next

(* No line sees a message in an empty channel.                             *)
LEMMA EmptyChannel ==
  /\ Injective(<<>>) /\ PutAckLast(<<>>)
  /\ \A a : Messages(<<>>, a) = {}
  BY DEF Injective, PutAckLast, Messages

(* The channels are empty at first.                                        *)
LEMMA InitChannels == Init => ChannelInv
<1> SUFFICES ASSUME Init PROVE ChannelInv
  OBVIOUS
<1>1. /\ requestFromCache = <<>>
      /\ \A c \in Cache : /\ requestToDir[c] = <<>> /\ forwardToCache[c] = <<>>
                          /\ responseToDir[c] = <<>>
                          /\ \A s \in Machine : responseToCache[c][s] = <<>>
  BY DEF Init, ChannelsInit
<1> QED
  BY <1>1, EmptyChannel DEF ChannelInv

(* What a line sees at first.                                              *)
LEMMA FirstLine ==
  ASSUME NEW a \in Addr, NEW sent, NEW forwards, NEW answers, NEW home, NEW e, NEW state,
         NEW acks,
         \A c \in Cache : /\ sent[c] = {} /\ forwards[c] = {} /\ home[c] = {}
                          /\ \A s \in Machine : answers[c][s] = {}
                          /\ state[c] = "I" /\ acks[c] = 0,
         e.DirState = "I"
  PROVE  LineHolds(a, sent, {}, {}, forwards, answers, home, e, state, acks)
<1>1. PICK stage, by : /\ stage = [c \in Cache |-> "none"]
                       /\ by = [c \in Cache |-> Directory]
  OBVIOUS
<1>2. PICK chain, none : chain = <<>> /\ none = {}
  OBVIOUS
<1>3. /\ stage \in StageType /\ by \in ByType
      /\ chain \in Seq(Cache) /\ none \in SUBSET Cache
      /\ \A c \in Cache : stage[c] = "none" /\ by[c] = Directory
  BY <1>1, <1>2 DEF StageType, ByType, Machine, Stage
<1>4. chain = <<>> /\ Len(chain) = 0 /\ none = {} /\ \A c : c \notin none
  BY <1>2
<1>5. /\ SentOK(sent, state, stage) /\ ArrivedOK({}, state, stage) /\ QueuedOK({}, stage)
      /\ AskedOK(a, forwards, state, stage, by) /\ AckedOK(a, forwards, stage)
      /\ InvSentOK(a, forwards, chain, none)
  BY <1>3, <1>4 DEF SentOK, ArrivedOK, QueuedOK, AskedOK, AckedOK, InvSentOK
<1>6. /\ ResponsesOK(answers) /\ DataSentOK(answers, stage, by)
      /\ InvAckSentOK(answers, chain, none) /\ HomeOK(home, e, chain)
  BY <1>3, <1>4 DEF ResponsesOK, DataSentOK, InvAckSentOK, HomeOK
<1>7. StageOK(state, stage) /\ LinksOK(stage, by, chain) /\ EntryOK(e, stage, chain)
  BY <1>3, <1>4 DEF StageOK, LinksOK, EntryOK
<1>8. OwnersOK(state, stage, by, chain)
  BY <1>3, <1>4 DEF OwnersOK, InChain, Owning, Asked
<1>9. MemoryOK(e, state, stage) /\ ReaderOK(e, state, stage, by, chain)
  BY <1>3, <1>4 DEF MemoryOK, ReaderOK, Reads
<1>10. InvsOK(state, stage, chain, none, none)
  BY <1>3, <1>4 DEF InvsOK
<1>11. AcksOK(e, answers, state, acks, stage, by, chain, none, none)
  BY <1>3, <1>4 DEF AcksOK, Due
<1>12. CopiesOK(e, state, stage, chain, none) /\ SharersOK(e, state, stage, chain)
  BY <1>3, <1>4 DEF CopiesOK, SharersOK, Holds, Settled
<1>13. LineInv(a, sent, {}, {}, forwards, answers, home, e, state, acks,
               stage, by, chain, none, none)
  BY <1>5, <1>6, <1>7, <1>8, <1>9, <1>10, <1>11, <1>12 DEF LineInv
<1> QED
  BY <1>3, <1>13 DEF LineHolds

(* Every line satisfies LineInv at first.                                  *)
LEMMA InitLines == Init => LinesInv
<1> SUFFICES ASSUME Init, NEW a \in Addr PROVE LineHoldsNow(a)
  BY DEF LinesInv
<1>1. ArrivedOf(a) = {} /\ AtMemory(a) = {}
  BY EmptyChannel DEF Init, ChannelsInit, DirInit, ArrivedOf, AtMemory
<1>2. \A c \in Cache : /\ SentOf(a)[c] = {} /\ ForwardsOf(a)[c] = {} /\ HomeOf(a)[c] = {}
                       /\ \A s \in Machine : AnswersOf(a)[c][s] = {}
  BY EmptyChannel DEF Init, ChannelsInit, SentOf, ForwardsOf, HomeOf, AnswersOf, LineOf,
     LineOfPairs
<1>3. \A c \in Cache : StateOf(a)[c] = "I" /\ AcksOf(a)[c] = 0
  BY DEF Init, CacheInit, StateOf, AcksOf, Absent
<1>4. directory[a].DirState = "I"
  BY DEF Init, DirInit
<1> QED
  BY <1>1, <1>2, <1>3, <1>4, FirstLine DEF LineHoldsNow

CoherenceInv == LinesInv /\ ChannelInv

(* The invariant of the lines and the channels holds throughout.           *)
LEMMA CoherenceInvariant == Spec => []CoherenceInv
<1>1. Init => CoherenceInv
  BY InitLines, InitChannels DEF CoherenceInv
<1>2. /\ TypeOK /\ TypeOK' /\ DirInv /\ AllocInv /\ CoherenceInv /\ [Next]_vars
      => CoherenceInv'
  BY NextLines DEF CoherenceInv
<1> QED
  BY <1>1, <1>2, TypeCorrect, DirInvariant, AllocInvariant, PTL DEF Spec

-----------------------------------------------------------------------------
(* A writer is alone.                                                      *)
LEMMA WriterAlone ==
  ASSUME NEW state, NEW stage, NEW by, NEW chain \in Seq(Cache), NEW inv, NEW ack, NEW e,
         StageOK(state, stage), OwnersOK(state, stage, by, chain),
         LinksOK(stage, by, chain), InvsOK(state, stage, chain, inv, ack),
         CopiesOK(e, state, stage, chain, inv),
         NEW c \in Cache, state[c] = "M", NEW d \in Cache, d # c
  PROVE  state[d] \notin Readable
<1>1. InChain(c, chain) /\ stage[c] = "none"
  BY DEF OwnersOK, Owning, StageOK
<1>2. chain # <<>> /\ c = chain[1]
  BY <1>1 DEF InChain, LinksOK
<1>3. state[d] \notin {"M", "SM_A"}
  <2>1. SUFFICES ASSUME state[d] \in {"M", "SM_A"} PROVE FALSE
    OBVIOUS
  <2>2. InChain(d, chain) /\ stage[d] = "none"
    BY <2>1 DEF OwnersOK, Owning, StageOK
  <2> QED
    BY <1>2, <2>2 DEF InChain, LinksOK
<1>4. state[d] \notin {"S", "SM_AD"}
  BY <1>2 DEF CopiesOK, Holds, InvsOK, Settled, Stalled
<1> QED
  BY <1>3, <1>4 DEF Readable

(* What a line sees leaves no room for a second writer, or for a reader    *)
(* beside a writer.                                                        *)
LEMMA LinesGiveSWMR == LinesInv => SWMR
<1> SUFFICES ASSUME LinesInv, NEW a \in Addr, NEW c \in Cache, LineState(c, a) = "M",
                    NEW d \in Cache \ {c}
             PROVE  LineState(d, a) \notin Readable
  BY DEF SWMR
<1>1. PICK stage \in StageType, by \in ByType,
           chain \in Seq(Cache), inv \in SUBSET Cache, ack \in SUBSET Cache :
        LineInvNow(a, stage, by, chain, inv, ack)
  BY Witnesses
<1>2. StateOf(a)[c] = LineState(c, a) /\ StateOf(a)[d] = LineState(d, a)
  BY DEF StateOf, LineState
<1>3. /\ StageOK(StateOf(a), stage) /\ OwnersOK(StateOf(a), stage, by, chain)
      /\ LinksOK(stage, by, chain) /\ InvsOK(StateOf(a), stage, chain, inv, ack)
      /\ CopiesOK(directory[a], StateOf(a), stage, chain, inv)
  BY <1>1 DEF LineInvNow, LineInv
<1> QED
  BY <1>2, <1>3, WriterAlone

(* Single writer, multiple readers: for any number of caches, of lines and *)
(* of blocks in a cache, and whatever the order in which the three         *)
(* networks deliver, no cache may read a line while another has it in M.   *)
THEOREM SingleWriter == Spec => []SWMR
  BY CoherenceInvariant, LinesGiveSWMR, PTL DEF CoherenceInv

-----------------------------------------------------------------------------
(* The directory can reach every copy.                                     *)
LEMMA ReaderReached ==
  ASSUME NEW a, NEW state, NEW forwards, NEW stage, NEW by, NEW chain \in Seq(Cache),
         NEW inv, NEW e,
         InvSentOK(a, forwards, chain, inv), OwnersOK(state, stage, by, chain),
         CopiesOK(e, state, stage, chain, inv),
         NEW c \in Cache, state[c] = "S"
  PROVE  c \in e.Sharers \/ \E m \in forwards[c] : m.Type = "Inv"
<1>1. CASE c \in inv
  BY <1>1 DEF InvSentOK, ForwardOf
<1>2. CASE chain # <<>> /\ c = chain[1]
  <2>1. InChain(c, chain)
    BY <1>2 DEF InChain
  <2> QED
    BY <2>1 DEF OwnersOK, Owning
<1> QED
  BY <1>1, <1>2 DEF CopiesOK, Holds

(* A cache that may write is the directory's owner, or the request it is   *)
(* to answer is on its way.                                                *)
LEMMA WriterReached ==
  ASSUME NEW a, NEW state, NEW forwards, NEW stage, NEW by, NEW chain \in Seq(Cache), NEW e,
         StageOK(state, stage), OwnersOK(state, stage, by, chain), LinksOK(stage, by, chain),
         EntryOK(e, stage, chain), ReaderOK(e, state, stage, by, chain),
         AskedOK(a, forwards, state, stage, by),
         NEW c \in Cache, state[c] = "M"
  PROVE  c \in e.Owner \/ \E m \in forwards[c] : m.Type \in {"GetS", "GetM"}
<1>1. InChain(c, chain) /\ stage[c] = "none"
  BY DEF OwnersOK, Owning, StageOK
<1>2. chain # <<>> /\ c = chain[1] /\ Len(chain) \in Nat /\ 1 \in 1..Len(chain)
  BY <1>1 DEF InChain, LinksOK
<1>3. ASSUME NEW x \in Cache, stage[x] = "forwarded", by[x] = c
      PROVE  \E m \in forwards[c] : m.Type \in {"GetS", "GetM"}
  BY <1>3 DEF AskedOK, ForwardOf
<1>4. CASE Len(chain) # 1
  <2>1. 2 \in 1..Len(chain)
    <3>1. PICK n : n = Len(chain)
      OBVIOUS
    <3>2. n \in Nat /\ 1 <= n /\ n # 1
      BY <1>2, <1>4, <3>1
    <3> QED
      BY <3>1, <3>2
  <2>2. stage[chain[2]] = "forwarded" /\ by[chain[2]] = c
    BY <1>2, <2>1 DEF LinksOK
  <2>3. chain[2] \in Cache
    BY <2>1
  <2> QED
    BY <1>3, <2>2, <2>3
<1>5. CASE Len(chain) = 1
  <2>1. LastOf(chain) = c
    BY <1>2, <1>5 DEF LastOf
  <2>2. CASE e.DirState \in {"M", "M_m"}
    BY <1>2, <2>1, <2>2 DEF EntryOK
  <2>3. CASE e.DirState = "S_D"
    <3>1. Asked(c, stage, by)
      BY <1>2, <2>1, <2>3 DEF ReaderOK
    <3> QED
      BY <1>3, <3>1 DEF Asked
  <2> QED
    BY <1>2, <2>2, <2>3 DEF EntryOK
<1> QED
  BY <1>4, <1>5

(* A message that line a sees in a channel is in the channel.              *)
LEMMA SeenInChannel ==
  ASSUME NEW q, NEW a, NEW m \in Messages(q, a)
  PROVE  \E i \in DOMAIN q : q[i].addr = a /\ q[i] = m
  BY DEF Messages

(* Both follow from what the line sees.                                    *)
LEMMA LinesGiveCopiesTracked == LinesInv => CopiesTracked
<1> SUFFICES ASSUME LinesInv, NEW c \in Cache, NEW a \in Addr
             PROVE  /\ LineState(c, a) = "S" =>
                         \/ c \in directory[a].Sharers
                         \/ \E i \in DOMAIN forwardToCache[c] :
                              /\ forwardToCache[c][i].addr = a
                              /\ forwardToCache[c][i].Type \in {"Inv"}
                    /\ LineState(c, a) = "M" =>
                         \/ c \in directory[a].Owner
                         \/ \E i \in DOMAIN forwardToCache[c] :
                              /\ forwardToCache[c][i].addr = a
                              /\ forwardToCache[c][i].Type \in {"GetS", "GetM"}
  BY DEF CopiesTracked
<1>1. PICK stage \in StageType, by \in ByType,
           chain \in Seq(Cache), inv \in SUBSET Cache, ack \in SUBSET Cache :
        LineInvNow(a, stage, by, chain, inv, ack)
  BY Witnesses
<1>2. StateOf(a)[c] = LineState(c, a)
  BY DEF StateOf, LineState
<1>3. \A m \in ForwardsOf(a)[c] : \E i \in DOMAIN forwardToCache[c] :
        forwardToCache[c][i].addr = a /\ forwardToCache[c][i] = m
  BY SeenInChannel DEF ForwardsOf, LineOf
<1>4. ASSUME LineState(c, a) = "S"
      PROVE  \/ c \in directory[a].Sharers
             \/ \E i \in DOMAIN forwardToCache[c] :
                  /\ forwardToCache[c][i].addr = a
                  /\ forwardToCache[c][i].Type \in {"Inv"}
  <2>1. /\ InvSentOK(a, ForwardsOf(a), chain, inv)
        /\ OwnersOK(StateOf(a), stage, by, chain)
        /\ CopiesOK(directory[a], StateOf(a), stage, chain, inv)
    BY <1>1 DEF LineInvNow, LineInv
  <2>2. \/ c \in directory[a].Sharers
        \/ \E m \in ForwardsOf(a)[c] : m.Type = "Inv"
    BY <1>2, <1>4, <2>1, ReaderReached
  <2> QED
    BY <1>3, <2>2
<1>5. ASSUME LineState(c, a) = "M"
      PROVE  \/ c \in directory[a].Owner
             \/ \E i \in DOMAIN forwardToCache[c] :
                  /\ forwardToCache[c][i].addr = a
                  /\ forwardToCache[c][i].Type \in {"GetS", "GetM"}
  <2>1. /\ StageOK(StateOf(a), stage) /\ OwnersOK(StateOf(a), stage, by, chain)
        /\ LinksOK(stage, by, chain) /\ EntryOK(directory[a], stage, chain)
        /\ ReaderOK(directory[a], StateOf(a), stage, by, chain)
        /\ AskedOK(a, ForwardsOf(a), StateOf(a), stage, by)
    BY <1>1 DEF LineInvNow, LineInv
  <2>2. \/ c \in directory[a].Owner
        \/ \E m \in ForwardsOf(a)[c] : m.Type \in {"GetS", "GetM"}
    BY <1>2, <1>5, <2>1, WriterReached
  <2> QED
    BY <1>3, <2>2
<1> QED
  BY <1>4, <1>5

(* A cache that may read a line is known to the directory as a sharer or   *)
(* as the owner, or the message that takes its copy away is on its way.    *)
THEOREM CopiesAlwaysTracked == Spec => []CopiesTracked
  BY CoherenceInvariant, LinesGiveCopiesTracked, PTL DEF CoherenceInv

-----------------------------------------------------------------------------
(* What a controller takes has a transition.                               *)

(* The first message of a channel is one that its line sees.               *)
LEMMA HeadSeen ==
  ASSUME NEW S, NEW q \in Seq(S), q # <<>>
  PROVE  Head(q) \in S /\ Head(q) \in Messages(q, Head(q).addr)
<1>1. 1 \in DOMAIN q /\ Head(q) = q[1] /\ q[1] \in S
  OBVIOUS
<1> QED
  BY <1>1 DEF Messages

(* A request finds the owner that is to answer it.                         *)
LEMMA AskedOwns ==
  ASSUME NEW a, NEW forwards, NEW state, NEW stage, NEW by, NEW chain \in Seq(Cache), NEW e,
         AskedOK(a, forwards, state, stage, by), OwnersOK(state, stage, by, chain),
         LinksOK(stage, by, chain), ReaderOK(e, state, stage, by, chain),
         NEW c \in Cache, NEW m \in forwards[c], m.Type \in {"GetS", "GetM"},
         m.Requestor \in Cache
  PROVE  state[c] \in Stalled \cup {"M", "MI_A"}
<1>1. /\ stage[m.Requestor] = "forwarded" /\ by[m.Requestor] = c
      /\ Fits(m.Type, state[m.Requestor])
  BY DEF AskedOK
<1>2. InChain(c, chain)
  <2>1. CASE m.Type = "GetS"
    <3>1. chain # <<>> /\ c = LastOf(chain)
      BY <1>1, <2>1 DEF ReaderOK, Reads, Fits
    <3>2. Len(chain) \in 1..Len(chain)
      BY <3>1
    <3> QED
      BY <3>1, <3>2 DEF InChain, LastOf
  <2>2. CASE m.Type = "GetM"
    <3>1. InChain(m.Requestor, chain)
      BY <1>1, <2>2 DEF OwnersOK, Owning, Fits
    <3>2. PICK i \in 1..Len(chain) : chain[i] = m.Requestor
      BY <3>1 DEF InChain
    <3>3. i # 1 /\ chain[i - 1] = c
      BY <1>1, <3>2 DEF LinksOK
    <3>4. i - 1 \in 1..Len(chain)
      BY <3>2, <3>3
    <3> QED
      BY <3>3, <3>4 DEF InChain
  <2> QED
    BY <2>1, <2>2
<1>3. Owning(c, state, stage, by)
  BY <1>2 DEF OwnersOK
<1> QED
  BY <1>3 DEF Owning, Stalled

(* Every forward finds its cache in a state that has a transition for it.  *)
LEMMA ForwardExpected ==
  ASSUME NEW a, NEW forwards, NEW state, NEW stage, NEW by, NEW chain \in Seq(Cache), NEW e,
         NEW inv, NEW ack,
         AskedOK(a, forwards, state, stage, by), AckedOK(a, forwards, stage),
         InvSentOK(a, forwards, chain, inv), StageOK(state, stage),
         OwnersOK(state, stage, by, chain), LinksOK(stage, by, chain),
         ReaderOK(e, state, stage, by, chain), InvsOK(state, stage, chain, inv, ack),
         NEW c \in Cache, NEW m \in forwards[c], m \in ForwardMsg
  PROVE  state[c] \in CacheTransitions[m.Type]
<1>1. CASE m.Type \in {"GetS", "GetM"}
  <2>1. m.Requestor \in Cache
    BY <1>1 DEF ForwardMsg
  <2>2. state[c] \in Stalled \cup {"M", "MI_A"}
    BY <1>1, <2>1, AskedOwns
  <2> QED
    BY <1>1, <2>2 DEF CacheTransitions
<1>2. CASE m.Type = "Inv"
  <2>1. state[c] \in {"IS_D", "S", "SM_AD", "SI_A"}
    BY <1>2 DEF InvSentOK, InvsOK
  <2> QED
    BY <1>2, <2>1 DEF CacheTransitions
<1>3. CASE m.Type = "PutAck"
  <2>1. state[c] \in {"MI_A", "SI_A", "II_A"}
    BY <1>3 DEF AckedOK, StageOK, PutStates
  <2> QED
    BY <1>3, <2>1 DEF CacheTransitions
<1>4. m.Type \in {"GetS", "GetM", "Inv", "PutAck"}
  BY DEF ForwardMsg
<1> QED
  BY <1>1, <1>2, <1>3, <1>4

(* No forward panics a cache.                                              *)
LEMMA ForwardFaultless ==
  ASSUME TypeOK, LinesInv, NEW c \in Cache
  PROVE  ForwardFault(c) = NoPanic
<1>1. CASE forwardToCache[c] = <<>>
  BY <1>1 DEF ForwardFault
<1>2. CASE forwardToCache[c] # <<>>
  <2>1. PICK m, a : m = Head(forwardToCache[c]) /\ a = m.addr
    OBVIOUS
  <2>2. forwardToCache[c] \in Seq(ForwardMsg)
    BY DEF TypeOK, ChannelsTypeOK
  <2>3. m \in ForwardMsg /\ m \in Messages(forwardToCache[c], a)
    BY <1>2, <2>1, <2>2, HeadSeen, Zenon
  <2>4. m \in ForwardsOf(a)[c] /\ a \in Addr
    BY <2>1, <2>3 DEF ForwardsOf, LineOf, ForwardMsg
  <2>5. PICK stage \in StageType, by \in ByType,
             chain \in Seq(Cache), inv \in SUBSET Cache, ack \in SUBSET Cache :
          LineInvNow(a, stage, by, chain, inv, ack)
    BY <2>4, Witnesses
  <2>6. /\ AskedOK(a, ForwardsOf(a), StateOf(a), stage, by)
        /\ AckedOK(a, ForwardsOf(a), stage)
        /\ InvSentOK(a, ForwardsOf(a), chain, inv) /\ StageOK(StateOf(a), stage)
        /\ OwnersOK(StateOf(a), stage, by, chain) /\ LinksOK(stage, by, chain)
        /\ ReaderOK(directory[a], StateOf(a), stage, by, chain)
        /\ InvsOK(StateOf(a), stage, chain, inv, ack)
    BY <2>5 DEF LineInvNow, LineInv
  <2>7. StateOf(a)[c] \in CacheTransitions[m.Type]
    BY <2>3, <2>4, <2>6, ForwardExpected
  <2>8. LineState(c, a) \in CacheTransitions[m.Type]
    BY <2>7 DEF StateOf, LineState
  <2> QED
    BY <1>2, <2>1, <2>8 DEF ForwardFault, Undefined
<1> QED
  BY <1>1, <1>2

-----------------------------------------------------------------------------
(* A response finds the cache that waits for it.                           *)
LEMMA DueIsNat ==
  ASSUME NEW c, NEW chain, NEW inv \in SUBSET Cache, NEW ack \in SUBSET Cache
  PROVE  Due(c, chain, inv, ack) \in Nat
<1>1. IsFiniteSet(inv \cup ack)
  BY MSIConstants, FS_Subset DEF MSIConstants
<1>2. Cardinality(inv \cup ack) \in Nat
  BY <1>1, FS_CardinalityType
<1> QED
  BY <1>2 DEF Due

(* Every response finds its cache waiting for it, with a count of acks     *)
(* that the assertions of response_in allow.                               *)
LEMMA ResponseExpected ==
  ASSUME NEW answers, NEW state, NEW acks, NEW stage, NEW by, NEW chain \in Seq(Cache), NEW e,
         NEW inv \in SUBSET Cache, NEW ack \in SUBSET Cache,
         ResponsesOK(answers), DataSentOK(answers, stage, by),
         InvAckSentOK(answers, chain, ack), StageOK(state, stage),
         OwnersOK(state, stage, by, chain), InvsOK(state, stage, chain, inv, ack),
         AcksOK(e, answers, state, acks, stage, by, chain, inv, ack),
         NEW c \in Cache, NEW s \in Machine, NEW m \in answers[c][s], m \in ResponseMsg,
         acks[c] \in Int
  PROVE  /\ state[c] \in Stalled \cup {"IS_D"}
         /\ m.Sender = Directory => m.Type = "Data" /\ m.Acks + acks[c] >= 0
         /\ state[c] \in CacheTransitions[ResponseEvent(m, acks[c])]
<1>1. m.Sender = s /\ m.Type \in {"Data", "InvAck"} /\ m.Acks \in Int
  BY DEF ResponsesOK, ResponseMsg
<1>2. CASE m.Type = "InvAck"
  <2>1. s \in ack /\ chain # <<>> /\ c = chain[1] /\ m.Sender # Directory
    BY <1>1, <1>2 DEF InvAckSentOK, ResponsesOK
  <2>2. state[c] \in Stalled
    BY <2>1 DEF InvsOK
  <2>3. state[c] \in {"IM_AD", "SM_AD"} => acks[c] <= 0
    BY DEF AcksOK
  <2>4. acks[c] = 1 => state[c] \in {"IM_A", "SM_A"}
    BY <2>2, <2>3 DEF Stalled
  <2>5. ResponseEvent(m, acks[c]) = IF acks[c] = 1 THEN "LastInvAck" ELSE "InvAck"
    BY <1>2, <2>1 DEF ResponseEvent
  <2> QED
    BY <2>1, <2>2, <2>4, <2>5 DEF CacheTransitions
<1>3. CASE m.Type = "Data"
  <2>1. stage[c] = "answered" /\ by[c] = s
    BY <1>3 DEF DataSentOK
  <2>2. state[c] \in {"IS_D", "IM_AD", "SM_AD"}
    BY <2>1 DEF StageOK, GetStates
  <2>3. CASE s # Directory
    <3>1. ResponseEvent(m, acks[c]) = "DataOwner"
      BY <1>1, <1>3, <2>3 DEF ResponseEvent
    <3> QED
      BY <1>1, <2>2, <2>3, <3>1 DEF CacheTransitions, Stalled
  <2>4. CASE s = Directory
    <3>1. acks[c] + m.Acks = Due(c, chain, inv, ack)
      BY <2>1, <2>4 DEF AcksOK
    <3>2. Due(c, chain, inv, ack) \in Nat
      BY DueIsNat
    <3>3. m.Acks + acks[c] = Due(c, chain, inv, ack)
      BY <1>1, <3>1
    <3>4. state[c] = "IS_D" => m.Acks + acks[c] = 0
      <4>1. SUFFICES ASSUME state[c] = "IS_D" PROVE m.Acks + acks[c] = 0
        OBVIOUS
      <4>2. ~InChain(c, chain)
        BY <4>1 DEF OwnersOK, Owning
      <4>3. ~(chain # <<>> /\ c = chain[1])
        BY <4>2 DEF InChain
      <4> QED
        BY <3>3, <4>3 DEF Due
    <3>5. ResponseEvent(m, acks[c]) =
            IF m.Acks + acks[c] = 0 THEN "DataDirNoAcks" ELSE "DataDirAcks"
      BY <1>1, <2>4 DEF ResponseEvent
    <3> QED
      BY <1>3, <2>2, <3>2, <3>3, <3>4, <3>5 DEF CacheTransitions, Stalled
  <2> QED
    BY <2>3, <2>4
<1> QED
  BY <1>1, <1>2, <1>3

(* No response panics a cache.                                             *)
LEMMA ResponseFaultless ==
  ASSUME TypeOK, AllocInv, LinesInv, NEW c \in Cache, NEW s \in Machine
  PROVE  CacheResponseFault(c, s) = NoPanic
<1>1. CASE responseToCache[c][s] = <<>>
  BY <1>1 DEF CacheResponseFault
<1>2. CASE responseToCache[c][s] # <<>>
  <2>1. PICK m, a, n : /\ m = Head(responseToCache[c][s]) /\ a = m.addr
                       /\ n = line[c][a].AcksOutstanding
    OBVIOUS
  <2>2. responseToCache[c][s] \in Seq(ResponseMsg)
    BY DEF TypeOK, ChannelsTypeOK
  <2>3. m \in ResponseMsg /\ m \in Messages(responseToCache[c][s], a)
    BY <1>2, <2>1, <2>2, HeadSeen, Zenon
  <2>4. m \in AnswersOf(a)[c][s] /\ a \in Addr
    BY <2>1, <2>3 DEF AnswersOf, LineOfPairs, ResponseMsg
  <2>5. PICK stage \in StageType, by \in ByType,
             chain \in Seq(Cache), inv \in SUBSET Cache, ack \in SUBSET Cache :
          LineInvNow(a, stage, by, chain, inv, ack)
    BY <2>4, Witnesses
  <2>6. /\ ResponsesOK(AnswersOf(a)) /\ DataSentOK(AnswersOf(a), stage, by)
        /\ InvAckSentOK(AnswersOf(a), chain, ack) /\ StageOK(StateOf(a), stage)
        /\ OwnersOK(StateOf(a), stage, by, chain)
        /\ InvsOK(StateOf(a), stage, chain, inv, ack)
        /\ AcksOK(directory[a], AnswersOf(a), StateOf(a), AcksOf(a), stage, by, chain,
                  inv, ack)
    BY <2>5 DEF LineInvNow, LineInv
  <2>7. AcksOf(a)[c] = n /\ StateOf(a)[c] = line[c][a].State
    BY <2>1 DEF AcksOf, StateOf
  <2>8. n \in Int /\ line[c][a] \in Line
    BY <2>1, <2>4 DEF TypeOK, CacheTypeOK, Line
  <2>9. /\ line[c][a].State \in Stalled \cup {"IS_D"}
        /\ m.Sender = Directory => m.Type = "Data" /\ m.Acks + n >= 0
        /\ line[c][a].State \in CacheTransitions[ResponseEvent(m, n)]
    <3>1. AcksOf(a)[c] \in Int
      BY <2>7, <2>8
    <3>2. /\ StateOf(a)[c] \in Stalled \cup {"IS_D"}
          /\ m.Sender = Directory => m.Type = "Data" /\ m.Acks + AcksOf(a)[c] >= 0
          /\ StateOf(a)[c] \in CacheTransitions[ResponseEvent(m, AcksOf(a)[c])]
      BY <2>3, <2>4, <2>6, <3>1, ResponseExpected
    <3> QED
      BY <2>7, <3>2
  <2>10. line[c][a].tbe
    BY <2>4, <2>9 DEF AllocInv, AllocationFits
  <2>11. ResponseAssertsHold(c, m)
    BY <2>1, <2>9, <2>10 DEF ResponseAssertsHold
  <2> QED
    BY <1>2, <2>1, <2>9, <2>11 DEF CacheResponseFault, Undefined, LineState
<1> QED
  BY <1>1, <1>2

-----------------------------------------------------------------------------
(* The directory.                                                          *)

Tolerated(fault) ==
  \/ fault[2] = "assert PutS of a sharer"
  \/ fault[1] = "SS_m" /\ fault[2] = "PutSLast"

(* The owner's put finds the directory in M: no owner has a put on its way *)
(* while memory is read for it.                                            *)
LEMMA OwnerPutExpected ==
  ASSUME NEW arrived, NEW state, NEW stage, NEW chain \in Seq(Cache), NEW e,
         ArrivedOK(arrived, state, stage), EntryOK(e, stage, chain),
         EntryConsistent(e), e.DirState \in DirState,
         NEW m \in arrived, m.Requestor \in e.Owner
  PROVE  e.DirState = "M"
<1>1. e.DirState \in {"M", "M_m"}
  BY DEF EntryConsistent, DirState
<1>2. e.DirState # "M_m"
  <2>1. SUFFICES ASSUME e.DirState = "M_m" PROVE FALSE
    OBVIOUS
  <2>2. chain # <<>> /\ Len(chain) = 1 /\ e.Owner = {LastOf(chain)}
        /\ stage[chain[1]] = "memory"
    BY <2>1 DEF EntryOK
  <2>3. m.Requestor = chain[1]
    BY <2>2 DEF LastOf
  <2> QED
    BY <2>2, <2>3 DEF ArrivedOK
<1> QED
  BY <1>1, <1>2

(* While memory is read the reader is a sharer, and has no put on its way: *)
(* whoever sends a PutS then is not the only sharer.                       *)
LEMMA ReaderIsNotLast ==
  ASSUME TypeOK, DirInv, LinesInv, NEW a \in Addr, directory[a].DirState = "S_m",
         NEW m \in ArrivedOf(a), m.Type = "PutS", m.Requestor \in directory[a].Sharers
  PROVE  count(directory[a].Sharers) # 1
<1>1. PICK e : e = directory[a] /\ e \in Entry
  BY DEF TypeOK, DirTypeOK
<1>2. PICK stage \in StageType, by \in ByType,
           chain \in Seq(Cache), inv \in SUBSET Cache, ack \in SUBSET Cache :
        LineInvNow(a, stage, by, chain, inv, ack)
  BY Witnesses
<1>3. PICK state : state = StateOf(a)
  OBVIOUS
<1>4. /\ QueuedOK(AtMemory(a), stage) /\ ArrivedOK(ArrivedOf(a), state, stage)
      /\ EntryOK(e, stage, chain) /\ MemoryOK(e, state, stage)
      /\ InvsOK(state, stage, chain, inv, ack) /\ CopiesOK(e, state, stage, chain, inv)
  BY <1>1, <1>2, <1>3, Zenon DEF LineInvNow, LineInv
<1>5. PICK q \in AtMemory(a) : q.Type = "MEMORY_READ"
  BY <1>1 DEF DirInv, OneMemoryRequest, MemoryConsistent
<1>6. PICK c \in Cache : c = q.OriginalRequestor
  BY <1>5, MessageTypes DEF AtMemory, TypeOK, DirTypeOK
<1>7. stage[c] = "memory" /\ state[c] = "IS_D"
  <2>1. stage[c] = "memory"
    BY <1>4, <1>5, <1>6 DEF QueuedOK
  <2> QED
    BY <1>1, <1>4, <2>1 DEF MemoryOK
<1>8. chain = <<>> /\ c \notin inv
  BY <1>1, <1>4 DEF EntryOK, InvsOK
<1>9. c \in e.Sharers
  BY <1>4, <1>7, <1>8 DEF CopiesOK, Holds
<1>10. m.Requestor # c
  BY <1>4, <1>7 DEF ArrivedOK
<1>11. IsFiniteSet(e.Sharers)
  BY <1>1, EntryTypes
<1> SUFFICES ASSUME count(e.Sharers) = 1 PROVE FALSE
  BY <1>1
<1>12. e.Sharers = {c}
  BY <1>9, <1>11, Singletons
<1> QED
  BY <1>1, <1>10, <1>12

(* A request panics the directory only as Tolerated says.                  *)
LEMMA RequestFaultTolerated ==
  ASSUME TypeOK, DirInv, LinesInv
  PROVE  RequestFault = NoPanic \/ Tolerated(RequestFault)
<1>1. CASE requestFromCache = <<>>
  BY <1>1 DEF RequestFault
<1>2. CASE requestFromCache # <<>>
  <2>1. PICK m, a, e : m = Head(requestFromCache) /\ a = m.addr /\ e = directory[a]
    OBVIOUS
  <2>2. requestFromCache \in Seq(RequestMsg)
    BY DEF TypeOK, ChannelsTypeOK
  <2>3. m \in RequestMsg /\ m \in Messages(requestFromCache, a)
    BY <1>2, <2>1, <2>2, HeadSeen, Zenon
  <2>4. /\ m \in ArrivedOf(a) /\ a \in Addr
        /\ m.Type \in {"GetS", "GetM", "PutS", "PutM"}
    BY <2>1, <2>3 DEF ArrivedOf, RequestMsg
  <2>5. e \in Entry /\ EntryConsistent(e)
    BY <2>1, <2>4 DEF TypeOK, DirTypeOK, DirInv, DirectoryConsistent
  <2>6. e.DirState \in DirState
    BY <2>5 DEF Entry
  <2>7. RequestEvent(m) = "PutMOwner" => e.DirState = "M"
    <3>1. SUFFICES ASSUME RequestEvent(m) = "PutMOwner" PROVE e.DirState = "M"
      OBVIOUS
    <3>2. m.Requestor \in e.Owner
      BY <2>1, <2>4, <3>1 DEF RequestEvent
    <3>3. PICK stage \in StageType, by \in ByType,
               chain \in Seq(Cache), inv \in SUBSET Cache, ack \in SUBSET Cache :
            LineInvNow(a, stage, by, chain, inv, ack)
      BY <2>4, Witnesses
    <3>4. ArrivedOK(ArrivedOf(a), StateOf(a), stage) /\ EntryOK(e, stage, chain)
      BY <2>1, <3>3 DEF LineInvNow, LineInv
    <3> QED
      BY <2>4, <2>5, <2>6, <3>2, <3>4, OwnerPutExpected
  <2>8. CASE ~PutSAssertHolds(m)
    <3>1. RequestFault = <<dirState(a), "assert PutS of a sharer">>
      BY <1>2, <2>1, <2>8 DEF RequestFault
    <3> QED
      BY <3>1 DEF Tolerated
  <2>9. CASE PutSAssertHolds(m)
    <3>1. RequestFault = Undefined(DirTransitions, e.DirState, RequestEvent(m))
      BY <1>2, <2>1, <2>9 DEF RequestFault, dirState
    <3>2. RequestEvent(m) \in
            {"GetS", "GetM", "PutSNotLast", "PutMNonOwner", "PutSLast", "PutMOwner"}
      BY <2>4 DEF RequestEvent
    <3>3. CASE RequestEvent(m) # "PutSLast"
      <4>1. e.DirState \in DirTransitions[RequestEvent(m)]
        BY <2>6, <2>7, <3>2, <3>3 DEF DirTransitions
      <4> QED
        BY <3>1, <4>1 DEF Undefined
    <3>4. CASE RequestEvent(m) = "PutSLast"
      <4>1. DirTransitions["PutSLast"] = DirState \ {"SS_m", "S_m"}
        BY DEF DirTransitions
      <4>2. m.Type = "PutS" /\ count(e.Sharers) = 1
        BY <2>1, <2>3, <3>4, LastPutS
      <4>3. m.Requestor \in e.Sharers
        BY <2>1, <2>9, <4>2, Zenon DEF PutSAssertHolds
      <4>4. e.DirState # "S_m"
        <5>1. directory[a].DirState # "S_m"
          BY <2>1, <2>4, <4>2, <4>3, ReaderIsNotLast, Zenon
        <5> QED
          BY <2>1, <5>1
      <4> QED
        BY <2>6, <3>1, <3>4, <4>1, <4>4 DEF Undefined, Tolerated
    <3> QED
      BY <3>3, <3>4
  <2> QED
    BY <2>8, <2>9
<1> QED
  BY <1>1, <1>2

(* No response panics the directory.                                       *)
LEMMA HomeFaultless ==
  ASSUME TypeOK, LinesInv, NEW c \in Cache
  PROVE  DirResponseFault(c) = NoPanic
<1>1. CASE responseToDir[c] = <<>>
  BY <1>1 DEF DirResponseFault
<1>2. CASE responseToDir[c] # <<>>
  <2>1. PICK m, a : m = Head(responseToDir[c]) /\ a = m.addr
    OBVIOUS
  <2>2. responseToDir[c] \in Seq(CacheResponse)
    BY DEF TypeOK, ChannelsTypeOK
  <2>3. m \in CacheResponse /\ m \in Messages(responseToDir[c], a)
    BY <1>2, <2>1, <2>2, HeadSeen, Zenon
  <2>4. m \in HomeOf(a)[c] /\ a \in Addr
    BY <2>1, <2>3 DEF HomeOf, LineOf, CacheResponse, ResponseMsg
  <2>5. PICK stage \in StageType, by \in ByType,
             chain \in Seq(Cache), inv \in SUBSET Cache, ack \in SUBSET Cache :
          LineInvNow(a, stage, by, chain, inv, ack)
    BY <2>4, Witnesses
  <2>6. HomeOK(HomeOf(a), directory[a], chain)
    BY <2>5 DEF LineInvNow, LineInv
  <2>7. m.Type = "Data" /\ directory[a].DirState = "S_D"
    BY <2>4, <2>6 DEF HomeOK
  <2>8. DirTransitions["Data"] = {"S_D"}
    BY DEF DirTransitions
  <2> QED
    BY <1>2, <2>1, <2>7, <2>8 DEF DirResponseFault, Undefined, dirState
<1> QED
  BY <1>1, <1>2

(* No answer of memory panics the directory.                               *)
LEMMA MemoryFaultless ==
  ASSUME TypeOK, DirInv, NEW m \in memQueue
  PROVE  MemoryFault(m) = NoPanic
<1>1. PICK a, e : a = m.addr /\ e = directory[a]
  OBVIOUS
<1>2. m \in MemoryMsg /\ a \in Addr /\ m.Type \in {"MEMORY_READ", "MEMORY_WB"}
  BY <1>1 DEF TypeOK, DirTypeOK, MemoryMsg
<1>3. m \in AtMemory(a)
  BY <1>1 DEF AtMemory
<1>4. e \in Entry /\ MemoryConsistent(e, AtMemory(a))
  BY <1>1, <1>2 DEF TypeOK, DirTypeOK, DirInv, OneMemoryRequest
<1>5. e.DirState \in DirState
  BY <1>4 DEF Entry
<1>6. /\ m.Type = "MEMORY_READ" => e.DirState \in {"S_m", "M_m"}
      /\ m.Type = "MEMORY_WB" => e.DirState \in {"MI_m", "SS_m"}
  BY <1>3, <1>4, <1>5 DEF MemoryConsistent, DirState
<1>7. /\ DirTransitions["MemData"] = {"S_m", "M_m"}
      /\ DirTransitions["MemAck"] = {"MI_m", "SS_m"}
  BY DEF DirTransitions
<1> QED
  BY <1>1, <1>2, <1>6, <1>7 DEF MemoryFault, Undefined, dirState

PanicInv == panicked = NoPanic \/ Tolerated(panicked)

(* What a panic of the protocol can be.                                    *)
LEMMA FaultsTolerated ==
  ASSUME TypeOK, DirInv, AllocInv, LinesInv, NEW fault \in CacheFaults \cup DirFaults
  PROVE  Tolerated(fault)
<1>1. CacheFaults = {}
  BY ForwardFaultless, ResponseFaultless DEF CacheFaults
<1>2. fault \in DirFaults
  BY <1>1
<1>3. fault # NoPanic
  BY <1>2 DEF DirFaults
<1>4. fault = RequestFault
  BY <1>2, HomeFaultless, MemoryFaultless DEF DirFaults
<1> QED
  BY <1>3, <1>4, RequestFaultTolerated

(* No other step of the protocol ends the simulation.                      *)
LEMMA OnlyPanicStepPanics ==
  ASSUME [Next]_vars
  PROVE  PanicStep \/ UNCHANGED panicked
<1>1. CASE CacheNext
  <2>1. ASSUME NEW c \in Cache, NEW a \in Addr, NEW t \in RequestType, Issue(c, a, t)
        PROVE  UNCHANGED panicked
    BY <2>1 DEF Issue
  <2>2. ASSUME NEW c \in Cache, MandatoryStep(c) PROVE UNCHANGED panicked
    BY <2>2 DEF MandatoryStep, I_Load, I_Store, LoadHit, S_Store, M_Store, S_Replacement,
       M_Replacement
  <2>3. ASSUME NEW c \in Cache, ForwardStep(c) PROVE UNCHANGED panicked
    BY <2>3 DEF ForwardStep, M_FwdGetS, M_FwdGetM, MI_A_FwdGetS, MI_A_FwdGetM, S_Inv,
       OwnerFwdGetS, WaitingInv,
       SM_AD_Inv, SI_A_Inv, PutAck
  <2>4. ASSUME NEW c \in Cache, NEW s \in Machine, ResponseStep(c, s) PROVE UNCHANGED panicked
    BY <2>4 DEF ResponseStep, IS_D_Data, InvAck, IM_AD_DataDirAcks, SM_AD_DataDirAcks,
       DataDirAcks,
       Upgrade_Data, LastInvAck
  <2> QED
    BY <1>1, <2>1, <2>2, <2>3, <2>4 DEF CacheNext
<1>2. CASE DirNext
  <2>1. CASE RequestStep
    BY <2>1 DEF RequestStep, IS_GetS, I_GetM, S_GetM, M_GetS, M_GetM, I_Put, M_Put, StalePut,
       Shared_Put, S_PutSLast, S_D_PutSLast, M_PutMOwner
  <2>2. ASSUME NEW c \in Cache, S_D_Data(c) PROVE UNCHANGED panicked
    BY <2>2 DEF S_D_Data
  <2>3. ASSUME NEW m \in memQueue, MemoryStep(m) PROVE UNCHANGED panicked
    BY <2>3 DEF MemoryStep, S_m_MemData, M_m_MemData, MI_m_MemAck, SS_m_MemAck, MemAck
  <2> QED
    BY <1>2, <2>1, <2>2, <2>3 DEF DirNext
<1>3. ASSUME NEW c \in Cache, Deliver(c) PROVE UNCHANGED panicked
  BY <1>3 DEF Deliver
<1> QED
  BY <1>1, <1>2, <1>3 DEF Next, vars

(* Every step keeps to those panics.                                       *)
LEMMA NextPanic ==
  ASSUME TypeOK, DirInv, AllocInv, LinesInv, PanicInv, [Next]_vars
  PROVE  PanicInv'
<1>1. CASE PanicStep
  <2>1. PICK fault \in CacheFaults \cup DirFaults : panicked' = fault
    BY <1>1 DEF PanicStep, Panic
  <2> QED
    BY <2>1, FaultsTolerated DEF PanicInv
<1>2. CASE UNCHANGED panicked
  BY <1>2 DEF PanicInv, Tolerated
<1> QED
  BY <1>1, <1>2, OnlyPanicStepPanics

(* The protocol never reaches an event without a transition or a failed    *)
(* assertion, in any controller and for any number of caches and lines,    *)
(* but where a PutS reaches the directory while one sharer is left.        *)
THEOREM OnlyThePutSPanics == Spec => []OnlyPutSPanics
<1>1. Init => PanicInv
  BY DEF Init, ChannelsInit, PanicInv
<1>2. TypeOK /\ DirInv /\ AllocInv /\ CoherenceInv /\ PanicInv /\ [Next]_vars => PanicInv'
  BY NextPanic DEF CoherenceInv
<1>3. PanicInv => OnlyPutSPanics
  BY DEF PanicInv, OnlyPutSPanics, Tolerated
<1> QED
  BY <1>1, <1>2, <1>3, TypeCorrect, DirInvariant, AllocInvariant, CoherenceInvariant, PTL
  DEF Spec

-----------------------------------------------------------------------------
(* Every request and every put is in one place.                            *)

(* S has one element or none, as the condition tells.                      *)
OneIf(S, condition) ==
  /\ condition => \E p : S = {p}
  /\ ~condition => S = {}

(* Its cardinality is 1 or 0.                                              *)
LEMMA CountOneIf ==
  ASSUME NEW S, NEW condition, OneIf(S, condition)
  PROVE  Cardinality(S) = IF condition THEN 1 ELSE 0
<1>1. CASE condition
  <2>1. PICK p : S = {p}
    BY <1>1 DEF OneIf
  <2> QED
    BY <1>1, <2>1, FS_Singleton, Zenon
<1>2. CASE ~condition
  BY <1>2, FS_EmptySet DEF OneIf
<1> QED
  BY <1>1, <1>2

(* What holds of the indices of a channel.                                 *)
GetsIn(q, a, c) ==
  {i \in DOMAIN q : q[i].addr = a /\ q[i].Requestor = c /\ q[i].Type \in {"GetS", "GetM"}}
PutsIn(q, a, c) ==
  {i \in DOMAIN q : q[i].addr = a /\ q[i].Requestor = c /\ q[i].Type \in {"PutS", "PutM"}}
TypedIn(q, a, type) == {i \in DOMAIN q : q[i].addr = a /\ q[i].Type = type}

(* The messages of a line are at the indices of a channel that have its    *)
(* address.                                                                *)
LEMMA IndicesSeen ==
  ASSUME NEW q, NEW a
  PROVE  /\ \A m \in Messages(q, a) : m.addr = a /\ \E i \in DOMAIN q : q[i] = m
         /\ \A i \in DOMAIN q : q[i].addr = a => q[i] \in Messages(q, a)
  BY DEF Messages

(* Indices of one message are one index.                                   *)
LEMMA OneIndex ==
  ASSUME NEW q, Injective(q), NEW I, I \subseteq DOMAIN q,
         \A i, j \in I : q[i] = q[j], NEW condition,
         condition => I # {}, ~condition => I = {}
  PROVE  OneIf(I, condition)
<1>1. \A i, j \in I : i = j
  BY DEF Injective
<1> QED
  BY <1>1 DEF OneIf

(* The places that these indices make.                                     *)
TagAll(t, c, I) == {<<t, c, i>> : i \in I}
TagEach(t, I) == {<<t, i>> : i \in I}
UnionOf(F, D) == UNION {F[d] : d \in D}

ReadsFor(c, a) == {m \in memQueue : m.Type = "MEMORY_READ" /\ m.addr = a
                                      /\ m.OriginalRequestor = c}
AtOwners(c, a) == [d \in Cache |-> TagAll("forwarded", d, GetsIn(forwardToCache[d], a, c))]
DataTo(c, a) ==
  [s \in Machine |-> TagAll("answered", s, TypedIn(responseToCache[c][s], a, "Data"))]

RequestPlacesOf(c, a) ==
  TagAll("sent", c, GetsIn(requestToDir[c], a, c))
    \cup TagAll("arrived", c, GetsIn(requestFromCache, a, c))
    \cup {<<"memory", c, 1>> : m \in ReadsFor(c, a)}
    \cup UnionOf(AtOwners(c, a), Cache)
    \cup UnionOf(DataTo(c, a), Machine)

(* The places of a request, by the channel they are in.                    *)
LEMMA RequestPlacesAre ==
  ASSUME NEW c, NEW a
  PROVE  RequestPlaces(c, a) = RequestPlacesOf(c, a)
<1>1. UnionOf(AtOwners(c, a), Cache) =
        UNION {{<<"forwarded", d, i>> : i \in GetsIn(forwardToCache[d], a, c)} : d \in Cache}
  BY DEF UnionOf, AtOwners, TagAll
<1>2. UnionOf(DataTo(c, a), Machine) =
        UNION {{<<"answered", s, i>> : i \in TypedIn(responseToCache[c][s], a, "Data")} :
               s \in Machine}
  BY DEF UnionOf, DataTo, TagAll
<1>3. {<<"memory", c, 1>> : m \in ReadsFor(c, a)} =
        {<<"memory", c, 1>> : m \in {m \in memQueue : /\ m.Type = "MEMORY_READ"
                                                    /\ m.addr = a
                                                    /\ m.OriginalRequestor = c}}
  BY DEF ReadsFor
<1>4. /\ TagAll("sent", c, GetsIn(requestToDir[c], a, c)) =
           {<<"sent", c, i>> : i \in GetsIn(requestToDir[c], a, c)}
      /\ TagAll("arrived", c, GetsIn(requestFromCache, a, c)) =
           {<<"arrived", c, i>> : i \in GetsIn(requestFromCache, a, c)}
  BY DEF TagAll
<1> QED
  BY <1>1, <1>2, <1>3, <1>4 DEF RequestPlaces, RequestPlacesOf, Indices, GetsIn, TypedIn

PutPlacesOf(c, a) ==
  TagEach("sent", PutsIn(requestToDir[c], a, c))
    \cup TagEach("arrived", PutsIn(requestFromCache, a, c))
    \cup TagEach("acked", TypedIn(forwardToCache[c], a, "PutAck"))

(* The places of a put, by the channel they are in.                        *)
LEMMA PutPlacesAre ==
  ASSUME NEW c, NEW a
  PROVE  PutPlaces(c, a) = PutPlacesOf(c, a)
  BY DEF PutPlaces, PutPlacesOf, Indices, PutsIn, TypedIn, TagEach

-----------------------------------------------------------------------------
(* Where the stage says the request is, it is.                             *)

Getting(state, c) == state[c] \in GetStates
Putting(state, c) == state[c] \in PutStates

(* On its way to the directory.                                            *)
LEMMA SentPlace ==
  ASSUME NEW q, Injective(q), NEW a, NEW sent, NEW c \in Cache, sent[c] = Messages(q, a),
         sent[c] \subseteq RequestMsg, NEW state, NEW stage, SentOK(sent, state, stage)
  PROVE  /\ OneIf(GetsIn(q, a, c), stage[c] = "sent" /\ Getting(state, c))
         /\ OneIf(PutsIn(q, a, c), stage[c] = "sent" /\ Putting(state, c))
<1>1. /\ \A m \in sent[c] : m.addr = a /\ \E i \in DOMAIN q : q[i] = m
      /\ \A i \in DOMAIN q : q[i].addr = a => q[i] \in sent[c]
  BY IndicesSeen
<1>2. /\ \A m \in sent[c] : /\ stage[c] = "sent" /\ m.Requestor = c
                            /\ Fits(m.Type, state[c])
                            /\ m.Type \in {"GetS", "GetM", "PutS", "PutM"}
      /\ \A m, n \in sent[c] : m = n
      /\ stage[c] = "sent" => sent[c] # {}
  BY DEF SentOK, RequestMsg
<1>3. \A m \in sent[c] : /\ m.Type \in {"GetS", "GetM"} <=> Getting(state, c)
                         /\ m.Type \in {"PutS", "PutM"} <=> Putting(state, c)
  BY <1>2 DEF Fits, Getting, Putting, GetStates, PutStates
<1>4. OneIf(GetsIn(q, a, c), stage[c] = "sent" /\ Getting(state, c))
  <2>1. GetsIn(q, a, c) \subseteq DOMAIN q
    BY DEF GetsIn
  <2>2. \A i \in GetsIn(q, a, c) : q[i] \in sent[c] /\ q[i].Type \in {"GetS", "GetM"}
    BY <1>1 DEF GetsIn
  <2>3. \A i, j \in GetsIn(q, a, c) : q[i] = q[j]
    BY <1>2, <2>2
  <2>4. ~(stage[c] = "sent" /\ Getting(state, c)) => GetsIn(q, a, c) = {}
    BY <1>2, <1>3, <2>2
  <2>5. stage[c] = "sent" /\ Getting(state, c) => GetsIn(q, a, c) # {}
    BY <1>1, <1>2, <1>3 DEF GetsIn
  <2> QED
    BY <2>1, <2>3, <2>4, <2>5, OneIndex
<1>5. OneIf(PutsIn(q, a, c), stage[c] = "sent" /\ Putting(state, c))
  <2>1. PutsIn(q, a, c) \subseteq DOMAIN q
    BY DEF PutsIn
  <2>2. \A i \in PutsIn(q, a, c) : q[i] \in sent[c] /\ q[i].Type \in {"PutS", "PutM"}
    BY <1>1 DEF PutsIn
  <2>3. \A i, j \in PutsIn(q, a, c) : q[i] = q[j]
    BY <1>2, <2>2
  <2>4. ~(stage[c] = "sent" /\ Putting(state, c)) => PutsIn(q, a, c) = {}
    BY <1>2, <1>3, <2>2
  <2>5. stage[c] = "sent" /\ Putting(state, c) => PutsIn(q, a, c) # {}
    BY <1>1, <1>2, <1>3 DEF PutsIn
  <2> QED
    BY <2>1, <2>3, <2>4, <2>5, OneIndex
<1> QED
  BY <1>4, <1>5

(* At the directory.                                                       *)
LEMMA ArrivedPlace ==
  ASSUME NEW q, Injective(q), NEW a, NEW c \in Cache,
         Messages(q, a) \subseteq RequestMsg,
         NEW state, NEW stage, ArrivedOK(Messages(q, a), state, stage)
  PROVE  /\ OneIf(GetsIn(q, a, c), stage[c] = "arrived" /\ Getting(state, c))
         /\ OneIf(PutsIn(q, a, c), stage[c] = "arrived" /\ Putting(state, c))
<1>0. PICK arrived : arrived = Messages(q, a)
  OBVIOUS
<1>1. /\ \A m \in arrived : m.addr = a /\ \E i \in DOMAIN q : q[i] = m
      /\ \A i \in DOMAIN q : q[i].addr = a => q[i] \in arrived
  BY <1>0, IndicesSeen
<1>2. /\ \A m \in arrived : m.Requestor = c =>
           /\ stage[c] = "arrived"
           /\ Fits(m.Type, state[c])
           /\ m.Type \in {"GetS", "GetM", "PutS", "PutM"}
      /\ \A m, n \in arrived : m.Requestor = c /\ n.Requestor = c => m = n
      /\ stage[c] = "arrived" => \E m \in arrived : m.Requestor = c
  BY <1>0 DEF ArrivedOK, RequestMsg
<1>3. \A m \in arrived : m.Requestor = c =>
        /\ m.Type \in {"GetS", "GetM"} <=> Getting(state, c)
        /\ m.Type \in {"PutS", "PutM"} <=> Putting(state, c)
  BY <1>2 DEF Fits, Getting, Putting, GetStates, PutStates
<1>4. OneIf(GetsIn(q, a, c), stage[c] = "arrived" /\ Getting(state, c))
  <2>1. GetsIn(q, a, c) \subseteq DOMAIN q
    BY DEF GetsIn
  <2>2. \A i \in GetsIn(q, a, c) : /\ q[i] \in arrived /\ q[i].Requestor = c
                                   /\ q[i].Type \in {"GetS", "GetM"}
    BY <1>1 DEF GetsIn
  <2>3. \A i, j \in GetsIn(q, a, c) : q[i] = q[j]
    BY <1>2, <2>2
  <2>4. ~(stage[c] = "arrived" /\ Getting(state, c)) => GetsIn(q, a, c) = {}
    BY <1>2, <1>3, <2>2
  <2>5. stage[c] = "arrived" /\ Getting(state, c) => GetsIn(q, a, c) # {}
    BY <1>1, <1>2, <1>3 DEF GetsIn
  <2> QED
    BY <2>1, <2>3, <2>4, <2>5, OneIndex
<1>5. OneIf(PutsIn(q, a, c), stage[c] = "arrived" /\ Putting(state, c))
  <2>1. PutsIn(q, a, c) \subseteq DOMAIN q
    BY DEF PutsIn
  <2>2. \A i \in PutsIn(q, a, c) : /\ q[i] \in arrived /\ q[i].Requestor = c
                                   /\ q[i].Type \in {"PutS", "PutM"}
    BY <1>1 DEF PutsIn
  <2>3. \A i, j \in PutsIn(q, a, c) : q[i] = q[j]
    BY <1>2, <2>2
  <2>4. ~(stage[c] = "arrived" /\ Putting(state, c)) => PutsIn(q, a, c) = {}
    BY <1>2, <1>3, <2>2
  <2>5. stage[c] = "arrived" /\ Putting(state, c) => PutsIn(q, a, c) # {}
    BY <1>1, <1>2, <1>3 DEF PutsIn
  <2> QED
    BY <2>1, <2>3, <2>4, <2>5, OneIndex
<1> QED
  BY <1>4, <1>5

(* A put is acknowledged by one message.                                   *)
LEMMA AckedPlace ==
  ASSUME NEW q, Injective(q), NEW a, NEW forwards, NEW c \in Cache,
         forwards[c] = Messages(q, a), forwards[c] \subseteq ForwardMsg,
         NEW stage, AckedOK(a, forwards, stage)
  PROVE  OneIf(TypedIn(q, a, "PutAck"), stage[c] = "acked")
<1>1. /\ \A m \in forwards[c] : m.addr = a /\ \E i \in DOMAIN q : q[i] = m
      /\ \A i \in DOMAIN q : q[i].addr = a => q[i] \in forwards[c]
  BY IndicesSeen
<1>2. /\ \A m \in forwards[c] : m.Type = "PutAck" =>
           stage[c] = "acked" /\ m = ForwardOf("PutAck", a, Directory)
      /\ stage[c] = "acked" => ForwardOf("PutAck", a, Directory) \in forwards[c]
  BY <1>1 DEF AckedOK, ForwardMsg, ForwardOf
<1>3. TypedIn(q, a, "PutAck") \subseteq DOMAIN q
  BY DEF TypedIn
<1>4. \A i \in TypedIn(q, a, "PutAck") : q[i] \in forwards[c] /\ q[i].Type = "PutAck"
  BY <1>1 DEF TypedIn
<1>5. \A i, j \in TypedIn(q, a, "PutAck") : q[i] = q[j]
  BY <1>2, <1>4
<1>6. stage[c] # "acked" => TypedIn(q, a, "PutAck") = {}
  BY <1>2, <1>4
<1>7. stage[c] = "acked" => TypedIn(q, a, "PutAck") # {}
  <2>1. ForwardOf("PutAck", a, Directory).Type = "PutAck"
    BY DEF ForwardOf
  <2> QED
    BY <1>1, <1>2, <2>1 DEF TypedIn
<1> QED
  BY <1>3, <1>5, <1>6, <1>7, OneIndex

(* With the one cache that is to answer it.                                *)
LEMMA ForwardedPlace ==
  ASSUME NEW q, NEW a, NEW forwards, NEW state, NEW stage, NEW by,
         AskedOK(a, forwards, state, stage, by),
         \A d \in Cache : /\ forwards[d] = Messages(q[d], a) /\ forwards[d] \subseteq ForwardMsg
                          /\ Injective(q[d]),
         NEW c \in Cache, stage[c] = "forwarded" => Getting(state, c)
  PROVE  /\ stage[c] = "forwarded" => by[c] \in Cache
         /\ \A d \in Cache :
              OneIf(GetsIn(q[d], a, c), stage[c] = "forwarded" /\ by[c] = d)
<1>1. stage[c] = "forwarded" => by[c] \in Cache
  BY DEF AskedOK
<1>2. ASSUME NEW d \in Cache
      PROVE  OneIf(GetsIn(q[d], a, c), stage[c] = "forwarded" /\ by[c] = d)
  <2>0. PICK k : k = ForwardOf(IF state[c] = "IS_D" THEN "GetS" ELSE "GetM", a, c)
    OBVIOUS
  <2>1. /\ \A m \in forwards[d] : m.addr = a /\ \E i \in DOMAIN q[d] : q[d][i] = m
        /\ \A i \in DOMAIN q[d] : q[d][i].addr = a => q[d][i] \in forwards[d]
        /\ Injective(q[d])
    BY IndicesSeen
  <2>2. \A m \in forwards[d] : m.Type \in {"GetS", "GetM"} /\ m.Requestor = c =>
          stage[c] = "forwarded" /\ by[c] = d /\ Fits(m.Type, state[c]) /\ m \in ForwardMsg
    BY DEF AskedOK
  <2>3. \A m \in forwards[d] : m.Type \in {"GetS", "GetM"} /\ m.Requestor = c => m = k
    BY <2>0, <2>1, <2>2 DEF Fits, ForwardMsg, ForwardOf
  <2>4. /\ k.Type \in {"GetS", "GetM"} /\ k.Requestor = c
        /\ stage[c] = "forwarded" /\ by[c] = d => k \in forwards[d]
    BY <2>0 DEF AskedOK, ForwardOf
  <2>5. GetsIn(q[d], a, c) \subseteq DOMAIN q[d]
    BY DEF GetsIn
  <2>6. \A i \in GetsIn(q[d], a, c) : /\ q[d][i] \in forwards[d] /\ q[d][i].Requestor = c
                                      /\ q[d][i].Type \in {"GetS", "GetM"}
    BY <2>1 DEF GetsIn
  <2>7. \A i, j \in GetsIn(q[d], a, c) : q[d][i] = q[d][j]
    BY <2>3, <2>6
  <2>8. ~(stage[c] = "forwarded" /\ by[c] = d) => GetsIn(q[d], a, c) = {}
    BY <2>2, <2>6
  <2>9. stage[c] = "forwarded" /\ by[c] = d => GetsIn(q[d], a, c) # {}
    BY <2>1, <2>4 DEF GetsIn
  <2> QED
    BY <2>1, <2>5, <2>7, <2>8, <2>9, OneIndex
<1> QED
  BY <1>1, <1>2

(* Answered by data from one machine.                                      *)
LEMMA AnsweredPlace ==
  ASSUME NEW q, Injective(q), NEW a, NEW answers, NEW stage, NEW by, ResponsesOK(answers),
         DataSentOK(answers, stage, by), NEW c \in Cache, NEW s \in Machine,
         answers[c][s] = Messages(q, a)
  PROVE  OneIf(TypedIn(q, a, "Data"), stage[c] = "answered" /\ by[c] = s)
<1>1. /\ \A m \in answers[c][s] : m.addr = a /\ \E i \in DOMAIN q : q[i] = m
      /\ \A i \in DOMAIN q : q[i].addr = a => q[i] \in answers[c][s]
      /\ Injective(q)
  BY IndicesSeen
<1>2. /\ \A m \in answers[c][s] : m.Type = "Data" => stage[c] = "answered" /\ by[c] = s
      /\ \A m, n \in answers[c][s] : m.Type = n.Type => m = n
      /\ stage[c] = "answered" /\ by[c] = s => \E m \in answers[c][s] : m.Type = "Data"
  BY DEF ResponsesOK, DataSentOK
<1>3. TypedIn(q, a, "Data") \subseteq DOMAIN q
  BY DEF TypedIn
<1>4. \A i \in TypedIn(q, a, "Data") : q[i] \in answers[c][s] /\ q[i].Type = "Data"
  BY <1>1 DEF TypedIn
<1>5. \A i, j \in TypedIn(q, a, "Data") : q[i] = q[j]
  BY <1>2, <1>4
<1>6. ~(stage[c] = "answered" /\ by[c] = s) => TypedIn(q, a, "Data") = {}
  BY <1>2, <1>4
<1>7. stage[c] = "answered" /\ by[c] = s => TypedIn(q, a, "Data") # {}
  BY <1>1, <1>2 DEF TypedIn
<1> QED
  BY <1>1, <1>3, <1>5, <1>6, <1>7, OneIndex

(* At memory.                                                              *)
LEMMA MemoryPlace ==
  ASSUME NEW queued, NEW stage, QueuedOK(queued, stage), NEW c \in Cache
  PROVE  OneIf({<<"memory", c, 1>> : m \in
                  {m \in queued : m.Type = "MEMORY_READ" /\ m.OriginalRequestor = c}},
               stage[c] = "memory")
<1>1. stage[c] = "memory" <=>
        {m \in queued : m.Type = "MEMORY_READ" /\ m.OriginalRequestor = c} # {}
  BY DEF QueuedOK
<1> QED
  BY <1>1 DEF OneIf

-----------------------------------------------------------------------------
(* A request is in one of its places.                                      *)

(* Conditions that exclude each other.                                     *)
LEMMA OneOfTwo ==
  ASSUME NEW A, NEW B, NEW p, NEW q, OneIf(A, p), OneIf(B, q), ~(p /\ q)
  PROVE  OneIf(A \cup B, p \/ q)
<1>1. CASE p
  BY <1>1 DEF OneIf
<1>2. CASE ~p
  BY <1>2 DEF OneIf
<1> QED
  BY <1>1, <1>2

(* Conditions that are equivalent.                                         *)
LEMMA OneIfSame ==
  ASSUME NEW A, NEW p, OneIf(A, p), NEW q, p <=> q
  PROVE  OneIf(A, q)
  BY DEF OneIf

(* A place for each index.                                                 *)
LEMMA OneTagged ==
  ASSUME NEW I, NEW condition, OneIf(I, condition), NEW t, NEW c
  PROVE  OneIf(TagAll(t, c, I), condition) /\ OneIf(TagEach(t, I), condition)
<1>1. CASE condition
  <2>1. PICK k : I = {k}
    BY <1>1 DEF OneIf
  <2>2. TagAll(t, c, I) = {<<t, c, k>>} /\ TagEach(t, I) = {<<t, k>>}
    BY <2>1 DEF TagAll, TagEach
  <2> QED
    BY <1>1, <2>2 DEF OneIf
<1>2. CASE ~condition
  <2>1. TagAll(t, c, I) = {} /\ TagEach(t, I) = {}
    BY <1>2 DEF OneIf, TagAll, TagEach
  <2> QED
    BY <1>2, <2>1 DEF OneIf
<1> QED
  BY <1>1, <1>2

(* One place in a family of sets, in the set of x.                         *)
LEMMA OneInUnion ==
  ASSUME NEW D, NEW F, NEW st, NEW t, NEW x, st = t => x \in D,
         \A d \in D : OneIf(F[d], st = t /\ x = d)
  PROVE  OneIf(UnionOf(F, D), st = t)
<1>1. CASE st = t
  <2>1. PICK k : F[x] = {k}
    BY <1>1 DEF OneIf
  <2>2. \A d \in D : d # x => F[d] = {}
    BY DEF OneIf
  <2>3. UnionOf(F, D) = {k}
    <3>1. \A y : y \in UnionOf(F, D) <=> \E d \in D : y \in F[d]
      BY DEF UnionOf
    <3>2. \A y : (\E d \in D : y \in F[d]) <=> y = k
      BY <1>1, <2>1, <2>2
    <3> QED
      BY <3>1, <3>2
  <2> QED
    BY <1>1, <2>3 DEF OneIf
<1>2. CASE st # t
  <2>1. \A d \in D : F[d] = {}
    BY <1>2 DEF OneIf
  <2>2. UnionOf(F, D) = {}
    BY <2>1 DEF UnionOf
  <2> QED
    BY <1>2, <2>2 DEF OneIf
<1> QED
  BY <1>1, <1>2

(* A request is in one place while its cache waits for data, and a put     *)
(* while its cache waits for the PutAck.                                   *)
LEMMA RequestInOnePlace ==
  ASSUME TypeOK, ChannelInv, LinesInv, NEW c \in Cache, NEW a \in Addr
  PROVE  /\ OneIf(RequestPlaces(c, a), LineState(c, a) \in GetStates)
         /\ OneIf(PutPlaces(c, a), LineState(c, a) \in PutStates)
<1>1. PICK stage \in StageType, by \in ByType,
           chain \in Seq(Cache), inv \in SUBSET Cache, ack \in SUBSET Cache :
        LineInvNow(a, stage, by, chain, inv, ack)
  BY Witnesses
<1>2. /\ SentOK(SentOf(a), StateOf(a), stage)
      /\ ArrivedOK(ArrivedOf(a), StateOf(a), stage)
      /\ QueuedOK(AtMemory(a), stage)
      /\ AskedOK(a, ForwardsOf(a), StateOf(a), stage, by)
      /\ AckedOK(a, ForwardsOf(a), stage)
      /\ ResponsesOK(AnswersOf(a)) /\ DataSentOK(AnswersOf(a), stage, by)
      /\ StageOK(StateOf(a), stage)
  BY <1>1 DEF LineInvNow, LineInv
<1>3. PICK st, g, p : /\ st = stage[c] /\ (g <=> Getting(StateOf(a), c))
                      /\ (p <=> Putting(StateOf(a), c))
  OBVIOUS
<1>4. /\ g <=> LineState(c, a) \in GetStates
      /\ p <=> LineState(c, a) \in PutStates
      /\ ~(g /\ p)
  BY <1>3 DEF StateOf, LineState, Getting, Putting, GetStates, PutStates
<1>5. /\ g => st \in {"sent", "arrived", "memory", "forwarded", "answered"}
      /\ st \in {"memory", "forwarded", "answered"} => g
      /\ p => st \in {"sent", "arrived", "acked"}
      /\ st = "acked" => p
  <2>1. st \in Stage /\ StateOf(a)[c] \in CacheState
    BY <1>3 DEF StageType, StateOf, TypeOK, CacheTypeOK, Line
  <2> QED
    BY <1>2, <1>3, <2>1 DEF StageOK, Getting, Putting, GetStates, PutStates, Stage, CacheState
<1>6. LineTyped(a)
  BY LineIsTyped
<1>7. /\ OneIf(GetsIn(requestToDir[c], a, c), st = "sent" /\ g)
      /\ OneIf(PutsIn(requestToDir[c], a, c), st = "sent" /\ p)
  <2>1. SentOf(a)[c] = Messages(requestToDir[c], a) /\ Injective(requestToDir[c])
    BY DEF SentOf, LineOf, ChannelInv
  <2>2. SentOf(a)[c] \subseteq RequestMsg
    BY <1>6 DEF LineTyped, SentType
  <2>3. /\ OneIf(GetsIn(requestToDir[c], a, c), stage[c] = "sent" /\ Getting(StateOf(a), c))
        /\ OneIf(PutsIn(requestToDir[c], a, c), stage[c] = "sent" /\ Putting(StateOf(a), c))
    BY <1>2, <2>1, <2>2, SentPlace
  <2> QED
    BY <1>3, <2>3, OneIfSame
<1>8. /\ OneIf(GetsIn(requestFromCache, a, c), st = "arrived" /\ g)
      /\ OneIf(PutsIn(requestFromCache, a, c), st = "arrived" /\ p)
  <2>1. ArrivedOf(a) = Messages(requestFromCache, a) /\ Injective(requestFromCache)
    BY DEF ArrivedOf, ChannelInv
  <2>2. Messages(requestFromCache, a) \subseteq RequestMsg
    BY <1>6, <2>1 DEF LineTyped
  <2>3. /\ OneIf(GetsIn(requestFromCache, a, c), stage[c] = "arrived" /\ Getting(StateOf(a), c))
        /\ OneIf(PutsIn(requestFromCache, a, c), stage[c] = "arrived" /\ Putting(StateOf(a), c))
    BY <1>2, <2>1, <2>2, ArrivedPlace
  <2> QED
    BY <1>3, <2>3, OneIfSame
<1>9. OneIf({<<"memory", c, 1>> : m \in ReadsFor(c, a)}, st = "memory")
  <2>1. ReadsFor(c, a)
          = {m \in AtMemory(a) : m.Type = "MEMORY_READ" /\ m.OriginalRequestor = c}
    BY DEF AtMemory, ReadsFor
  <2> QED
    BY <1>2, <1>3, <2>1, MemoryPlace
<1>10. \A d \in Cache : /\ ForwardsOf(a)[d] = Messages(forwardToCache[d], a)
                        /\ ForwardsOf(a)[d] \subseteq ForwardMsg
                        /\ Injective(forwardToCache[d])
  BY <1>6 DEF ForwardsOf, LineOf, ChannelInv, LineTyped, ForwardsType, ForwardsFor
<1>11. OneIf(UnionOf(AtOwners(c, a), Cache), st = "forwarded")
  <2>1. /\ stage[c] = "forwarded" => by[c] \in Cache
        /\ \A d \in Cache : OneIf(GetsIn(forwardToCache[d], a, c),
                                  stage[c] = "forwarded" /\ by[c] = d)
    BY <1>2, <1>3, <1>5, <1>10, ForwardedPlace
  <2>2. ASSUME NEW d \in Cache
        PROVE  OneIf(AtOwners(c, a)[d], stage[c] = "forwarded" /\ by[c] = d)
    <3>1. AtOwners(c, a)[d] = TagAll("forwarded", d, GetsIn(forwardToCache[d], a, c))
      BY DEF AtOwners
    <3>2. OneIf(GetsIn(forwardToCache[d], a, c), stage[c] = "forwarded" /\ by[c] = d)
      BY <2>1
    <3> QED
      BY <3>1, <3>2, OneTagged, Zenon
  <2>3. stage[c] = "forwarded" => by[c] \in Cache
    BY <2>1
  <2>4. OneIf(UnionOf(AtOwners(c, a), Cache), stage[c] = "forwarded")
    BY <2>2, <2>3, OneInUnion
  <2> QED
    BY <1>3, <2>4
<1>12. OneIf(UnionOf(DataTo(c, a), Machine), st = "answered")
  <2>1. by[c] \in Machine
    BY DEF ByType
  <2>2. ASSUME NEW s \in Machine
        PROVE  OneIf(DataTo(c, a)[s], stage[c] = "answered" /\ by[c] = s)
    <3>1. DataTo(c, a)[s] = TagAll("answered", s, TypedIn(responseToCache[c][s], a, "Data"))
      BY DEF DataTo
    <3>2. /\ AnswersOf(a)[c][s] = Messages(responseToCache[c][s], a)
          /\ Injective(responseToCache[c][s])
      BY DEF AnswersOf, LineOfPairs, ChannelInv
    <3>3. OneIf(TypedIn(responseToCache[c][s], a, "Data"), stage[c] = "answered" /\ by[c] = s)
      BY <1>2, <3>2, AnsweredPlace
    <3> QED
      BY <3>1, <3>3, OneTagged, Zenon
  <2>3. OneIf(UnionOf(DataTo(c, a), Machine), stage[c] = "answered")
    BY <2>1, <2>2, OneInUnion
  <2> QED
    BY <1>3, <2>3
<1>13. OneIf(TypedIn(forwardToCache[c], a, "PutAck"), st = "acked")
  BY <1>2, <1>3, <1>10, AckedPlace
<1>14. OneIf(RequestPlaces(c, a), g)
  <2>1. PICK A, B, C, D, E :
          /\ A = TagAll("sent", c, GetsIn(requestToDir[c], a, c))
          /\ B = TagAll("arrived", c, GetsIn(requestFromCache, a, c))
          /\ C = {<<"memory", c, 1>> : m \in ReadsFor(c, a)}
          /\ D = UnionOf(AtOwners(c, a), Cache)
          /\ E = UnionOf(DataTo(c, a), Machine)
    OBVIOUS
  <2>2. OneIf(A, st = "sent" /\ g) /\ OneIf(B, st = "arrived" /\ g)
    BY <1>7, <1>8, <2>1, OneTagged
  <2>3. OneIf(C, st = "memory") /\ OneIf(D, st = "forwarded") /\ OneIf(E, st = "answered")
    BY <1>9, <1>11, <1>12, <2>1
  <2>4. OneIf(A \cup B, (st = "sent" /\ g) \/ (st = "arrived" /\ g))
    BY <2>2, OneOfTwo
  <2>5. OneIf((A \cup B) \cup C,
              ((st = "sent" /\ g) \/ (st = "arrived" /\ g)) \/ st = "memory")
    BY <2>3, <2>4, OneOfTwo
  <2>6. OneIf(((A \cup B) \cup C) \cup D,
              (((st = "sent" /\ g) \/ (st = "arrived" /\ g)) \/ st = "memory")
                \/ st = "forwarded")
    BY <2>3, <2>5, OneOfTwo
  <2>7. OneIf((((A \cup B) \cup C) \cup D) \cup E,
              ((((st = "sent" /\ g) \/ (st = "arrived" /\ g)) \/ st = "memory")
                \/ st = "forwarded") \/ st = "answered")
    BY <2>3, <2>6, OneOfTwo
  <2>8. OneIf((((A \cup B) \cup C) \cup D) \cup E, g)
    BY <1>5, <2>7 DEF OneIf
  <2>9. RequestPlaces(c, a) = (((A \cup B) \cup C) \cup D) \cup E
    BY <2>1, RequestPlacesAre DEF RequestPlacesOf
  <2> QED
    BY <2>8, <2>9
<1>15. OneIf(PutPlaces(c, a), p)
  <2>1. PICK A, B, C :
          /\ A = TagEach("sent", PutsIn(requestToDir[c], a, c))
          /\ B = TagEach("arrived", PutsIn(requestFromCache, a, c))
          /\ C = TagEach("acked", TypedIn(forwardToCache[c], a, "PutAck"))
    OBVIOUS
  <2>2. OneIf(A, st = "sent" /\ p) /\ OneIf(B, st = "arrived" /\ p) /\ OneIf(C, st = "acked")
    BY <1>7, <1>8, <1>13, <2>1, OneTagged
  <2>3. OneIf(A \cup B, (st = "sent" /\ p) \/ (st = "arrived" /\ p))
    BY <2>2, OneOfTwo
  <2>4. OneIf((A \cup B) \cup C, ((st = "sent" /\ p) \/ (st = "arrived" /\ p)) \/ st = "acked")
    BY <2>2, <2>3, OneOfTwo
  <2>5. OneIf((A \cup B) \cup C, p)
    BY <1>5, <2>4 DEF OneIf
  <2>6. PutPlaces(c, a) = (A \cup B) \cup C
    BY <2>1, PutPlacesAre DEF PutPlacesOf
  <2> QED
    BY <2>5, <2>6
<1> QED
  BY <1>4, <1>14, <1>15 DEF OneIf

(* The counts follow.                                                      *)
LEMMA LinesGiveOneAnswer == TypeOK /\ ChannelInv /\ LinesInv => OneAnswerPerRequest
<1> SUFFICES ASSUME TypeOK, ChannelInv, LinesInv, NEW c \in Cache, NEW a \in Addr
             PROVE  /\ Cardinality(RequestPlaces(c, a)) =
                         IF LineState(c, a) \in {"IS_D", "IM_AD", "SM_AD"} THEN 1 ELSE 0
                    /\ Cardinality(PutPlaces(c, a)) =
                         IF LineState(c, a) \in {"MI_A", "SI_A", "II_A"} THEN 1 ELSE 0
  BY DEF OneAnswerPerRequest
<1>1. /\ Cardinality(RequestPlaces(c, a)) = IF LineState(c, a) \in GetStates THEN 1 ELSE 0
      /\ Cardinality(PutPlaces(c, a)) = IF LineState(c, a) \in PutStates THEN 1 ELSE 0
  BY RequestInOnePlace, CountOneIf
<1> QED
  BY <1>1 DEF GetStates, PutStates

(* A cache that waits for data has its request in exactly one place, a     *)
(* cache that has a put under way has it or its acknowledgement in one,    *)
(* and every other cache has none.                                         *)
THEOREM EveryRequestAnsweredOnce == Spec => []OneAnswerPerRequest
  BY TypeCorrect, CoherenceInvariant, LinesGiveOneAnswer, PTL DEF CoherenceInv

-----------------------------------------------------------------------------
(* The count of acks.                                                      *)

(* One thing is kept for each member of S and none for the others.         *)
LEMMA CountOfUnion ==
  ASSUME NEW D, NEW S, IsFiniteSet(S), S \subseteq D, NEW F,
         \A d \in D : OneIf(F[d], d \in S),
         \A d, e \in D : d # e => F[d] \cap F[e] = {}
  PROVE  Cardinality(UnionOf(F, D)) = Cardinality(S)
<1>1. PICK f : f = [d \in S |-> CHOOSE p : p \in F[d]]
  OBVIOUS
<1>2. \A d \in S : F[d] = {f[d]}
  <2>1. SUFFICES ASSUME NEW d \in S PROVE F[d] = {f[d]}
    OBVIOUS
  <2>2. PICK p : F[d] = {p}
    BY DEF OneIf
  <2>3. f[d] \in F[d]
    BY <1>1, <2>2
  <2> QED
    BY <2>2, <2>3
<1>3. \A d \in D : d \notin S => F[d] = {}
  BY DEF OneIf
<1>4. \A y : y \in UnionOf(F, D) <=> \E d \in S : y = f[d]
  <2>1. \A y : y \in UnionOf(F, D) <=> \E d \in D : y \in F[d]
    BY DEF UnionOf
  <2> QED
    BY <1>2, <1>3, <2>1
<1>5. f \in [S -> UnionOf(F, D)]
  BY <1>1, <1>4
<1>6. \A d, e \in S : f[d] = f[e] => d = e
  BY <1>2
<1>7. f \in Surjection(S, UnionOf(F, D))
  BY <1>4, <1>5 DEF Surjection
<1>8. f \in Injection(S, UnionOf(F, D))
  BY <1>5, <1>6 DEF Injection, IsInjective
<1> QED
  BY <1>7, <1>8, FS_Surjection

(* The invalidations on behalf of c that cache d has or has answered.      *)
InvsIn(q, a, c) ==
  {i \in DOMAIN q : q[i].addr = a /\ q[i].Type = "Inv" /\ q[i].Requestor = c}

Owes(c, a) ==
  [d \in Cache |-> TagAll("inv", d, InvsIn(forwardToCache[d], a, c))
                     \cup TagAll("ack", d, TypedIn(responseToCache[c][d], a, "InvAck"))]

(* The Invs and InvAcks for c, by the cache that owes them.                *)
LEMMA AcksOwedAre ==
  ASSUME NEW c, NEW a
  PROVE  AcksOwed(c, a) = UnionOf(Owes(c, a), Cache)
  BY DEF AcksOwed, UnionOf, Owes, TagAll, Indices, InvsIn, TypedIn

(* Cache c is the first of the chain.                                      *)
First(c, chain) == chain # <<>> /\ c = chain[1]

(* A cache that is told to invalidate has one Inv to come.                 *)
LEMMA InvPlace ==
  ASSUME NEW q, Injective(q), NEW a, NEW forwards, NEW d \in Cache,
         forwards[d] = Messages(q, a), forwards[d] \subseteq ForwardMsg,
         NEW chain, NEW inv \in SUBSET Cache, NEW c, InvSentOK(a, forwards, chain, inv),
         inv # {} => chain # <<>>
  PROVE  OneIf(InvsIn(q, a, c), First(c, chain) /\ d \in inv)
<1>0. PICK k : k = ForwardOf("Inv", a, chain[1])
  OBVIOUS
<1>1. /\ \A m \in forwards[d] : m.addr = a /\ \E i \in DOMAIN q : q[i] = m
      /\ \A i \in DOMAIN q : q[i].addr = a => q[i] \in forwards[d]
  BY IndicesSeen
<1>2. /\ \A m \in forwards[d] : m.Type = "Inv" =>
           d \in inv /\ m.Requestor = chain[1] /\ m = k
      /\ d \in inv => k \in forwards[d]
      /\ k.Type = "Inv" /\ k.Requestor = chain[1]
  BY <1>0, <1>1 DEF InvSentOK, ForwardMsg, ForwardOf
<1>3. InvsIn(q, a, c) \subseteq DOMAIN q
  BY DEF InvsIn
<1>4. \A i \in InvsIn(q, a, c) : /\ q[i] \in forwards[d] /\ q[i].Type = "Inv"
                                 /\ q[i].Requestor = c
  BY <1>1 DEF InvsIn
<1>5. \A i, j \in InvsIn(q, a, c) : q[i] = q[j]
  BY <1>2, <1>4
<1>6. ~(First(c, chain) /\ d \in inv) => InvsIn(q, a, c) = {}
  BY <1>2, <1>4 DEF First
<1>7. First(c, chain) /\ d \in inv => InvsIn(q, a, c) # {}
  BY <1>1, <1>2 DEF InvsIn, First
<1> QED
  BY <1>3, <1>5, <1>6, <1>7, OneIndex

(* A cache that has invalidated has one InvAck under way.                  *)
LEMMA AckPlace ==
  ASSUME NEW q, Injective(q), NEW a, NEW answers, NEW c \in Cache, NEW d \in Cache,
         answers[c][d] = Messages(q, a), NEW chain, NEW ack \in SUBSET Cache,
         ResponsesOK(answers), InvAckSentOK(answers, chain, ack)
  PROVE  OneIf(TypedIn(q, a, "InvAck"), First(c, chain) /\ d \in ack)
<1>1. /\ \A m \in answers[c][d] : m.addr = a /\ \E i \in DOMAIN q : q[i] = m
      /\ \A i \in DOMAIN q : q[i].addr = a => q[i] \in answers[c][d]
  BY IndicesSeen
<1>2. d \in Machine
  BY DEF Machine
<1>3. /\ \A m \in answers[c][d] : m.Type = "InvAck" => d \in ack /\ First(c, chain)
      /\ \A m, n \in answers[c][d] : m.Type = n.Type => m = n
      /\ First(c, chain) /\ d \in ack => \E m \in answers[c][d] : m.Type = "InvAck"
  BY <1>2 DEF ResponsesOK, InvAckSentOK, First
<1>4. TypedIn(q, a, "InvAck") \subseteq DOMAIN q
  BY DEF TypedIn
<1>5. \A i \in TypedIn(q, a, "InvAck") : q[i] \in answers[c][d] /\ q[i].Type = "InvAck"
  BY <1>1 DEF TypedIn
<1>6. \A i, j \in TypedIn(q, a, "InvAck") : q[i] = q[j]
  BY <1>3, <1>5
<1>7. ~(First(c, chain) /\ d \in ack) => TypedIn(q, a, "InvAck") = {}
  BY <1>3, <1>5
<1>8. First(c, chain) /\ d \in ack => TypedIn(q, a, "InvAck") # {}
  BY <1>1, <1>3 DEF TypedIn
<1> QED
  BY <1>4, <1>6, <1>7, <1>8, OneIndex

(* What is owed to c is what is due to it.                                 *)
LEMMA OwedIsDue ==
  ASSUME TypeOK, ChannelInv, NEW c \in Cache, NEW a \in Addr, NEW chain \in Seq(Cache),
         NEW inv \in SUBSET Cache, NEW ack \in SUBSET Cache,
         InvSentOK(a, ForwardsOf(a), chain, inv), ResponsesOK(AnswersOf(a)),
         InvAckSentOK(AnswersOf(a), chain, ack),
         inv \cap ack = {}, inv \cup ack # {} => chain # <<>>
  PROVE  Cardinality(AcksOwed(c, a)) = Due(c, chain, inv, ack)
<1>1. PICK S : S = IF First(c, chain) THEN inv \cup ack ELSE {}
  OBVIOUS
<1>2. LineTyped(a)
  BY LineIsTyped
<1>3. ASSUME NEW d \in Cache PROVE OneIf(Owes(c, a)[d], d \in S)
  <2>1. /\ ForwardsOf(a)[d] = Messages(forwardToCache[d], a)
        /\ Injective(forwardToCache[d])
    BY DEF ForwardsOf, LineOf, ChannelInv
  <2>2. ForwardsOf(a)[d] \subseteq ForwardMsg
    BY <1>2 DEF LineTyped, ForwardsType, ForwardsFor
  <2>3. OneIf(InvsIn(forwardToCache[d], a, c), First(c, chain) /\ d \in inv)
    <3>1. inv # {} => chain # <<>>
      OBVIOUS
    <3> QED
      BY <2>1, <2>2, <3>1, InvPlace
  <2>4. /\ AnswersOf(a)[c][d] = Messages(responseToCache[c][d], a)
        /\ Injective(responseToCache[c][d])
    BY DEF AnswersOf, LineOfPairs, ChannelInv, Machine
  <2>5. OneIf(TypedIn(responseToCache[c][d], a, "InvAck"), First(c, chain) /\ d \in ack)
    BY <2>4, AckPlace
  <2>6. PICK I, A : /\ I = TagAll("inv", d, InvsIn(forwardToCache[d], a, c))
                    /\ A = TagAll("ack", d, TypedIn(responseToCache[c][d], a, "InvAck"))
    OBVIOUS
  <2>7. OneIf(I, First(c, chain) /\ d \in inv) /\ OneIf(A, First(c, chain) /\ d \in ack)
    BY <2>3, <2>5, <2>6, OneTagged
  <2>8. OneIf(I \cup A, d \in S)
    BY <1>1, <2>7 DEF OneIf
  <2> QED
    BY <2>6, <2>8 DEF Owes
<1>4. ASSUME NEW d \in Cache, NEW e \in Cache, d # e
      PROVE  Owes(c, a)[d] \cap Owes(c, a)[e] = {}
  <2>1. ASSUME NEW x \in Cache PROVE \A p \in Owes(c, a)[x] : p[2] = x
    BY DEF Owes, TagAll
  <2> QED
    BY <1>4, <2>1
<1>5. IsFiniteSet(S) /\ S \subseteq Cache
  BY <1>1, MSIConstants, FS_Subset DEF MSIConstants
<1>6. Cardinality(UnionOf(Owes(c, a), Cache)) = Cardinality(S)
  BY <1>3, <1>4, <1>5, CountOfUnion
<1>7. Cardinality(S) = Due(c, chain, inv, ack)
  BY <1>1, FS_EmptySet DEF Due, First
<1> QED
  BY <1>6, <1>7, AcksOwedAre

-----------------------------------------------------------------------------
(* What cache c counts on is what is due to it.                            *)
LEMMA CountedIsDue ==
  ASSUME TypeOK, DirInv, ChannelInv, NEW c \in Cache, NEW a \in Addr,
         NEW stage \in StageType, NEW by \in ByType, NEW chain \in Seq(Cache),
         NEW inv \in SUBSET Cache, NEW ack \in SUBSET Cache,
         LineInvNow(a, stage, by, chain, inv, ack)
  PROVE  AcksCounted(c, a) = Due(c, chain, inv, ack)
<1>1. PICK q, told, e, n, due :
        /\ q = responseToCache[c][Directory] /\ told = {i \in DOMAIN q : q[i].addr = a}
        /\ e = directory[a] /\ n = line[c][a].AcksOutstanding
        /\ due = Due(c, chain, inv, ack)
  OBVIOUS
<1>2. AcksCounted(c, a) = n + (IF told = {} THEN 0 ELSE q[CHOOSE i \in told : TRUE].Acks)
                            + (IF e.DirState = "M_m" THEN AcksFor(e, c) ELSE 0)
  BY <1>1 DEF AcksCounted
<1>3. /\ ResponsesOK(AnswersOf(a)) /\ DataSentOK(AnswersOf(a), stage, by)
      /\ StageOK(StateOf(a), stage) /\ EntryOK(e, stage, chain)
      /\ MemoryOK(e, StateOf(a), stage)
      /\ AcksOK(e, AnswersOf(a), StateOf(a), AcksOf(a), stage, by, chain, inv, ack)
  BY <1>1 DEF LineInvNow, LineInv
<1>4. /\ AnswersOf(a)[c][Directory] = Messages(q, a) /\ Directory \in Machine
      /\ AcksOf(a)[c] = n
  BY <1>1 DEF AnswersOf, LineOfPairs, Machine, AcksOf
<1>5. \A i \in DOMAIN q : q[i].addr = a => q[i] \in AnswersOf(a)[c][Directory]
  BY <1>4, IndicesSeen
<1>6. e \in Entry /\ EntryConsistent(e)
  BY <1>1 DEF TypeOK, DirTypeOK, DirInv, DirectoryConsistent
<1>7. n \in Int /\ due \in Int /\ AcksFor(e, c) \in Int
  <2>1. due \in Nat
    BY <1>1, DueIsNat
  <2> QED
    BY <1>1, <1>6, <2>1, AcksForType DEF TypeOK, CacheTypeOK, Line
<1>8. ASSUME told # {}
      PROVE  /\ stage[c] = "answered" /\ by[c] = Directory
             /\ q[CHOOSE i \in told : TRUE] \in AnswersOf(a)[c][Directory]
  <2>1. (CHOOSE i \in told : TRUE) \in told
    BY <1>8
  <2>2. PICK i : i = CHOOSE j \in told : TRUE
    OBVIOUS
  <2>3. i \in told
    BY <2>1, <2>2
  <2>4. q[i] \in AnswersOf(a)[c][Directory]
    BY <1>1, <1>5, <2>3
  <2>5. q[i].Type = "Data"
    BY <1>3, <1>4, <2>4 DEF ResponsesOK
  <2> QED
    BY <1>3, <1>4, <2>2, <2>4, <2>5 DEF DataSentOK
<1>9. ASSUME stage[c] = "answered", by[c] = Directory PROVE told # {}
  <2>1. PICK m \in AnswersOf(a)[c][Directory] : m.Type = "Data"
    BY <1>3, <1>9 DEF DataSentOK
  <2>2. PICK i \in DOMAIN q : q[i] = m /\ q[i].addr = a
    BY <1>4, <2>1, IndicesSeen
  <2> QED
    BY <1>1, <2>2
<1>10. ASSUME stage[c] # "memory" PROVE (IF e.DirState = "M_m" THEN AcksFor(e, c) ELSE 0) = 0
  <2>1. CASE e.DirState = "M_m"
    <3>1. chain # <<>> /\ e.Owner = {LastOf(chain)} /\ Len(chain) = 1
          /\ stage[chain[1]] = "memory"
      BY <1>3, <2>1 DEF EntryOK
    <3>2. c \notin e.Owner
      BY <1>10, <3>1 DEF LastOf
    <3> QED
      BY <3>2 DEF AcksFor
  <2> QED
    BY <2>1
<1>11. CASE stage[c] = "memory"
  <2>1. told = {}
    BY <1>8, <1>11
  <2>2. n + AcksFor(e, c) = due
    BY <1>1, <1>3, <1>4, <1>11 DEF AcksOK
  <2>3. (IF e.DirState = "M_m" THEN AcksFor(e, c) ELSE 0) = AcksFor(e, c)
    <3>1. CASE e.DirState = "S_m"
      <4>1. e.Owner = {}
        BY <1>6, <3>1 DEF EntryConsistent
      <4> QED
        BY <3>1, <4>1 DEF AcksFor
    <3> QED
      BY <1>3, <1>11, <3>1 DEF MemoryOK
  <2> QED
    BY <1>1, <1>2, <1>7, <2>1, <2>2, <2>3
<1>12. CASE stage[c] = "answered" /\ by[c] = Directory
  <2>1. PICK m : m = q[CHOOSE i \in told : TRUE]
    OBVIOUS
  <2>2. told # {} /\ m \in AnswersOf(a)[c][Directory]
    BY <1>8, <1>9, <1>12, <2>1
  <2>3. n + m.Acks = due
    BY <1>1, <1>3, <1>4, <1>12, <2>2 DEF AcksOK
  <2>4. AcksCounted(c, a) = n + m.Acks + 0
    BY <1>2, <1>10, <1>12, <2>1, <2>2
  <2> QED
    BY <1>1, <1>7, <2>3, <2>4
<1>13. CASE stage[c] # "memory" /\ ~(stage[c] = "answered" /\ by[c] = Directory)
  <2>1. told = {}
    BY <1>8, <1>13
  <2>2. n = due
    BY <1>1, <1>3, <1>4, <1>13 DEF AcksOK
  <2> QED
    BY <1>1, <1>2, <1>7, <1>10, <1>13, <2>1, <2>2
<1> QED
  BY <1>11, <1>12, <1>13

(* Both counts are the acks due.                                           *)
LEMMA LinesGiveAcks == TypeOK /\ DirInv /\ ChannelInv /\ LinesInv => AcksAccounted
<1> SUFFICES ASSUME TypeOK, DirInv, ChannelInv, LinesInv, NEW c \in Cache, NEW a \in Addr
             PROVE  AcksCounted(c, a) = Cardinality(AcksOwed(c, a))
  BY DEF AcksAccounted
<1>1. PICK stage \in StageType, by \in ByType,
           chain \in Seq(Cache), inv \in SUBSET Cache, ack \in SUBSET Cache :
        LineInvNow(a, stage, by, chain, inv, ack)
  BY Witnesses
<1>2. /\ InvSentOK(a, ForwardsOf(a), chain, inv) /\ ResponsesOK(AnswersOf(a))
      /\ InvAckSentOK(AnswersOf(a), chain, ack)
      /\ inv \cap ack = {} /\ (inv \cup ack # {} => chain # <<>>)
  BY <1>1 DEF LineInvNow, LineInv, InvsOK
<1>3. Cardinality(AcksOwed(c, a)) = Due(c, chain, inv, ack)
  BY <1>2, OwedIsDue
<1> QED
  BY <1>1, <1>3, CountedIsDue

(* The acks a cache counts on, those its TBE has still to see, those the   *)
(* data from the directory will tell it of and those the directory has     *)
(* still to count, are exactly the Invs and InvAcks under way for it.      *)
THEOREM AcksAlwaysAccounted == Spec => []AcksAccounted
  BY TypeCorrect, DirInvariant, CoherenceInvariant, LinesGiveAcks, PTL DEF CoherenceInv

=============================================================================
