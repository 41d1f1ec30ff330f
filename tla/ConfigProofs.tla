---------------------------- MODULE ConfigProofs ----------------------------
(***************************************************************************)
(* Proofs about the systems that the configuration scripts build, for      *)
(* every set of builds: any number of CPUs, any size of memory up to the   *)
(* I/O gap, either Ruby protocol.                                          *)
(*                                                                         *)
(* A script is a sequence of statements, but what it builds does not       *)
(* depend on their order: the first sections find the set of statements    *)
(* of each script (StatementsOf), and ConfigInv says that what is built    *)
(* was made by statements of the set and that what has been executed is    *)
(* there.  The tables of connections (WiresOf), links (RubyLinks) and      *)
(* caches (CachesOf) follow, and from them one invariant of the packets    *)
(* for each property: where a packet can be, and what it has passed.       *)
(***************************************************************************)
EXTENDS ConfigProperties, SequenceTheorems, FiniteSetTheorems,
        WellFoundedInduction, TLAPS

-----------------------------------------------------------------------------
(* Pieces of a script: the statements of a sequence as a set.              *)

(* A set of numbers that is not empty has a least one.                     *)
LEMMA LeastNumber ==
  ASSUME NEW S, S \subseteq Nat, S # {}
  PROVE  \E n \in S : \A m \in S : n <= m
<1> DEFINE Less == OpToRel(<, Nat)
<1>1. IsWellFoundedOn(Less, Nat)
  BY NatLessThanWellFounded
<1>2. \E n \in S : \A m \in S : <<m, n>> \notin Less
  <2> HIDE DEF Less
  <2> QED
    BY <1>1, WFMin, Zenon
<1>3. PICK n \in S : \A m \in S : <<m, n>> \notin Less
  BY <1>2
<1>4. ASSUME NEW m \in S
      PROVE  n <= m
  <2>1. <<m, n>> \notin {p \in Nat \X Nat : p[1] < p[2]}
    BY <1>3 DEF OpToRel
  <2> QED
    BY <2>1
<1> QED
  BY <1>4

(* Induction over the numbers, for a set: one that has 0, and with each    *)
(* number the next, has them all.                                          *)
LEMMA AllNumbers ==
  ASSUME NEW S, S \subseteq Nat, 0 \in S, \A n \in S : n + 1 \in S
  PROVE  S = Nat
<1>1. SUFFICES ASSUME Nat \ S # {}
               PROVE  FALSE
  OBVIOUS
<1>2. PICK n \in Nat \ S : \A m \in Nat \ S : n <= m
  BY <1>1, LeastNumber
<1>3. n - 1 \in S
  BY <1>2
<1> QED
  BY <1>2, <1>3

(* The piece s of a script has the statements of R and no other.           *)
Gives(s, R) == s \in Seq(R) /\ R = {s[k] : k \in DOMAIN s}

(* The empty piece of a script has no statement.                           *)
LEMMA GivesNone == Gives(<<>>, {})
  BY DEF Gives

(* A piece of one statement has that statement.                            *)
LEMMA GivesOne ==
  ASSUME NEW x
  PROVE  Gives(<<x>>, {x})
  BY DEF Gives

(* One piece of a script after another has the statements of both.         *)
LEMMA GivesThen ==
  ASSUME NEW s, NEW t, NEW R, NEW Q, Gives(s, R), Gives(t, Q)
  PROVE  Gives(s \o t, R \cup Q)
<1>1. s \in Seq(R \cup Q) /\ t \in Seq(R \cup Q)
  BY DEF Gives
<1>2. /\ s \o t \in Seq(R \cup Q)
      /\ Len(s \o t) = Len(s) + Len(t)
      /\ \A k \in 1..Len(s) + Len(t) :
           (s \o t)[k] = IF k <= Len(s) THEN s[k] ELSE t[k - Len(s)]
  BY <1>1
<1>3. DOMAIN s = 1..Len(s) /\ DOMAIN t = 1..Len(t) 
      /\ DOMAIN (s \o t) = 1..(Len(s) + Len(t)) /\ Len(s) \in Nat /\ Len(t) \in Nat
  BY <1>1, <1>2
<1>4. ASSUME NEW k \in DOMAIN (s \o t)
      PROVE  (s \o t)[k] \in R \cup Q
  BY <1>2, <1>3
<1>5. ASSUME NEW x \in R
      PROVE  \E k \in DOMAIN (s \o t) : (s \o t)[k] = x
  <2>1. PICK k \in 1..Len(s) : s[k] = x
    BY <1>3, <1>5 DEF Gives
  <2>2. k \in 1..(Len(s) + Len(t)) /\ k <= Len(s)
    BY <1>3
  <2> QED
    BY <1>2, <1>3, <2>1, <2>2
<1>6. ASSUME NEW x \in Q
      PROVE  \E k \in DOMAIN (s \o t) : (s \o t)[k] = x
  <2>1. PICK k \in 1..Len(t) : t[k] = x
    BY <1>3, <1>6 DEF Gives
  <2>2. /\ Len(s) + k \in 1..(Len(s) + Len(t)) /\ ~(Len(s) + k <= Len(s))
        /\ Len(s) + k - Len(s) = k
    BY <1>3
  <2> QED
    BY <1>2, <1>3, <2>1, <2>2
<1>7. R \cup Q = {(s \o t)[k] : k \in DOMAIN (s \o t)}
  BY <1>4, <1>5, <1>6
<1> QED
  BY <1>2, <1>7 DEF Gives

(* The recursion of FlattenSeq has a function that satisfies it.           *)
LEMMA FlattenExists ==
  ASSUME NEW ss, NEW n \in Nat
  PROVE  \E f : f = [i \in 1..n |-> IF i = 1 THEN ss[i] ELSE f[i - 1] \o ss[i]]
<1> DEFINE S == {m \in Nat :
                   \E f : f = [i \in 1..m |-> IF i = 1 THEN ss[i] ELSE f[i - 1] \o ss[i]]}
<1>1. 0 \in S
  <2>1. \E f : f = [i \in {} |-> IF i = 1 THEN ss[i] ELSE f[i - 1] \o ss[i]]
    <3> WITNESS [i \in {} |-> 0]
    <3> QED OBVIOUS
  <2>2. 1..0 = {}
    OBVIOUS
  <2> QED
    BY <2>1, <2>2
<1>2. ASSUME NEW m \in S
      PROVE  m + 1 \in S
  <2>1. PICK f : f = [i \in 1..m |-> IF i = 1 THEN ss[i] ELSE f[i - 1] \o ss[i]]
    OBVIOUS
  <2>2. PICK last : last = IF m = 0 THEN ss[1] ELSE f[m] \o ss[m + 1]
    OBVIOUS
  <2>3. PICK g : g = [i \in 1..(m + 1) |-> IF i <= m THEN f[i] ELSE last]
    OBVIOUS
  <2>4. ASSUME NEW i \in 1..(m + 1)
        PROVE  g[i] = IF i = 1 THEN ss[i] ELSE g[i - 1] \o ss[i]
    <3>1. CASE i <= m
      <4>1. g[i] = f[i] /\ (i # 1 => g[i - 1] = f[i - 1]) /\ i \in 1..m
        BY <2>3, <3>1
      <4>2. f[i] = IF i = 1 THEN ss[i] ELSE f[i - 1] \o ss[i]
        BY <2>1, <4>1
      <4> QED
        BY <4>1, <4>2
    <3>2. CASE i = m + 1
      BY <2>2, <2>3, <3>2
    <3> QED
      BY <3>1, <3>2
  <2>5. g = [i \in 1..(m + 1) |-> IF i = 1 THEN ss[i] ELSE g[i - 1] \o ss[i]]
    BY <2>3, <2>4
  <2>6. \E h : h = [i \in 1..(m + 1) |-> IF i = 1 THEN ss[i] ELSE h[i - 1] \o ss[i]]
    <3> WITNESS g
    <3> QED
      BY <2>5
  <2>7. m + 1 \in Nat
    OBVIOUS
  <2> QED
    BY <2>6, <2>7, Zenon
<1>3. S = Nat
  <2> HIDE DEF S
  <2>1. S \subseteq Nat
    BY DEF S
  <2> QED
    BY <1>1, <1>2, <2>1, AllNumbers
<1> QED
  BY <1>3

(* FlattenSeq is what that function gives for the whole sequence.          *)
LEMMA Flattened ==
  ASSUME NEW ss, NEW n \in Nat, n > 0, Len(ss) = n
  PROVE  \E f : /\ f = [i \in 1..n |-> IF i = 1 THEN ss[i] ELSE f[i - 1] \o ss[i]]
                /\ FlattenSeq(ss) = f[n]
<1> DEFINE F == CHOOSE g : g = [i \in 1..n |-> IF i = 1 THEN ss[i] ELSE g[i - 1] \o ss[i]]
<1>1. F = [i \in 1..n |-> IF i = 1 THEN ss[i] ELSE F[i - 1] \o ss[i]]
  BY FlattenExists, Zenon
<1>2. FlattenSeq(ss) = F[n]
  BY DEF FlattenSeq
<1> QED
  BY <1>1, <1>2

(* The pieces of a loop, one after another, have the statements of all of  *)
(* them.                                                                   *)
LEMMA GivesEach ==
  ASSUME NEW n \in Nat, NEW ss, NEW RR, ss = [i \in 1..n |-> ss[i]],
         \A i \in 1..n : Gives(ss[i], RR[i])
  PROVE  Gives(FlattenSeq(ss), UNION {RR[i] : i \in 1..n})
<1>0. Len(ss) = n /\ DOMAIN ss = 1..n
  <2>1. PICK f : f = [i \in 1..n |-> ss[i]]
    OBVIOUS
  <2>2. Len(f) = n /\ DOMAIN f = 1..n
    BY <2>1
  <2> QED
    BY <2>1, <2>2
<1>1. CASE n = 0
  <2>1. FlattenSeq(ss) = ss
    BY <1>0, <1>1 DEF FlattenSeq
  <2>2. UNION {RR[i] : i \in 1..n} = {}
    BY <1>1
  <2>3. DOMAIN ss = {} /\ ss \in [1..0 -> {}]
    BY <1>0, <1>1
  <2>4. ss \in Seq({})
    BY <2>3
  <2>5. {ss[k] : k \in DOMAIN ss} = {}
    BY <2>3
  <2> QED
    BY <2>1, <2>2, <2>4, <2>5 DEF Gives
<1>2. CASE n > 0
  <2>1. PICK f : /\ f = [i \in 1..n |-> IF i = 1 THEN ss[i] ELSE f[i - 1] \o ss[i]]
                 /\ FlattenSeq(ss) = f[n]
    BY <1>0, <1>2, Flattened
  <2> DEFINE S == {m \in Nat : m + 1 <= n => Gives(f[m + 1], UNION {RR[i] : i \in 1..(m + 1)})}
  <2>2. 0 \in S
    <3>1. f[1] = ss[1] /\ 1 \in 1..n
      BY <1>2, <2>1
    <3>2. UNION {RR[i] : i \in 1..(0 + 1)} = RR[1]
      OBVIOUS
    <3>3. Gives(f[0 + 1], RR[1])
      BY <3>1
    <3> HIDE DEF Gives
    <3> QED
      BY <3>2, <3>3
  <2>3. ASSUME NEW m \in S
        PROVE  m + 1 \in S
    <3>1. SUFFICES ASSUME m + 1 + 1 <= n
                   PROVE  Gives(f[m + 1 + 1], UNION {RR[i] : i \in 1..(m + 1 + 1)})
      <4>1. m + 1 \in Nat
        OBVIOUS
      <4> QED
        BY <4>1, Zenon
    <3>2. Gives(f[m + 1], UNION {RR[i] : i \in 1..(m + 1)})
      BY <3>1
    <3>3. f[m + 1 + 1] = f[m + 1] \o ss[m + 1 + 1] /\ m + 1 + 1 \in 1..n
      <4>1. m \in Nat
        OBVIOUS
      <4> HIDE DEF S
      <4>2. m + 1 + 1 \in 1..n /\ m + 1 + 1 # 1 /\ m + 1 + 1 - 1 = m + 1
        BY <3>1, <4>1
      <4>3. \A k \in 1..n : f[k] = IF k = 1 THEN ss[k] ELSE f[k - 1] \o ss[k]
        BY <2>1, Zenon
      <4>4. PICK k : k = m + 1 + 1
        OBVIOUS
      <4>5. k \in 1..n /\ k # 1 /\ k - 1 = m + 1
        BY <4>1, <4>2, <4>4
      <4>6. f[k] = f[k - 1] \o ss[k]
        BY <4>3, <4>5, Zenon
      <4>7. f[k] = f[m + 1] \o ss[k]
        BY <4>5, <4>6
      <4> QED
        BY <4>4, <4>5, <4>7, Zenon
    <3>4. Gives(f[m + 1] \o ss[m + 1 + 1], (UNION {RR[i] : i \in 1..(m + 1)}) \cup RR[m + 1 + 1])
      BY <3>2, <3>3, GivesThen
    <3>5. UNION {RR[i] : i \in 1..(m + 1 + 1)}
            = (UNION {RR[i] : i \in 1..(m + 1)}) \cup RR[m + 1 + 1]
      <4>1. 1..(m + 1 + 1) = 1..(m + 1) \cup {m + 1 + 1}
        OBVIOUS
      <4> QED
        BY <4>1
    <3> QED
      BY <3>3, <3>4, <3>5
  <2>4. S = Nat
    <3> HIDE DEF S
    <3>1. S \subseteq Nat
      BY DEF S
    <3> QED
      BY <2>2, <2>3, <3>1, AllNumbers
  <2>5. n - 1 \in S
    <3> HIDE DEF S
    <3> QED
      BY <1>2, <2>4
  <2>6. Gives(f[n - 1 + 1], UNION {RR[i] : i \in 1..(n - 1 + 1)})
    BY <2>5
  <2>7. n - 1 + 1 = n
    OBVIOUS
  <2>8. Gives(f[n], UNION {RR[i] : i \in 1..n})
    BY <2>6, <2>7
  <2> QED
    BY <2>1, <2>8
<1> QED
  BY <1>1, <1>2

(* The same for a loop over 0..(n - 1), as the scripts have them.          *)
LEMMA GivesFor ==
  ASSUME NEW n \in Nat, NEW ss, NEW RR, NEW T,
         ss = [i \in 1..n |-> ss[i]],
         \A i \in 1..n : Gives(ss[i], RR[i - 1]),
         T = UNION {RR[i] : i \in 0..(n - 1)}
  PROVE  Gives(FlattenSeq(ss), T)
<1>1. PICK QQ : QQ = [i \in 1..n |-> RR[i - 1]]
  OBVIOUS
<1>2. \A i \in 1..n : Gives(ss[i], QQ[i])
  BY <1>1
<1>3. Gives(FlattenSeq(ss), UNION {QQ[i] : i \in 1..n})
  BY <1>2, GivesEach, SMTT(30)
<1>4. UNION {QQ[i] : i \in 1..n} = T
  <2>1. ASSUME NEW i \in 1..n
        PROVE  i - 1 \in 0..(n - 1) /\ QQ[i] = RR[i - 1]
    BY <1>1
  <2>2. ASSUME NEW i \in 0..(n - 1)
        PROVE  i + 1 \in 1..n /\ QQ[i + 1] = RR[i]
    <3>1. PICK k : k = i + 1
      OBVIOUS
    <3>2. k \in 1..n /\ k - 1 = i
      BY <3>1
    <3>3. QQ[k] = RR[k - 1]
      BY <1>1, <3>2
    <3> QED
      BY <3>1, <3>2, <3>3
  <2>3. ASSUME NEW e
        PROVE  e \in UNION {QQ[i] : i \in 1..n} <=> e \in UNION {RR[i] : i \in 0..(n - 1)}
    <3>1. e \in UNION {QQ[i] : i \in 1..n} <=> \E i \in 1..n : e \in QQ[i]
      OBVIOUS
    <3>2. e \in UNION {RR[i] : i \in 0..(n - 1)} <=> \E i \in 0..(n - 1) : e \in RR[i]
      OBVIOUS
    <3> QED
      BY <2>1, <2>2, <3>1, <3>2
  <2> QED
    BY <2>3
<1> QED
  BY <1>3, <1>4

(* GivesThen as a formula.                                                 *)
LEMMA GivesAll ==
  \A s, t, R, Q : Gives(s, R) /\ Gives(t, Q) => Gives(s \o t, R \cup Q)
  BY GivesThen

(* The statements of a piece that makes an object, of one that connects    *)
(* two ports, and so on.                                                   *)
new(o, c) == {[op |-> "new", obj |-> o, class |-> c]}
bind(o, p, q, r) == {[op |-> "bind", ends |-> {<<o, p>>, <<q, r>>}]}
check(ok) == {[op |-> "check", ok |-> ok]}
link(a, b) == {[op |-> "link", from |-> a, to |-> b]}
instantiate == {[op |-> "instantiate"]}

(* Each of a script's elementary statements is the piece with that         *)
(* statement.                                                              *)
LEMMA GivesStatement ==
  /\ \A o, c : Gives(New(o, c), new(o, c))
  /\ \A o, p, q, r : Gives(Bind(o, p, q, r), bind(o, p, q, r))
  /\ \A ok : Gives(Check(ok), check(ok))
  /\ \A a, b : Gives(Link(a, b), link(a, b))
  /\ Gives(Instantiate, instantiate)
  BY GivesOne DEF New, Bind, Check, Link, Instantiate, new, bind, check, link, instantiate

-----------------------------------------------------------------------------
(* The statements of the scripts of parts 1, 2 and 4.                      *)

(* The statements of parts 1 and 2.                                        *)
interruptsSet(i) ==
  new(interrupts(i), "X86LocalApic")
    \cup bind(interrupts(i), "pio", membus, "master")
    \cup bind(interrupts(i), "int_master", membus, "slave")
    \cup bind(interrupts(i), "int_slave", membus, "master")

memorySet ==
  new(mem_ctrl(0), "MemCtrl") \cup bind(mem_ctrl(0), "port", membus, "master")

systemPortSet == bind(system, "system_port", membus, "slave")

cachesSet(i) ==
  new(icache(i), "Cache") \cup new(dcache(i), "Cache")
    \cup bind(icache(i), "cpu_side", cpu(i), "icache_port")
    \cup bind(dcache(i), "cpu_side", cpu(i), "dcache_port")

simpleSet ==
  new(system, "System") \cup new(cpu(0), "CPU")
    \cup new(membus, "SystemXBar")
    \cup bind(cpu(0), "icache_port", membus, "slave")
    \cup bind(cpu(0), "dcache_port", membus, "slave")
    \cup interruptsSet(0) \cup memorySet \cup systemPortSet
    \cup instantiate

twoLevelSet ==
  new(system, "System") \cup new(cpu(0), "CPU")
    \cup cachesSet(0)
    \cup new(l2bus, "L2XBar")
    \cup bind(icache(0), "mem_side", l2bus, "slave")
    \cup bind(dcache(0), "mem_side", l2bus, "slave")
    \cup new(l2cache, "Cache") \cup bind(l2cache, "cpu_side", l2bus, "master")
    \cup new(membus, "SystemXBar")
    \cup bind(l2cache, "mem_side", membus, "slave")
    \cup interruptsSet(0) \cup systemPortSet \cup memorySet
    \cup instantiate

simpleMemobjSet ==
  new(system, "System") \cup new(cpu(0), "CPU")
    \cup new(memobj, "SimpleMemobj")
    \cup bind(cpu(0), "icache_port", memobj, "inst_port")
    \cup bind(cpu(0), "dcache_port", memobj, "data_port")
    \cup new(membus, "SystemXBar")
    \cup bind(memobj, "mem_side", membus, "slave")
    \cup interruptsSet(0) \cup memorySet \cup systemPortSet
    \cup instantiate

simpleCacheSet ==
  new(system, "System") \cup new(cpu(0), "CPU")
    \cup new(membus, "SystemXBar")
    \cup new(simplecache, "SimpleCache")
    \cup bind(cpu(0), "icache_port", simplecache, "cpu_side")
    \cup bind(cpu(0), "dcache_port", simplecache, "cpu_side")
    \cup bind(simplecache, "mem_side", membus, "slave")
    \cup interruptsSet(0) \cup memorySet \cup systemPortSet
    \cup instantiate

(* The functions that all scripts share (memory, interrupts, system port,  *)
(* L1 caches) have the statements of their sets.                           *)
LEMMA PiecesGive ==
  /\ \A i : Gives(connectInterrupts(i), interruptsSet(i))
  /\ \A i : Gives(setupInterrupts(i), interruptsSet(i))
  /\ \A i : Gives(L1Caches_opts(i), cachesSet(i))
  /\ \A i : Gives(L1Caches(i), cachesSet(i))
  /\ Gives(createMemory, memorySet)
  /\ Gives(createMemoryControllers, memorySet)
  /\ Gives(connectSystemPort, systemPortSet)
<1>1. \A i : Gives(connectInterrupts(i), interruptsSet(i))
  BY GivesAll, GivesStatement, Zenon
  DEF connectInterrupts, createInterruptController, interruptsSet
<1>2. \A i : Gives(setupInterrupts(i), interruptsSet(i))
  BY GivesAll, GivesStatement, Zenon
  DEF setupInterrupts, createInterruptController, interruptsSet
<1>3. \A i : Gives(L1Caches(i), cachesSet(i))
  BY GivesAll, GivesStatement, Zenon
  DEF L1Caches, L1ICache_connectCPU, L1DCache_connectCPU, cachesSet
<1>4. \A i : Gives(L1Caches_opts(i), cachesSet(i))
  BY <1>3 DEF L1Caches_opts
<1>5. Gives(createMemory, memorySet) /\ Gives(createMemoryControllers, memorySet)
  BY GivesAll, GivesStatement, Zenon
  DEF createMemory, createMemoryControllers, memorySet
<1>6. Gives(connectSystemPort, systemPortSet)
  BY GivesStatement, Zenon DEF connectSystemPort, systemPortSet
<1> QED
  BY <1>1, <1>2, <1>3, <1>4, <1>5, <1>6

(* So have the scripts of parts 1 and 2.                                   *)
LEMMA ClassicGive ==
  /\ Gives(simple, simpleSet)
  /\ Gives(two_level, twoLevelSet)
  /\ Gives(two_level_opts, twoLevelSet)
  /\ Gives(simple_memobj, simpleMemobjSet)
  /\ Gives(simple_cache, simpleCacheSet)
<1>1. Gives(simple, simpleSet)
  <2> DEFINE s1 == New(system, "System") \o New(cpu(0), "CPU") \o New(membus, "SystemXBar")
                     \o Bind(cpu(0), "icache_port", membus, "slave")
             S1 == new(system, "System") \cup new(cpu(0), "CPU")
                     \cup new(membus, "SystemXBar")
                     \cup bind(cpu(0), "icache_port", membus, "slave")
  <2>1. Gives(s1, S1)
    BY PiecesGive, GivesAll, GivesStatement, Zenon
  <2> HIDE DEF s1, S1
  <2> DEFINE s2 == s1 \o Bind(cpu(0), "dcache_port", membus, "slave")
                     \o connectInterrupts(0) \o createMemory
             S2 == S1 \cup bind(cpu(0), "dcache_port", membus, "slave")
                     \cup interruptsSet(0) \cup memorySet
  <2>2. Gives(s2, S2)
    BY <2>1, PiecesGive, GivesAll, GivesStatement, Zenon
  <2> HIDE DEF s2, S2
  <2> DEFINE s3 == s2 \o connectSystemPort \o Instantiate
             S3 == S2 \cup systemPortSet \cup instantiate
  <2>3. Gives(s3, S3)
    BY <2>2, PiecesGive, GivesAll, GivesStatement, Zenon
  <2> HIDE DEF s3, S3
  <2> QED
    BY <2>3, Zenon DEF simple, simpleSet, s1, S1, s2, S2, s3, S3
<1>2. ASSUME NEW s, Gives(s, cachesSet(0))
      PROVE  Gives(TwoLevel(s), twoLevelSet)
  <2> DEFINE s1 == New(system, "System") \o New(cpu(0), "CPU") \o s \o New(l2bus, "L2XBar")
             S1 == new(system, "System") \cup new(cpu(0), "CPU") \cup cachesSet(0)
                     \cup new(l2bus, "L2XBar")
  <2>1. Gives(s1, S1)
    BY <1>2, PiecesGive, GivesAll, GivesStatement, Zenon
    DEF L1Cache_connectBus, L2Cache_connectCPUSideBus, L2Cache_connectMemSideBus
  <2> HIDE DEF s1, S1
  <2> DEFINE s2 == s1 \o L1Cache_connectBus(icache(0), l2bus)
                     \o L1Cache_connectBus(dcache(0), l2bus) \o New(l2cache, "Cache")
             S2 == S1 \cup bind(icache(0), "mem_side", l2bus, "slave")
                     \cup bind(dcache(0), "mem_side", l2bus, "slave")
                     \cup new(l2cache, "Cache")
  <2>2. Gives(s2, S2)
    BY <2>1, <1>2, PiecesGive, GivesAll, GivesStatement, Zenon
    DEF L1Cache_connectBus, L2Cache_connectCPUSideBus, L2Cache_connectMemSideBus
  <2> HIDE DEF s2, S2
  <2> DEFINE s3 == s2 \o L2Cache_connectCPUSideBus(l2bus) \o New(membus, "SystemXBar")
                     \o L2Cache_connectMemSideBus(membus)
             S3 == S2 \cup bind(l2cache, "cpu_side", l2bus, "master")
                     \cup new(membus, "SystemXBar")
                     \cup bind(l2cache, "mem_side", membus, "slave")
  <2>3. Gives(s3, S3)
    BY <2>2, <1>2, PiecesGive, GivesAll, GivesStatement, Zenon
    DEF L1Cache_connectBus, L2Cache_connectCPUSideBus, L2Cache_connectMemSideBus
  <2> HIDE DEF s3, S3
  <2> DEFINE s4 == s3 \o connectInterrupts(0) \o connectSystemPort \o createMemory
             S4 == S3 \cup interruptsSet(0) \cup systemPortSet \cup memorySet
  <2>4. Gives(s4, S4)
    BY <2>3, <1>2, PiecesGive, GivesAll, GivesStatement, Zenon
    DEF L1Cache_connectBus, L2Cache_connectCPUSideBus, L2Cache_connectMemSideBus
  <2> HIDE DEF s4, S4
  <2> DEFINE s5 == s4 \o Instantiate
             S5 == S4 \cup instantiate
  <2>5. Gives(s5, S5)
    BY <2>4, <1>2, PiecesGive, GivesAll, GivesStatement, Zenon
    DEF L1Cache_connectBus, L2Cache_connectCPUSideBus, L2Cache_connectMemSideBus
  <2> HIDE DEF s5, S5
  <2> QED
    BY <2>5, Zenon DEF TwoLevel, twoLevelSet, s1, S1, s2, S2, s3, S3, s4, S4, s5, S5
<1>3. Gives(two_level, twoLevelSet)
  BY <1>2, PiecesGive DEF two_level
<1>4. Gives(two_level_opts, twoLevelSet)
  BY <1>2, PiecesGive DEF two_level_opts
<1>5. Gives(simple_memobj, simpleMemobjSet)
  <2> DEFINE s1 == New(system, "System") \o New(cpu(0), "CPU")
                     \o New(memobj, "SimpleMemobj")
                     \o Bind(cpu(0), "icache_port", memobj, "inst_port")
             S1 == new(system, "System") \cup new(cpu(0), "CPU")
                     \cup new(memobj, "SimpleMemobj")
                     \cup bind(cpu(0), "icache_port", memobj, "inst_port")
  <2>1. Gives(s1, S1)
    BY PiecesGive, GivesAll, GivesStatement, Zenon
  <2> HIDE DEF s1, S1
  <2> DEFINE s2 == s1 \o Bind(cpu(0), "dcache_port", memobj, "data_port")
                     \o New(membus, "SystemXBar")
                     \o Bind(memobj, "mem_side", membus, "slave")
             S2 == S1 \cup bind(cpu(0), "dcache_port", memobj, "data_port")
                     \cup new(membus, "SystemXBar")
                     \cup bind(memobj, "mem_side", membus, "slave")
  <2>2. Gives(s2, S2)
    BY <2>1, PiecesGive, GivesAll, GivesStatement, Zenon
  <2> HIDE DEF s2, S2
  <2> DEFINE s3 == s2 \o connectInterrupts(0) \o createMemory \o connectSystemPort
             S3 == S2 \cup interruptsSet(0) \cup memorySet \cup systemPortSet
  <2>3. Gives(s3, S3)
    BY <2>2, PiecesGive, GivesAll, GivesStatement, Zenon
  <2> HIDE DEF s3, S3
  <2> DEFINE s4 == s3 \o Instantiate
             S4 == S3 \cup instantiate
  <2>4. Gives(s4, S4)
    BY <2>3, PiecesGive, GivesAll, GivesStatement, Zenon
  <2> HIDE DEF s4, S4
  <2> QED
    BY <2>4, Zenon DEF simple_memobj, simpleMemobjSet, s1, S1, s2, S2, s3, S3, s4, S4
<1>6. Gives(simple_cache, simpleCacheSet)
  <2> DEFINE s1 == New(system, "System") \o New(cpu(0), "CPU") \o New(membus, "SystemXBar")
                     \o New(simplecache, "SimpleCache")
             S1 == new(system, "System") \cup new(cpu(0), "CPU")
                     \cup new(membus, "SystemXBar") \cup new(simplecache, "SimpleCache")
  <2>1. Gives(s1, S1)
    BY PiecesGive, GivesAll, GivesStatement, Zenon
  <2> HIDE DEF s1, S1
  <2> DEFINE s2 == s1 \o Bind(cpu(0), "icache_port", simplecache, "cpu_side")
                     \o Bind(cpu(0), "dcache_port", simplecache, "cpu_side")
                     \o Bind(simplecache, "mem_side", membus, "slave")
             S2 == S1 \cup bind(cpu(0), "icache_port", simplecache, "cpu_side")
                     \cup bind(cpu(0), "dcache_port", simplecache, "cpu_side")
                     \cup bind(simplecache, "mem_side", membus, "slave")
  <2>2. Gives(s2, S2)
    BY <2>1, PiecesGive, GivesAll, GivesStatement, Zenon
  <2> HIDE DEF s2, S2
  <2> DEFINE s3 == s2 \o connectInterrupts(0) \o createMemory \o connectSystemPort
             S3 == S2 \cup interruptsSet(0) \cup memorySet \cup systemPortSet
  <2>3. Gives(s3, S3)
    BY <2>2, PiecesGive, GivesAll, GivesStatement, Zenon
  <2> HIDE DEF s3, S3
  <2> DEFINE s4 == s3 \o Instantiate
             S4 == S3 \cup instantiate
  <2>4. Gives(s4, S4)
    BY <2>3, PiecesGive, GivesAll, GivesStatement, Zenon
  <2> HIDE DEF s4, S4
  <2> QED
    BY <2>4, Zenon DEF simple_cache, simpleCacheSet, s1, S1, s2, S2, s3, S3, s4, S4
<1> QED
  BY <1>1, <1>3, <1>4, <1>5, <1>6

(* The statements of part 4: the platform's, a CPU's, MySystem's.          *)
attachSet ==
  bind(pc, "pio", iobus, "master") \cup bind(pc, "pci_host", iobus, "default")
    \cup bind(pc, "dma", iobus, "slave") \cup bind(pc, "int_master", iobus, "slave")

initFsSet ==
  new(pc, "Pc") \cup new(iobus, "IOXBar")
    \cup new(bridge, "Bridge")
    \cup bind(bridge, "master", iobus, "slave")
    \cup bind(bridge, "slave", membus, "master")
    \cup new(apicbridge, "Bridge")
    \cup bind(apicbridge, "slave", iobus, "master")
    \cup bind(apicbridge, "master", membus, "slave")
    \cup attachSet
    \cup new(iocache, "Cache")
    \cup bind(iocache, "cpu_side", iobus, "master")
    \cup bind(iocache, "mem_side", membus, "slave")

hierarchySet(i) ==
  cachesSet(i)
    \cup bind(icache(i), "mem_side", membus, "slave")
    \cup bind(dcache(i), "mem_side", membus, "slave")
    \cup bind(cpu(i), "itb.walker.port", membus, "slave")
    \cup bind(cpu(i), "dtb.walker.port", membus, "slave")

cpusSet(n) == UNION {new(cpu(i), "CPU") : i \in 0..(n - 1)}
hierarchiesSet(n) == UNION {hierarchySet(i) : i \in 0..(n - 1)}
cpuInterruptsSet(n) == UNION {interruptsSet(i) : i \in 0..(n - 1)}

mySystemSet(n) ==
  new(system, "System") \cup new(membus, "SystemXBar")
    \cup new(badaddr_responder, "BadAddr")
    \cup bind(membus, "default", badaddr_responder, "pio")
    \cup bind(system, "system_port", membus, "slave")
    \cup initFsSet
    \cup cpusSet(n)
    \cup hierarchiesSet(n)
    \cup memorySet
    \cup cpuInterruptsSet(n)
    \cup instantiate

(* So have MySystem's loops over its CPUs.                                 *)
LEMMA LoopsGive ==
  ASSUME NEW n \in Nat
  PROVE  /\ Gives(ForEach(n, createCPU), cpusSet(n))
         /\ Gives(ForEach(n, createCacheHierarchy), hierarchiesSet(n))
         /\ Gives(ForEach(n, setupInterrupts), cpuInterruptsSet(n))
<1>0. \A i : Gives(createCacheHierarchy(i), hierarchySet(i))
  BY GivesAll, GivesStatement, PiecesGive, Zenon
  DEF createCacheHierarchy, hierarchySet, L1Cache_connectBus
<1>1. Gives(ForEach(n, createCPU), cpusSet(n))
  <2>1. PICK ss, RR : ss = [i \in 1..n |-> createCPU(i - 1)]
                      /\ RR = [i \in 0..(n - 1) |-> new(cpu(i), "CPU")]
    OBVIOUS
  <2>2. \A i \in 1..n : Gives(ss[i], RR[i - 1])
    BY <2>1, GivesStatement DEF createCPU
  <2>3. cpusSet(n) = UNION {RR[i] : i \in 0..(n - 1)}
    BY <2>1 DEF cpusSet
  <2>4. ForEach(n, createCPU) = FlattenSeq(ss)
    BY <2>1, Zenon DEF ForEach
  <2>5. ss = [i \in 1..n |-> ss[i]]
    BY <2>1
  <2> QED
    BY <2>2, <2>3, <2>4, <2>5, GivesFor, SMTT(30)
<1>2. Gives(ForEach(n, createCacheHierarchy), hierarchiesSet(n))
  <2>1. PICK ss, RR : ss = [i \in 1..n |-> createCacheHierarchy(i - 1)]
                      /\ RR = [i \in 0..(n - 1) |-> hierarchySet(i)]
    OBVIOUS
  <2>2. \A i \in 1..n : Gives(ss[i], RR[i - 1])
    BY <2>1, <1>0
  <2>3. hierarchiesSet(n) = UNION {RR[i] : i \in 0..(n - 1)}
    BY <2>1 DEF hierarchiesSet
  <2>4. ForEach(n, createCacheHierarchy) = FlattenSeq(ss)
    BY <2>1, Zenon DEF ForEach
  <2>5. ss = [i \in 1..n |-> ss[i]]
    BY <2>1
  <2> QED
    BY <2>2, <2>3, <2>4, <2>5, GivesFor, SMTT(30)
<1>3. Gives(ForEach(n, setupInterrupts), cpuInterruptsSet(n))
  <2>1. PICK ss, RR : ss = [i \in 1..n |-> setupInterrupts(i - 1)]
                      /\ RR = [i \in 0..(n - 1) |-> interruptsSet(i)]
    OBVIOUS
  <2>2. \A i \in 1..n : Gives(ss[i], RR[i - 1])
    BY <2>1, PiecesGive
  <2>3. cpuInterruptsSet(n) = UNION {RR[i] : i \in 0..(n - 1)}
    BY <2>1 DEF cpuInterruptsSet
  <2>4. ForEach(n, setupInterrupts) = FlattenSeq(ss)
    BY <2>1, Zenon DEF ForEach
  <2>5. ss = [i \in 1..n |-> ss[i]]
    BY <2>1
  <2> QED
    BY <2>2, <2>3, <2>4, <2>5, GivesFor, SMTT(30)
<1> QED
  BY <1>1, <1>2, <1>3

(* So has the run script of part 4, for MySystem with init_fs and with     *)
(* init_fs_mp.                                                             *)
LEMMA MySystemGives ==
  ASSUME NEW n \in Nat
  PROVE  /\ Gives(run(init_fs(membus), n), mySystemSet(n))
         /\ Gives(run(init_fs_mp(membus), n), mySystemSet(n))
<1>1. Gives(attachIO(iobus), attachSet)
  BY GivesAll, GivesStatement, Zenon DEF attachIO, attachSet
<1>2. Gives(init_fs(membus), initFsSet)
  <2> DEFINE s1 == New(pc, "Pc") \o New(iobus, "IOXBar") \o New(bridge, "Bridge")
                     \o Bind(bridge, "master", iobus, "slave")
             S1 == new(pc, "Pc") \cup new(iobus, "IOXBar") \cup new(bridge, "Bridge")
                     \cup bind(bridge, "master", iobus, "slave")
  <2>1. Gives(s1, S1)
    BY <1>1, GivesAll, GivesStatement, Zenon
  <2> HIDE DEF s1, S1
  <2> DEFINE s2 == s1 \o Bind(bridge, "slave", membus, "master")
                     \o New(apicbridge, "Bridge")
                     \o Bind(apicbridge, "slave", iobus, "master")
             S2 == S1 \cup bind(bridge, "slave", membus, "master")
                     \cup new(apicbridge, "Bridge")
                     \cup bind(apicbridge, "slave", iobus, "master")
  <2>2. Gives(s2, S2)
    BY <2>1, <1>1, GivesAll, GivesStatement, Zenon
  <2> HIDE DEF s2, S2
  <2> DEFINE s3 == s2 \o Bind(apicbridge, "master", membus, "slave") \o attachIO(iobus)
                     \o New(iocache, "Cache")
             S3 == S2 \cup bind(apicbridge, "master", membus, "slave") \cup attachSet
                     \cup new(iocache, "Cache")
  <2>3. Gives(s3, S3)
    BY <2>2, <1>1, GivesAll, GivesStatement, Zenon
  <2> HIDE DEF s3, S3
  <2> DEFINE s4 == s3 \o Bind(iocache, "cpu_side", iobus, "master")
                     \o Bind(iocache, "mem_side", membus, "slave")
             S4 == S3 \cup bind(iocache, "cpu_side", iobus, "master")
                     \cup bind(iocache, "mem_side", membus, "slave")
  <2>4. Gives(s4, S4)
    BY <2>3, <1>1, GivesAll, GivesStatement, Zenon
  <2> HIDE DEF s4, S4
  <2> QED
    BY <2>4, Zenon DEF init_fs, initFsSet, s1, S1, s2, S2, s3, S3, s4, S4
<1>3. Gives(MySystem(init_fs(membus), n) \o Instantiate, mySystemSet(n))
  <2> DEFINE s1 == New(system, "System") \o New(membus, "SystemXBar")
                     \o New(badaddr_responder, "BadAddr")
                     \o Bind(membus, "default", badaddr_responder, "pio")
             S1 == new(system, "System") \cup new(membus, "SystemXBar")
                     \cup new(badaddr_responder, "BadAddr")
                     \cup bind(membus, "default", badaddr_responder, "pio")
  <2>1. Gives(s1, S1)
    BY <1>2, PiecesGive, LoopsGive, GivesAll, GivesStatement, Zenon
  <2> HIDE DEF s1, S1
  <2> DEFINE s2 == s1 \o Bind(system, "system_port", membus, "slave") \o init_fs(membus)
                     \o ForEach(n, createCPU)
             S2 == S1 \cup bind(system, "system_port", membus, "slave") \cup initFsSet
                     \cup cpusSet(n)
  <2>2. Gives(s2, S2)
    BY <2>1, <1>2, PiecesGive, LoopsGive, GivesAll, GivesStatement, Zenon
  <2> HIDE DEF s2, S2
  <2> DEFINE s3 == s2 \o ForEach(n, createCacheHierarchy) \o createMemoryControllers
                     \o ForEach(n, setupInterrupts)
             S3 == S2 \cup hierarchiesSet(n) \cup memorySet
                     \cup cpuInterruptsSet(n)
  <2>3. Gives(s3, S3)
    BY <2>2, <1>2, PiecesGive, LoopsGive, GivesAll, GivesStatement, Zenon
  <2> HIDE DEF s3, S3
  <2> DEFINE s4 == s3 \o Instantiate
             S4 == S3 \cup instantiate
  <2>4. Gives(s4, S4)
    BY <2>3, <1>2, PiecesGive, LoopsGive, GivesAll, GivesStatement, Zenon
  <2> HIDE DEF s4, S4
  <2> QED
    BY <2>4, Zenon DEF MySystem, mySystemSet, s1, S1, s2, S2, s3, S3, s4, S4
<1> QED
  BY <1>3 DEF run, init_fs_mp

-----------------------------------------------------------------------------
(* The statements of the scripts of part 3.                                *)

(* The statements that make a controller and connect its buffers.          *)
controller(o, c) == {[op |-> "controller", obj |-> o, class |-> c]}
toNetwork(o, b) == bind(o, b, network, "slave")
fromNetwork(o, b) == bind(o, b, network, "master")

(* A controller's declaration and its buffers' connections are statements  *)
(* by themselves.                                                          *)
LEMMA GivesController ==
  /\ \A o, c : Gives(NewController(o, c), controller(o, c))
  /\ \A o, b : Gives(ToNetwork(o, b), toNetwork(o, b))
  /\ \A o, b : Gives(FromNetwork(o, b), fromNetwork(o, b))
  BY GivesOne, GivesStatement
  DEF NewController, controller, ToNetwork, toNetwork, FromNetwork, fromNetwork

msiL1Set(p, i) ==
  controller(l1(i), "L1Cache") \cup check(PowerOfTwo(p.lineSize))
    \cup (toNetwork(l1(i), "requestToDir") \cup toNetwork(l1(i), "responseToDirOrSibling")
            \cup fromNetwork(l1(i), "forwardFromDir")
            \cup fromNetwork(l1(i), "responseFromDirOrSibling"))

msiDirSet(p) ==
  check(p.memCtrls <= 1) \cup controller(dir, "Directory")
    \cup bind(dir, "memory", mem_ctrl(0), "port")
    \cup (fromNetwork(dir, "requestFromCache") \cup fromNetwork(dir, "responseFromCache")
            \cup toNetwork(dir, "responseToCache") \cup toNetwork(dir, "forwardToCache"))

miL1Set(p, i) ==
  controller(l1(i), "L1Cache") \cup check(PowerOfTwo(p.lineSize))
    \cup (toNetwork(l1(i), "requestFromCache") \cup toNetwork(l1(i), "responseFromCache")
            \cup fromNetwork(l1(i), "forwardToCache") \cup fromNetwork(l1(i), "responseToCache"))

miDirSet(p) ==
  check(p.memCtrls <= 1) \cup controller(dir, "Directory")
    \cup bind(dir, "memory", mem_ctrl(0), "port")
    \cup (fromNetwork(dir, "requestToDir") \cup fromNetwork(dir, "dmaRequestToDir")
            \cup toNetwork(dir, "responseFromDir") \cup toNetwork(dir, "dmaResponseFromDir")
            \cup toNetwork(dir, "forwardFromDir"))

(* The L1 and directory controllers of MSI and of MI_example have the      *)
(* statements of their sets.                                               *)
LEMMA ControllersGive ==
  /\ \A p, i : Gives(MSI_L1Cache(p, i), msiL1Set(p, i))
  /\ \A p, i : Gives(MI_L1Cache(p, i), miL1Set(p, i))
  /\ \A p : Gives(MSI_DirController(p), msiDirSet(p))
  /\ \A p : Gives(MI_DirController(p), miDirSet(p))
<1>1. \A p, i : Gives(MSI_L1Cache(p, i), msiL1Set(p, i))
  BY GivesAll, GivesStatement, GivesController, Zenon
  DEF MSI_L1Cache, MSI_L1Cache_connectQueues, msiL1Set
<1>2. \A p, i : Gives(MI_L1Cache(p, i), miL1Set(p, i))
  BY GivesAll, GivesStatement, GivesController, Zenon
  DEF MI_L1Cache, MI_L1Cache_connectQueues, miL1Set
<1>3. \A p : Gives(MSI_DirController(p), msiDirSet(p))
  BY GivesAll, GivesStatement, GivesController, Zenon
  DEF MSI_DirController, MSI_DirController_connectQueues, msiDirSet
<1>4. \A p : Gives(MI_DirController(p), miDirSet(p))
  BY GivesAll, GivesStatement, GivesController, Zenon
  DEF MI_DirController, MI_DirController_connectQueues, miDirSet
<1> QED
  BY <1>1, <1>2, <1>3, <1>4

(* The network and the sequencers.                                         *)
node(n, i) == IF i < n THEN l1(i) ELSE dir

routersSet(n) == UNION {new(router(i), "Switch") : i \in 0..(n - 1)}
extLinksSet(n) ==
  UNION {link(node(n, i), router(i)) \cup link(router(i), node(n, i)) : i \in 0..n}
linksFromSet(n, i) ==
  UNION {IF i = j THEN {} ELSE link(router(i), router(j)) : j \in 0..n}
intLinksSet(n) == UNION {linksFromSet(n, i) : i \in 0..n}
networkSet(n) == routersSet(n + 1) \cup extLinksSet(n) \cup intLinksSet(n)

newSequencersSet(n) == UNION {new(sequencer(i), "RubySequencer") : i \in 0..(n - 1)}
pointersSet(n) ==
  UNION {link(sequencer(i), node(n, i)) \cup link(node(n, i), sequencer(i)) : i \in 0..(n - 1)}
sequencersSet(n) == newSequencersSet(n) \cup pointersSet(n)

(* MyNetwork.connectControllers makes a switch for every controller, the   *)
(* links of each with its switch, and the links between any two switches.  *)
LEMMA NetworkGives ==
  ASSUME NEW n \in Nat
  PROVE  Gives(connectControllers(n), networkSet(n))
<1>0. PICK m : m = n + 1
  OBVIOUS
<1>1. m \in Nat /\ 0..(m - 1) = 0..n /\ \A i \in 0..n : controllers(n)[i] = node(n, i)
  BY <1>0 DEF controllers, node
<1>6. ASSUME NEW i \in 0..n
      PROVE  Gives(Link(controllers(n)[i], router(i)) \o Link(router(i), controllers(n)[i]),
                   link(node(n, i), router(i)) \cup link(router(i), node(n, i)))
  <2>1. controllers(n)[i] = node(n, i)
    BY <1>1
  <2>2. Gives(Link(node(n, i), router(i)) \o Link(router(i), node(n, i)),
              link(node(n, i), router(i)) \cup link(router(i), node(n, i)))
    BY GivesAll, GivesStatement, Zenon
  <2> QED
    BY <2>1, <2>2
<1>2. Gives(ForEach(n + 1, LAMBDA i : New(router(i), "Switch")), routersSet(m))
  <2>1. PICK ss, RR : /\ ss = [i \in 1..m |-> New(router(i - 1), "Switch")]
                      /\ RR = [i \in 0..(m - 1) |-> new(router(i), "Switch")]
    OBVIOUS
  <2>2. \A i \in 1..m : Gives(ss[i], RR[i - 1])
    BY <2>1, <1>1, GivesStatement
  <2>3. routersSet(m) = UNION {RR[i] : i \in 0..(m - 1)}
    BY <2>1 DEF routersSet
  <2>4. ForEach(n + 1, LAMBDA i : New(router(i), "Switch")) = FlattenSeq(ss)
    BY <1>0, <2>1 DEF ForEach
  <2>5. ss = [i \in 1..m |-> ss[i]]
    BY <2>1
  <2>6. Gives(FlattenSeq(ss), routersSet(m))
    BY <1>1, <2>2, <2>3, <2>5, GivesFor, SMTT(30)
  <2> QED
    BY <2>4, <2>6, Zenon
<1>3. Gives(ForEach(n + 1, LAMBDA i : Link(controllers(n)[i], router(i))
                                       \o Link(router(i), controllers(n)[i])), extLinksSet(n))
  <2>1. PICK ss, RR : /\ ss = [i \in 1..m |-> Link(controllers(n)[i - 1], router(i - 1))
                                                \o Link(router(i - 1), controllers(n)[i - 1])]
                      /\ RR = [i \in 0..(m - 1) |->
                                link(node(n, i), router(i)) \cup link(router(i), node(n, i))]
    OBVIOUS
  <2>2. \A i \in 1..m : Gives(ss[i], RR[i - 1])
    <3> TAKE i \in 1..m
    <3>1. PICK j : j = i - 1
      OBVIOUS
    <3>2. j \in 0..(m - 1)
      BY <1>1, <3>1
    <3>3. ss[i] = Link(controllers(n)[j], router(j)) \o Link(router(j), controllers(n)[j])
      BY <2>1, <3>1
    <3>4. Gives(ss[i], RR[j])
      <4>1. j \in 0..n
        BY <1>1, <3>2
      <4>2. RR[j] = link(node(n, j), router(j)) \cup link(router(j), node(n, j))
        BY <2>1, <3>2, Zenon
      <4> QED
        BY <1>6, <3>3, <4>1, <4>2, Zenon
    <3> QED
      BY <3>1, <3>4
  <2>3. extLinksSet(n) = UNION {RR[i] : i \in 0..(m - 1)}
    BY <2>1, <1>1 DEF extLinksSet
  <2>4. ForEach(n + 1, LAMBDA i : Link(controllers(n)[i], router(i))
                                       \o Link(router(i), controllers(n)[i])) = FlattenSeq(ss)
    BY <1>0, <2>1 DEF ForEach
  <2>5. ss = [i \in 1..m |-> ss[i]]
    BY <2>1
  <2>6. Gives(FlattenSeq(ss), extLinksSet(n))
    BY <1>1, <2>2, <2>3, <2>5, GivesFor, SMTT(30)
  <2> QED
    BY <2>4, <2>6, Zenon
<1>4. ASSUME NEW i
      PROVE  Gives(FlattenSeq([k \in 1..m |-> IF i = k - 1 THEN <<>>
                                                    ELSE Link(router(i), router(k - 1))]),
                   linksFromSet(n, i))
  <2>1. PICK ss, RR : /\ ss = [k \in 1..m |-> IF i = k - 1 THEN <<>>
                                                    ELSE Link(router(i), router(k - 1))]
                      /\ RR = [k \in 0..(m - 1) |->
                                IF i = k THEN {} ELSE link(router(i), router(k))]
    OBVIOUS
  <2>2. ASSUME NEW k \in 1..m
        PROVE  Gives(ss[k], RR[k - 1])
    <3>1. PICK j : j = k - 1
      OBVIOUS
    <3>2. j \in 0..(m - 1)
      BY <1>1, <3>1
    <3>3. ss[k] = IF i = j THEN <<>> ELSE Link(router(i), router(j))
      BY <2>1, <3>1
    <3>4. RR[j] = IF i = j THEN {} ELSE link(router(i), router(j))
      BY <2>1, <3>2
    <3>5. Gives(ss[k], RR[j])
      BY <3>3, <3>4, GivesStatement, GivesNone
    <3> QED
      BY <3>1, <3>5
  <2>3. linksFromSet(n, i) = UNION {RR[k] : k \in 0..(m - 1)}
    BY <2>1, <1>1 DEF linksFromSet
  <2>5. ss = [k \in 1..m |-> ss[k]]
    BY <2>1
  <2>6. Gives(FlattenSeq(ss), linksFromSet(n, i))
    BY <1>1, <2>2, <2>3, <2>5, GivesFor, SMTT(30)
  <2> QED
    BY <2>1, <2>6
<1>5. Gives(ForEach(n + 1, LAMBDA i : ForEach(n + 1, LAMBDA j :
                IF i = j THEN <<>> ELSE Link(router(i), router(j)))), intLinksSet(n))
  <2>1. PICK ss, RR : /\ ss = [i \in 1..m |-> FlattenSeq([k \in 1..m |-> IF i - 1 = k - 1 THEN <<>>
                                                    ELSE Link(router(i - 1), router(k - 1))])]
                      /\ RR = [i \in 0..(m - 1) |-> linksFromSet(n, i)]
    OBVIOUS
  <2>2. \A i \in 1..m : Gives(ss[i], RR[i - 1])
    <3> TAKE i \in 1..m
    <3>1. PICK j : j = i - 1
      OBVIOUS
    <3>2. j \in 0..(m - 1)
      BY <1>1, <3>1
    <3>3. ss[i] = FlattenSeq([k \in 1..m |-> IF j = k - 1 THEN <<>>
                                         ELSE Link(router(j), router(k - 1))])
      BY <2>1, <3>1
    <3>4. Gives(ss[i], RR[j])
      BY <1>1, <1>4, <2>1, <3>2, <3>3
    <3> QED
      BY <3>1, <3>4
  <2>3. intLinksSet(n) = UNION {RR[i] : i \in 0..(m - 1)}
    BY <2>1, <1>1 DEF intLinksSet
  <2>4. ForEach(n + 1, LAMBDA i : ForEach(n + 1, LAMBDA j :
                IF i = j THEN <<>> ELSE Link(router(i), router(j)))) = FlattenSeq(ss)
    BY <1>0, <2>1 DEF ForEach
  <2>5. ss = [i \in 1..m |-> ss[i]]
    BY <2>1
  <2>6. Gives(FlattenSeq(ss), intLinksSet(n))
    BY <1>1, <2>2, <2>3, <2>5, GivesFor, SMTT(30)
  <2> QED
    BY <2>4, <2>6, Zenon
<1> QED
  <2>1. Gives(connectControllers(n), routersSet(m) \cup extLinksSet(n) \cup intLinksSet(n))
    BY <1>2, <1>3, <1>5, GivesAll, Zenon DEF connectControllers
  <2> QED
    BY <1>0, <2>1, Zenon DEF networkSet

(* The sequencers of a Ruby system and their links with the controllers.   *)
LEMMA SequencersGive ==
  ASSUME NEW n \in Nat
  PROVE  Gives(sequencers(n), sequencersSet(n))
<1>1. n \in Nat /\ \A i \in 0..n : controllers(n)[i] = node(n, i)
  BY DEF controllers, node
<1>6. ASSUME NEW i \in 0..n
      PROVE  Gives(Link(sequencer(i), controllers(n)[i]) \o Link(controllers(n)[i], sequencer(i)),
                   link(sequencer(i), node(n, i)) \cup link(node(n, i), sequencer(i)))
  <2>1. controllers(n)[i] = node(n, i)
    BY <1>1
  <2>2. Gives(Link(sequencer(i), node(n, i)) \o Link(node(n, i), sequencer(i)),
              link(sequencer(i), node(n, i)) \cup link(node(n, i), sequencer(i)))
    BY GivesAll, GivesStatement, Zenon
  <2> QED
    BY <2>1, <2>2
<1>2. Gives(ForEach(n, LAMBDA i : New(sequencer(i), "RubySequencer")), newSequencersSet(n))
  <2>1. PICK ss, RR : /\ ss = [i \in 1..n |-> New(sequencer(i - 1), "RubySequencer")]
                      /\ RR = [i \in 0..(n - 1) |-> new(sequencer(i), "RubySequencer")]
    OBVIOUS
  <2>2. \A i \in 1..n : Gives(ss[i], RR[i - 1])
    BY <2>1, <1>1, GivesStatement
  <2>3. newSequencersSet(n) = UNION {RR[i] : i \in 0..(n - 1)}
    BY <2>1 DEF newSequencersSet
  <2>4. ForEach(n, LAMBDA i : New(sequencer(i), "RubySequencer")) = FlattenSeq(ss)
    BY <2>1, Zenon DEF ForEach
  <2>5. ss = [i \in 1..n |-> ss[i]]
    BY <2>1
  <2>6. Gives(FlattenSeq(ss), newSequencersSet(n))
    BY <2>2, <2>3, <2>5, GivesFor, SMTT(30)
  <2> QED
    BY <2>4, <2>6, Zenon
<1>3. Gives(ForEach(n, LAMBDA i : Link(sequencer(i), controllers(n)[i])
                                   \o Link(controllers(n)[i], sequencer(i))), pointersSet(n))
  <2>1. PICK ss, RR : /\ ss = [i \in 1..n |-> Link(sequencer(i - 1), controllers(n)[i - 1])
                                            \o Link(controllers(n)[i - 1], sequencer(i - 1))]
                      /\ RR = [i \in 0..(n - 1) |->
                                link(sequencer(i), node(n, i))
                                  \cup link(node(n, i), sequencer(i))]
    OBVIOUS
  <2>2. \A i \in 1..n : Gives(ss[i], RR[i - 1])
    <3> TAKE i \in 1..n
    <3>1. PICK j : j = i - 1
      OBVIOUS
    <3>2. j \in 0..(n - 1)
      BY <3>1
    <3>3. ss[i] = Link(sequencer(j), controllers(n)[j]) \o Link(controllers(n)[j], sequencer(j))
      BY <2>1, <3>1
    <3>4. Gives(ss[i], RR[j])
      <4>1. j \in 0..n
        BY <3>2
      <4>2. RR[j] = link(sequencer(j), node(n, j)) \cup link(node(n, j), sequencer(j))
        BY <2>1, <3>2, Zenon
      <4> QED
        BY <1>6, <3>3, <4>1, <4>2, Zenon
    <3> QED
      BY <3>1, <3>4
  <2>3. pointersSet(n) = UNION {RR[i] : i \in 0..(n - 1)}
    BY <2>1 DEF pointersSet
  <2>4. ForEach(n, LAMBDA i : Link(sequencer(i), controllers(n)[i])
                                   \o Link(controllers(n)[i], sequencer(i))) = FlattenSeq(ss)
    BY <2>1, Zenon DEF ForEach
  <2>5. ss = [i \in 1..n |-> ss[i]]
    BY <2>1
  <2>6. Gives(FlattenSeq(ss), pointersSet(n))
    BY <2>2, <2>3, <2>5, GivesFor, SMTT(30)
  <2> QED
    BY <2>4, <2>6, Zenon
<1> QED
  BY <1>2, <1>3, GivesAll, Zenon DEF sequencers, sequencersSet

(* The systems.                                                            *)
interruptPortsSet(i) ==
  bind(interrupts(i), "pio", sequencer(i), "master")
    \cup bind(interrupts(i), "int_master", sequencer(i), "slave")
    \cup bind(interrupts(i), "int_slave", sequencer(i), "master")
walkersSet(i) ==
  bind(cpu(i), "itb.walker.port", sequencer(i), "slave")
    \cup bind(cpu(i), "dtb.walker.port", sequencer(i), "slave")
cpuPortsSet(p, i) ==
  bind(cpu(i), "icache_port", sequencer(i), "slave")
    \cup bind(cpu(i), "dcache_port", sequencer(i), "slave")
    \cup (IF p.isa # "x86" THEN {} ELSE interruptPortsSet(i))
    \cup (IF p.isa \notin {"x86", "arm"} THEN {} ELSE walkersSet(i))
testerSet(i) == bind(tester, "cpuInstDataPort", sequencer(i), "slave")

msiL1sSet(p) == UNION {msiL1Set(p, i) : i \in 0..(p.cpus - 1)}
miL1sSet(p) == UNION {miL1Set(p, i) : i \in 0..(p.cpus - 1)}
allCPUPortsSet(p) == UNION {cpuPortsSet(p, i) : i \in 0..(p.cpus - 1)}
allTesterPortsSet(p) == UNION {testerSet(i) : i \in 0..(p.cpus - 1)}
memCtrlsSet(p) == UNION {new(mem_ctrl(i), "MemCtrl") : i \in 0..(p.memCtrls - 1)}
allInterruptsSet(n) == UNION {new(interrupts(i), "X86LocalApic") : i \in 0..(n - 1)}

proxySet ==
  new(sys_port_proxy, "RubyPortProxy")
    \cup bind(system, "system_port", sys_port_proxy, "slave")

(* What the two protocols' setups do.                                      *)
msiSetupSet(p) ==
  check(p.built = "MSI") \cup new(network, "Network") \cup msiL1sSet(p)
    \cup msiDirSet(p) \cup sequencersSet(p.cpus) \cup networkSet(p.cpus)
    \cup proxySet \cup allCPUPortsSet(p)
miSetupSet(p) ==
  check(p.built = "MI_example") \cup new(network, "Network") \cup miL1sSet(p)
    \cup miDirSet(p) \cup sequencersSet(p.cpus) \cup networkSet(p.cpus)
    \cup proxySet \cup allCPUPortsSet(p)
testSetupSet(p) ==
  check(p.built = "MSI") \cup new(network, "Network") \cup msiL1sSet(p)
    \cup msiDirSet(p) \cup sequencersSet(p.cpus) \cup networkSet(p.cpus)
    \cup proxySet \cup allTesterPortsSet(p)

simpleRubySet(p) ==
  new(system, "System") \cup cpusSet(p.cpus) \cup memCtrlsSet(p)
    \cup (IF p.isa = "x86" THEN allInterruptsSet(p.cpus) ELSE {})
    \cup (IF p.caches = "MSI" THEN msiSetupSet(p) ELSE miSetupSet(p))
    \cup instantiate
rubyTestSet(p) ==
  check(p.ruby_caches) \cup new(system, "System") \cup new(tester, "RubyTester")
    \cup memCtrlsSet(p) \cup testSetupSet(p) \cup instantiate

(* What a Ruby system connects to a sequencer: a CPU's ports or the        *)
(* tester's; and to the port proxy.                                        *)
LEMMA PortsGive ==
  /\ \A p, i : Gives(connectCPU(p, i), cpuPortsSet(p, i))
  /\ \A i : Gives(connectTester(i), testerSet(i))
  /\ Gives(connectSystemPortToRuby, proxySet)
<1>1. ASSUME NEW p, NEW i
      PROVE  Gives(connectCPU(p, i), cpuPortsSet(p, i))
  <2> DEFINE s == IF p.isa # "x86" THEN <<>> ELSE
                    Bind(interrupts(i), "pio", sequencer(i), "master")
                      \o Bind(interrupts(i), "int_master", sequencer(i), "slave")
                      \o Bind(interrupts(i), "int_slave", sequencer(i), "master")
             S == IF p.isa # "x86" THEN {} ELSE interruptPortsSet(i)
             t == IF p.isa \notin {"x86", "arm"} THEN <<>> ELSE
                    Bind(cpu(i), "itb.walker.port", sequencer(i), "slave")
                      \o Bind(cpu(i), "dtb.walker.port", sequencer(i), "slave")
             T == IF p.isa \notin {"x86", "arm"} THEN {} ELSE walkersSet(i)
  <2>1. Gives(s, S)
    <3>1. Gives(Bind(interrupts(i), "pio", sequencer(i), "master")
                  \o Bind(interrupts(i), "int_master", sequencer(i), "slave")
                  \o Bind(interrupts(i), "int_slave", sequencer(i), "master"),
                interruptPortsSet(i))
      BY GivesAll, GivesStatement, Zenon DEF interruptPortsSet
    <3> QED
      BY <3>1, GivesNone
  <2>2. Gives(t, T)
    <3>1. Gives(Bind(cpu(i), "itb.walker.port", sequencer(i), "slave")
                  \o Bind(cpu(i), "dtb.walker.port", sequencer(i), "slave"),
                walkersSet(i))
      BY GivesAll, GivesStatement, Zenon DEF walkersSet
    <3> QED
      BY <3>1, GivesNone
  <2>3. /\ connectCPU(p, i) = Bind(cpu(i), "icache_port", sequencer(i), "slave")
                                \o Bind(cpu(i), "dcache_port", sequencer(i), "slave") \o s \o t
        /\ cpuPortsSet(p, i) = bind(cpu(i), "icache_port", sequencer(i), "slave")
                                 \cup bind(cpu(i), "dcache_port", sequencer(i), "slave")
                                 \cup S \cup T
    BY Zenon DEF connectCPU, cpuPortsSet
  <2> HIDE DEF s, t, S, T
  <2>4. Gives(Bind(cpu(i), "icache_port", sequencer(i), "slave")
                \o Bind(cpu(i), "dcache_port", sequencer(i), "slave") \o s \o t,
              bind(cpu(i), "icache_port", sequencer(i), "slave")
                \cup bind(cpu(i), "dcache_port", sequencer(i), "slave") \cup S \cup T)
    BY <2>1, <2>2, GivesAll, GivesStatement, Zenon
  <2> QED
    BY <2>3, <2>4, Zenon
<1>2. \A i : Gives(connectTester(i), testerSet(i))
  BY GivesStatement DEF connectTester, testerSet
<1>3. Gives(connectSystemPortToRuby, proxySet)
  BY GivesAll, GivesStatement, Zenon DEF connectSystemPortToRuby, proxySet
<1> QED
  BY <1>1, <1>2, <1>3

(* The loops of the Ruby scripts over CPUs and memory controllers.         *)
LEMMA RubyLoopsGive ==
  ASSUME NEW p, NEW n \in Nat, NEW k \in Nat, p.cpus = n, p.memCtrls = k
  PROVE  /\ Gives(ForEach(p.cpus, LAMBDA i : MSI_L1Cache(p, i)), msiL1sSet(p))
         /\ Gives(ForEach(p.cpus, LAMBDA i : MI_L1Cache(p, i)), miL1sSet(p))
         /\ Gives(ForEach(p.cpus, LAMBDA i : connectCPU(p, i)), allCPUPortsSet(p))
         /\ Gives(ForEach(p.cpus, connectTester), allTesterPortsSet(p))
         /\ Gives(ForEach(p.cpus, LAMBDA i : New(cpu(i), "CPU")), cpusSet(p.cpus))
         /\ Gives(ForEach(p.cpus, createInterruptController), allInterruptsSet(p.cpus))
         /\ Gives(createMemCtrls(p), memCtrlsSet(p))
<1>1. Gives(ForEach(p.cpus, LAMBDA i : MSI_L1Cache(p, i)), msiL1sSet(p))
  <2>1. PICK ss, RR : /\ ss = [i \in 1..n |-> MSI_L1Cache(p, i - 1)]
                      /\ RR = [i \in 0..(n - 1) |-> msiL1Set(p, i)]
    OBVIOUS
  <2>2. \A i \in 1..n : Gives(ss[i], RR[i - 1])
    BY <2>1, ControllersGive
  <2>3. msiL1sSet(p) = UNION {RR[i] : i \in 0..(n - 1)}
    BY <2>1 DEF msiL1sSet
  <2>4. ForEach(p.cpus, LAMBDA i : MSI_L1Cache(p, i)) = FlattenSeq(ss)
    BY <2>1 DEF ForEach
  <2>5. ss = [i \in 1..n |-> ss[i]]
    BY <2>1
  <2>6. Gives(FlattenSeq(ss), msiL1sSet(p))
    BY <2>2, <2>3, <2>5, GivesFor, SMTT(30)
  <2> QED
    BY <2>4, <2>6, Zenon
<1>2. Gives(ForEach(p.cpus, LAMBDA i : MI_L1Cache(p, i)), miL1sSet(p))
  <2>1. PICK ss, RR : /\ ss = [i \in 1..n |-> MI_L1Cache(p, i - 1)]
                      /\ RR = [i \in 0..(n - 1) |-> miL1Set(p, i)]
    OBVIOUS
  <2>2. \A i \in 1..n : Gives(ss[i], RR[i - 1])
    BY <2>1, ControllersGive
  <2>3. miL1sSet(p) = UNION {RR[i] : i \in 0..(n - 1)}
    BY <2>1 DEF miL1sSet
  <2>4. ForEach(p.cpus, LAMBDA i : MI_L1Cache(p, i)) = FlattenSeq(ss)
    BY <2>1 DEF ForEach
  <2>5. ss = [i \in 1..n |-> ss[i]]
    BY <2>1
  <2>6. Gives(FlattenSeq(ss), miL1sSet(p))
    BY <2>2, <2>3, <2>5, GivesFor, SMTT(30)
  <2> QED
    BY <2>4, <2>6, Zenon
<1>3. Gives(ForEach(p.cpus, LAMBDA i : connectCPU(p, i)), allCPUPortsSet(p))
  <2>1. PICK ss, RR : /\ ss = [i \in 1..n |-> connectCPU(p, i - 1)]
                      /\ RR = [i \in 0..(n - 1) |-> cpuPortsSet(p, i)]
    OBVIOUS
  <2>2. \A i \in 1..n : Gives(ss[i], RR[i - 1])
    BY <2>1, PortsGive
  <2>3. allCPUPortsSet(p) = UNION {RR[i] : i \in 0..(n - 1)}
    BY <2>1 DEF allCPUPortsSet
  <2>4. ForEach(p.cpus, LAMBDA i : connectCPU(p, i)) = FlattenSeq(ss)
    BY <2>1 DEF ForEach
  <2>5. ss = [i \in 1..n |-> ss[i]]
    BY <2>1
  <2>6. Gives(FlattenSeq(ss), allCPUPortsSet(p))
    BY <2>2, <2>3, <2>5, GivesFor, SMTT(30)
  <2> QED
    BY <2>4, <2>6, Zenon
<1>4. Gives(ForEach(p.cpus, connectTester), allTesterPortsSet(p))
  <2>1. PICK ss, RR : /\ ss = [i \in 1..n |-> connectTester(i - 1)]
                      /\ RR = [i \in 0..(n - 1) |-> testerSet(i)]
    OBVIOUS
  <2>2. \A i \in 1..n : Gives(ss[i], RR[i - 1])
    BY <2>1, PortsGive
  <2>3. allTesterPortsSet(p) = UNION {RR[i] : i \in 0..(n - 1)}
    BY <2>1 DEF allTesterPortsSet
  <2>4. ForEach(p.cpus, connectTester) = FlattenSeq(ss)
    BY <2>1 DEF ForEach
  <2>5. ss = [i \in 1..n |-> ss[i]]
    BY <2>1
  <2>6. Gives(FlattenSeq(ss), allTesterPortsSet(p))
    BY <2>2, <2>3, <2>5, GivesFor, SMTT(30)
  <2> QED
    BY <2>4, <2>6, Zenon
<1>5. Gives(ForEach(p.cpus, LAMBDA i : New(cpu(i), "CPU")), cpusSet(p.cpus))
  <2>1. PICK ss, RR : /\ ss = [i \in 1..n |-> New(cpu(i - 1), "CPU")]
                      /\ RR = [i \in 0..(n - 1) |-> new(cpu(i), "CPU")]
    OBVIOUS
  <2>2. \A i \in 1..n : Gives(ss[i], RR[i - 1])
    BY <2>1, GivesStatement
  <2>3. cpusSet(p.cpus) = UNION {RR[i] : i \in 0..(n - 1)}
    BY <2>1 DEF cpusSet
  <2>4. ForEach(p.cpus, LAMBDA i : New(cpu(i), "CPU")) = FlattenSeq(ss)
    BY <2>1 DEF ForEach
  <2>5. ss = [i \in 1..n |-> ss[i]]
    BY <2>1
  <2>6. Gives(FlattenSeq(ss), cpusSet(p.cpus))
    BY <2>2, <2>3, <2>5, GivesFor, SMTT(30)
  <2> QED
    BY <2>4, <2>6, Zenon
<1>6. Gives(ForEach(p.cpus, createInterruptController), allInterruptsSet(p.cpus))
  <2>1. PICK ss, RR : /\ ss = [i \in 1..n |-> New(interrupts(i - 1), "X86LocalApic")]
                      /\ RR = [i \in 0..(n - 1) |-> new(interrupts(i), "X86LocalApic")]
    OBVIOUS
  <2>2. \A i \in 1..n : Gives(ss[i], RR[i - 1])
    BY <2>1, GivesStatement
  <2>3. allInterruptsSet(p.cpus) = UNION {RR[i] : i \in 0..(n - 1)}
    BY <2>1 DEF allInterruptsSet
  <2>4. ForEach(p.cpus, createInterruptController) = FlattenSeq(ss)
    BY <2>1 DEF ForEach, createInterruptController
  <2>5. ss = [i \in 1..n |-> ss[i]]
    BY <2>1
  <2>6. Gives(FlattenSeq(ss), allInterruptsSet(p.cpus))
    BY <2>2, <2>3, <2>5, GivesFor, SMTT(30)
  <2> QED
    BY <2>4, <2>6, Zenon
<1>7. Gives(ForEach(p.memCtrls, LAMBDA i : New(mem_ctrl(i), "MemCtrl")), memCtrlsSet(p))
  <2>1. PICK ss, RR : /\ ss = [i \in 1..k |-> New(mem_ctrl(i - 1), "MemCtrl")]
                      /\ RR = [i \in 0..(k - 1) |-> new(mem_ctrl(i), "MemCtrl")]
    OBVIOUS
  <2>2. \A i \in 1..k : Gives(ss[i], RR[i - 1])
    BY <2>1, GivesStatement
  <2>3. memCtrlsSet(p) = UNION {RR[i] : i \in 0..(k - 1)}
    BY <2>1 DEF memCtrlsSet
  <2>4. ForEach(p.memCtrls, LAMBDA i : New(mem_ctrl(i), "MemCtrl")) = FlattenSeq(ss)
    BY <2>1 DEF ForEach
  <2>5. ss = [i \in 1..k |-> ss[i]]
    BY <2>1
  <2>6. Gives(FlattenSeq(ss), memCtrlsSet(p))
    BY <2>2, <2>3, <2>5, GivesFor, SMTT(30)
  <2> QED
    BY <2>4, <2>6, Zenon
<1> QED
  BY <1>1, <1>2, <1>3, <1>4, <1>5, <1>6, <1>7, Zenon DEF createMemCtrls

(* MyCacheSystem.setup of MSI and of MI_example, and                       *)
(* TestCacheSystem.setup.                                                  *)
LEMMA SetupsGive ==
  ASSUME NEW p, NEW n \in Nat, NEW k \in Nat, p.cpus = n, p.memCtrls = k
  PROVE  /\ Gives(MSI_setup(p), msiSetupSet(p))
         /\ Gives(MI_setup(p), miSetupSet(p))
         /\ Gives(TestCacheSystem_setup(p), testSetupSet(p))
<1>1. Gives(sequencers(p.cpus), sequencersSet(p.cpus))
  BY SequencersGive
<1>2. Gives(connectControllers(p.cpus), networkSet(p.cpus))
  BY NetworkGives
<1>3. Gives(MSI_setup(p), msiSetupSet(p))
  <2> DEFINE s1 == Check(p.built = "MSI") \o New(network, "Network")
                     \o ForEach(p.cpus, LAMBDA i : MSI_L1Cache(p, i))
                     \o MSI_DirController(p)
             S1 == check(p.built = "MSI") \cup new(network, "Network") \cup msiL1sSet(p)
                     \cup msiDirSet(p)
  <2>1. Gives(s1, S1)
    BY <1>1, <1>2, RubyLoopsGive, ControllersGive, PortsGive, GivesAll, GivesStatement,
       Zenon
  <2> HIDE DEF s1, S1
  <2> DEFINE s2 == s1 \o sequencers(p.cpus) \o connectControllers(p.cpus)
                     \o connectSystemPortToRuby
             S2 == S1 \cup sequencersSet(p.cpus) \cup networkSet(p.cpus) \cup proxySet
  <2>2. Gives(s2, S2)
    BY <2>1, <1>1, <1>2, RubyLoopsGive, ControllersGive, PortsGive, GivesAll,
       GivesStatement, Zenon
  <2> HIDE DEF s2, S2
  <2> DEFINE s3 == s2 \o ForEach(p.cpus, LAMBDA i : connectCPU(p, i))
             S3 == S2 \cup allCPUPortsSet(p)
  <2>3. Gives(s3, S3)
    BY <2>2, <1>1, <1>2, RubyLoopsGive, ControllersGive, PortsGive, GivesAll,
       GivesStatement, Zenon
  <2> HIDE DEF s3, S3
  <2> QED
    BY <2>3, Zenon DEF MSI_setup, msiSetupSet, s1, S1, s2, S2, s3, S3
<1>4. Gives(MI_setup(p), miSetupSet(p))
  <2> DEFINE s1 == Check(p.built = "MI_example") \o New(network, "Network")
                     \o ForEach(p.cpus, LAMBDA i : MI_L1Cache(p, i)) \o MI_DirController(p)
             S1 == check(p.built = "MI_example") \cup new(network, "Network")
                     \cup miL1sSet(p) \cup miDirSet(p)
  <2>1. Gives(s1, S1)
    BY <1>1, <1>2, RubyLoopsGive, ControllersGive, PortsGive, GivesAll, GivesStatement,
       Zenon
  <2> HIDE DEF s1, S1
  <2> DEFINE s2 == s1 \o sequencers(p.cpus) \o connectControllers(p.cpus)
                     \o connectSystemPortToRuby
             S2 == S1 \cup sequencersSet(p.cpus) \cup networkSet(p.cpus) \cup proxySet
  <2>2. Gives(s2, S2)
    BY <2>1, <1>1, <1>2, RubyLoopsGive, ControllersGive, PortsGive, GivesAll,
       GivesStatement, Zenon
  <2> HIDE DEF s2, S2
  <2> DEFINE s3 == s2 \o ForEach(p.cpus, LAMBDA i : connectCPU(p, i))
             S3 == S2 \cup allCPUPortsSet(p)
  <2>3. Gives(s3, S3)
    BY <2>2, <1>1, <1>2, RubyLoopsGive, ControllersGive, PortsGive, GivesAll,
       GivesStatement, Zenon
  <2> HIDE DEF s3, S3
  <2> QED
    BY <2>3, Zenon DEF MI_setup, miSetupSet, MI_connectControllers, s1, S1, s2, S2, s3, S3
<1>5. Gives(TestCacheSystem_setup(p), testSetupSet(p))
  <2> DEFINE s1 == Check(p.built = "MSI") \o New(network, "Network")
                     \o ForEach(p.cpus, LAMBDA i : MSI_L1Cache(p, i))
                     \o MSI_DirController(p)
             S1 == check(p.built = "MSI") \cup new(network, "Network") \cup msiL1sSet(p)
                     \cup msiDirSet(p)
  <2>1. Gives(s1, S1)
    BY <1>1, <1>2, RubyLoopsGive, ControllersGive, PortsGive, GivesAll, GivesStatement,
       Zenon
  <2> HIDE DEF s1, S1
  <2> DEFINE s2 == s1 \o sequencers(p.cpus) \o connectControllers(p.cpus)
                     \o connectSystemPortToRuby
             S2 == S1 \cup sequencersSet(p.cpus) \cup networkSet(p.cpus) \cup proxySet
  <2>2. Gives(s2, S2)
    BY <2>1, <1>1, <1>2, RubyLoopsGive, ControllersGive, PortsGive, GivesAll,
       GivesStatement, Zenon
  <2> HIDE DEF s2, S2
  <2> DEFINE s3 == s2 \o ForEach(p.cpus, connectTester)
             S3 == S2 \cup allTesterPortsSet(p)
  <2>3. Gives(s3, S3)
    BY <2>2, <1>1, <1>2, RubyLoopsGive, ControllersGive, PortsGive, GivesAll,
       GivesStatement, Zenon
  <2> HIDE DEF s3, S3
  <2> QED
    BY <2>3, Zenon DEF TestCacheSystem_setup, testSetupSet, s1, S1, s2, S2, s3, S3
<1> QED
  BY <1>3, <1>4, <1>5

(* The scripts simple_ruby and ruby_test.                                  *)
LEMMA RubyGives ==
  ASSUME NEW p, NEW n \in Nat, NEW k \in Nat, p.cpus = n, p.memCtrls = k
  PROVE  /\ Gives(simple_ruby(p), simpleRubySet(p))
         /\ Gives(ruby_test(p), rubyTestSet(p))
<1>1. Gives(IF p.isa = "x86" THEN ForEach(p.cpus, createInterruptController) ELSE <<>>,
            IF p.isa = "x86" THEN allInterruptsSet(p.cpus) ELSE {})
  BY RubyLoopsGive, GivesNone, Zenon
<1>2. Gives(IF p.caches = "MSI" THEN MSI_setup(p) ELSE MI_setup(p),
            IF p.caches = "MSI" THEN msiSetupSet(p) ELSE miSetupSet(p))
  BY SetupsGive
<1>3. Gives(simple_ruby(p), simpleRubySet(p))
  <2>1. PICK s, t, S, T :
          /\ s = IF p.isa = "x86" THEN ForEach(p.cpus, createInterruptController) ELSE <<>>
          /\ S = IF p.isa = "x86" THEN allInterruptsSet(p.cpus) ELSE {}
          /\ t = IF p.caches = "MSI" THEN MSI_setup(p) ELSE MI_setup(p)
          /\ T = IF p.caches = "MSI" THEN msiSetupSet(p) ELSE miSetupSet(p)
    OBVIOUS
  <2>2. Gives(s, S) /\ Gives(t, T)
    BY <1>1, <1>2, <2>1, Zenon
  <2>3. simple_ruby(p) = New(system, "System") \o ForEach(p.cpus, LAMBDA i : New(cpu(i), "CPU"))
                           \o createMemCtrls(p) \o s \o t \o Instantiate
    BY <2>1, Zenon DEF simple_ruby
  <2>4. simpleRubySet(p) = new(system, "System") \cup cpusSet(p.cpus)
                             \cup memCtrlsSet(p) \cup S \cup T \cup instantiate
    BY <2>1, Zenon DEF simpleRubySet
  <2>5. Gives(New(system, "System") \o ForEach(p.cpus, LAMBDA i : New(cpu(i), "CPU"))
                \o createMemCtrls(p),
              new(system, "System") \cup cpusSet(p.cpus) \cup memCtrlsSet(p))
    BY RubyLoopsGive, GivesAll, GivesStatement, Zenon
  <2>6. Gives(New(system, "System") \o ForEach(p.cpus, LAMBDA i : New(cpu(i), "CPU"))
                \o createMemCtrls(p) \o s \o t \o Instantiate,
              new(system, "System") \cup cpusSet(p.cpus) \cup memCtrlsSet(p)
                \cup S \cup T \cup instantiate)
    BY <2>2, <2>5, GivesAll, GivesStatement, Zenon
  <2> QED
    BY <2>3, <2>4, <2>6, Zenon
<1>4. Gives(ruby_test(p), rubyTestSet(p))
  BY RubyLoopsGive, SetupsGive, GivesAll, GivesStatement, Zenon
  DEF ruby_test, rubyTestSet, import_ruby_caches
<1> QED
  BY <1>3, <1>4

(* The statements of a build's script.                                     *)
StatementsOf(b) ==
  CASE b.script = "simple" -> simpleSet
    [] b.script \in {"two_level", "two_level_opts"} -> twoLevelSet
    [] b.script = "simple_memobj" -> simpleMemobjSet
    [] b.script = "simple_cache" -> simpleCacheSet
    [] b.script \in {"x86", "x86_mp"} -> mySystemSet(b.cpus)
    [] b.script = "simple_ruby" -> simpleRubySet(b)
    [] b.script = "ruby_test" -> rubyTestSet(b)

(* The program of every build has the statements of StatementsOf and no    *)
(* other.                                                                  *)
LEMMA ProgramGives ==
  ASSUME NEW b \in Builds
  PROVE  Gives(Program[b], StatementsOf(b))
<1>1. PICK n, k : n = b.cpus /\ k = b.memCtrls /\ n \in Nat /\ k \in Nat
  BY BuildsAreRecords
<1>2. Gives(simple_ruby(b), simpleRubySet(b)) /\ Gives(ruby_test(b), rubyTestSet(b))
  BY <1>1, RubyGives
<1>3. /\ Gives(run(init_fs(membus), b.cpus), mySystemSet(b.cpus))
      /\ Gives(run(init_fs_mp(membus), b.cpus), mySystemSet(b.cpus))
  BY <1>1, MySystemGives
<1>4. Program[b] = Script(b)
  BY DEF Program
<1>5. b.script \in {"simple", "two_level", "two_level_opts", "simple_memobj", "simple_cache",
                    "x86", "x86_mp", "simple_ruby", "ruby_test"}
  BY BuildsAreRecords DEF OneCPUScripts
<1>6. Gives(Script(b), StatementsOf(b))
  BY <1>2, <1>3, <1>5, ClassicGive DEF Script, StatementsOf
<1> QED
  BY <1>4, <1>6

-----------------------------------------------------------------------------
(* The classes of the objects, and what a script has built: ConfigInv.     *)

(* The class of an object, by its name.                                    *)
KindNamed ==
  [system |-> "System", cpu |-> "CPU", membus |-> "SystemXBar", mem_ctrl |-> "MemCtrl",
   interrupts |-> "X86LocalApic", icache |-> "Cache", dcache |-> "Cache",
   l2bus |-> "L2XBar", l2cache |-> "Cache", memobj |-> "SimpleMemobj",
   cache |-> "SimpleCache", badaddr_responder |-> "BadAddr", pc |-> "Pc",
   iobus |-> "IOXBar", bridge |-> "Bridge", apicbridge |-> "Bridge",
   iocache |-> "Cache", tester |-> "RubyTester", network |-> "Network",
   sys_port_proxy |-> "RubyPortProxy", sequencer |-> "RubySequencer",
   l1 |-> "L1Cache", dir |-> "Directory", router |-> "Switch"]
KindOf(o) == KindNamed[o[1]]

(* The statements that make an object.                                     *)
Makes(st) == st.op \in {"new", "controller"}

(* Every statement is of a known kind.                                     *)
IsStatement(st) ==
  /\ st.op \in {"new", "controller", "bind", "check", "link", "instantiate"}
  /\ Makes(st) => st.class = KindOf(st.obj)
  /\ st.op = "controller" <=> (Makes(st) /\ st.class \in {"L1Cache", "Directory"})

(* A statement that makes an object of its name's class is well formed.    *)
LEMMA NewStatements ==
  ASSUME NEW o, NEW c, c = KindOf(o), c \notin {"L1Cache", "Directory"}, NEW st \in new(o, c)
  PROVE  IsStatement(st)
  BY DEF new, IsStatement, Makes

(* So are the statements that make nothing.                                *)
LEMMA OtherStatements ==
  /\ \A o, p, q, r : \A st \in bind(o, p, q, r) : IsStatement(st)
  /\ \A ok : \A st \in check(ok) : IsStatement(st)
  /\ \A a, b : \A st \in link(a, b) : IsStatement(st)
  /\ \A st \in instantiate : IsStatement(st)
  BY DEF bind, check, link, instantiate, IsStatement, Makes

(* So are all of the scripts of parts 1 and 2,                             *)
LEMMA ClassicStatements ==
  /\ \A st \in simpleSet : IsStatement(st)
  /\ \A st \in twoLevelSet : IsStatement(st)
  /\ \A st \in simpleMemobjSet : IsStatement(st)
  /\ \A st \in simpleCacheSet : IsStatement(st)
<1> USE DEF interruptsSet, memorySet, systemPortSet, cachesSet, new, bind, instantiate,
            IsStatement, Makes, KindOf, KindNamed, system, cpu, membus, mem_ctrl,
            interrupts, icache, dcache, l2bus, l2cache, memobj, simplecache
<1>1. \A st \in simpleSet : IsStatement(st)
  BY DEF simpleSet
<1>2. \A st \in twoLevelSet : IsStatement(st)
  BY DEF twoLevelSet
<1>3. \A st \in simpleMemobjSet : IsStatement(st)
  BY DEF simpleMemobjSet
<1>4. \A st \in simpleCacheSet : IsStatement(st)
  BY DEF simpleCacheSet
<1> QED
  BY <1>1, <1>2, <1>3, <1>4

(* those of part 4,                                                        *)
LEMMA MySystemStatements ==
  ASSUME NEW n \in Nat, NEW st \in mySystemSet(n)
  PROVE  IsStatement(st)
<1> USE DEF interruptsSet, memorySet, systemPortSet, cachesSet, new, bind, instantiate,
            IsStatement, Makes, KindOf, KindNamed, system, cpu, membus, mem_ctrl,
            interrupts, icache, dcache, iobus, bridge, apicbridge, iocache, pc,
            badaddr_responder
<1>1. \A s \in initFsSet : IsStatement(s)
  BY DEF initFsSet, attachSet
<1>2. \A i : \A s \in hierarchySet(i) : IsStatement(s)
  BY DEF hierarchySet
<1>3. \A s \in cpusSet(n) : IsStatement(s)
  BY DEF cpusSet
<1>4. \A s \in cpuInterruptsSet(n) : IsStatement(s)
  BY DEF cpuInterruptsSet
<1> QED
  BY <1>1, <1>2, <1>3, <1>4 DEF mySystemSet, hierarchiesSet

(* those of part 3,                                                        *)
LEMMA RubyStatements ==
  ASSUME NEW p
  PROVE  /\ \A st \in simpleRubySet(p) : IsStatement(st)
         /\ \A st \in rubyTestSet(p) : IsStatement(st)
<1> USE DEF new, bind, check, link, controller, instantiate, toNetwork, fromNetwork,
            IsStatement, Makes, KindOf, KindNamed, system, cpu, mem_ctrl,
            interrupts, tester, network, sys_port_proxy, sequencer, l1, dir, router
<1>1. \A i : \A st \in msiL1Set(p, i) \cup miL1Set(p, i) : IsStatement(st)
  BY DEF msiL1Set, miL1Set
<1>2. \A st \in msiDirSet(p) \cup miDirSet(p) : IsStatement(st)
  BY DEF msiDirSet, miDirSet
<1>3. \A n : \A st \in networkSet(n) : IsStatement(st)
  BY DEF networkSet, routersSet, extLinksSet, intLinksSet, linksFromSet
<1>4. \A n : \A st \in sequencersSet(n) : IsStatement(st)
  BY DEF sequencersSet, newSequencersSet, pointersSet
<1>5. \A i : \A st \in cpuPortsSet(p, i) \cup testerSet(i) : IsStatement(st)
  BY DEF cpuPortsSet, interruptPortsSet, walkersSet, testerSet
<1>6. \A st \in proxySet \cup memCtrlsSet(p) \cup allInterruptsSet(p.cpus)
                  \cup cpusSet(p.cpus) : IsStatement(st)
  BY DEF proxySet, memCtrlsSet, allInterruptsSet, cpusSet
<1>7. \A st \in msiL1sSet(p) \cup miL1sSet(p) : IsStatement(st)
  BY <1>1 DEF msiL1sSet, miL1sSet
<1>8. \A st \in allCPUPortsSet(p) \cup allTesterPortsSet(p) : IsStatement(st)
  BY <1>5 DEF allCPUPortsSet, allTesterPortsSet
<1>9. \A st \in msiSetupSet(p) \cup miSetupSet(p) \cup testSetupSet(p) : IsStatement(st)
  BY <1>2, <1>3, <1>4, <1>6, <1>7, <1>8 DEF msiSetupSet, miSetupSet, testSetupSet
<1>10. \A st \in simpleRubySet(p) : IsStatement(st)
  BY <1>6, <1>9 DEF simpleRubySet
<1>11. \A st \in rubyTestSet(p) : IsStatement(st)
  BY <1>6, <1>9 DEF rubyTestSet
<1> QED
  BY <1>10, <1>11

(* and so those of every build.                                            *)
LEMMA AllStatements ==
  ASSUME NEW b \in Builds
  PROVE  \A st \in StatementsOf(b) : IsStatement(st)
<1>1. b.cpus \in Nat
  BY BuildsAreRecords
<1>2. b.script \in {"simple", "two_level", "two_level_opts", "simple_memobj", "simple_cache",
                    "x86", "x86_mp", "simple_ruby", "ruby_test"}
  BY BuildsAreRecords DEF OneCPUScripts
<1>3. \A st \in mySystemSet(b.cpus) : IsStatement(st)
  BY <1>1, MySystemStatements
<1> QED
  BY <1>2, <1>3, ClassicStatements, RubyStatements DEF StatementsOf

(* What a script has built.                                                *)

IsPort(e, role) ==
  \E t \in Ports : t.class = KindOf(e[1]) /\ t.port = e[2] /\ t.role = role

(* Nothing is there but what statements made.                              *)
MadeKnown ==
  \A m \in made :
    /\ m.class = KindOf(m.obj)
    /\ \E st \in StatementsOf(build) : Makes(st) /\ st.obj = m.obj
WiresKnown ==
  \A w \in wires :
    /\ IsPort(w[1], "master") /\ IsPort(w[2], "slave")
    /\ Exists(w[1][1]) /\ Exists(w[2][1])
    /\ \E st \in StatementsOf(build) :
         st.op = "bind" /\ w \in st.ends \X st.ends
LinksKnown ==
  \A l \in links :
    \E st \in StatementsOf(build) : st.op = "link" /\ l = <<st.from, st.to>>

(* What a statement has done once it has been executed.                    *)
Executed(st) ==
  /\ Makes(st) => Exists(st.obj)
  /\ st.op = "bind" => \E w \in wires : w \in st.ends \X st.ends
  /\ st.op = "link" => <<st.from, st.to>> \in links
  /\ st.op = "check" => st.ok

(* No two controllers of a class have one version.                         *)
VersionsUnique ==
  /\ versions \in [{"L1Cache", "Directory"} -> Nat]
  /\ \A m \in made : m.class \in {"L1Cache", "Directory"} =>
       m.version \in Nat /\ m.version < versions[m.class]
  /\ \A m, n \in made :
       /\ m.class \in {"L1Cache", "Directory"}
       /\ m.class = n.class /\ m.version = n.version
       => m = n

(* The invariant of a script that is executed, and of the system that it   *)
(* built.                                                                  *)
ConfigInv ==
  /\ build \in Builds
  /\ next \in 1..(Len(Program[build]) + 1)
  /\ MadeKnown /\ WiresKnown /\ LinksKnown
  /\ \A k \in 1..(next - 1) : Executed(Program[build][k])
  /\ VersionsUnique
  /\ packets # {} => Simulating

(* The statement next executed is one of the script's, and the script is   *)
(* at its end once it simulates.                                           *)
LEMMA TheStatement ==
  ASSUME build \in Builds, next \in 1..(Len(Program[build]) + 1)
  PROVE  /\ Len(Program[build]) \in Nat
         /\ Building => next \in 1..Len(Program[build]) /\ Statement \in StatementsOf(build)
                        /\ IsStatement(Statement)
         /\ Simulating => next = Len(Program[build]) + 1
         /\ \A st \in StatementsOf(build) : \E k \in 1..Len(Program[build]) : Program[build][k] = st
<1>1. Gives(Program[build], StatementsOf(build))
  BY ProgramGives
<1>2. PICK s : s = Program[build]
  OBVIOUS
<1>3. /\ s \in Seq(StatementsOf(build))
      /\ StatementsOf(build) = {s[k] : k \in DOMAIN s}
  BY <1>1, <1>2 DEF Gives
<1>4. DOMAIN s = 1..Len(s) /\ Len(s) \in Nat
  BY <1>3
<1>5. Building => next \in 1..Len(s) /\ Statement = s[next]
  BY <1>2, <1>4 DEF Building, Statement
<1>6. Simulating => next = Len(s) + 1
  BY <1>2, <1>4 DEF Simulating
<1>7. Building => Statement \in StatementsOf(build)
  BY <1>3, <1>4, <1>5
<1>8. \A st \in StatementsOf(build) : IsStatement(st)
  BY AllStatements
<1> QED
  BY <1>2, <1>3, <1>4, <1>5, <1>6, <1>7, <1>8

(* The class with which an object was made is that of its name.            *)
LEMMA Classes ==
  ASSUME MadeKnown, NEW o, Exists(o)
  PROVE  ClassOf(o) = KindOf(o)
<1>1. \E m \in made : m.obj = o
  BY DEF Exists
<1>2. PICK n : n = CHOOSE m \in made : m.obj = o
  OBVIOUS
<1>3. n \in made /\ n.obj = o
  BY <1>1, <1>2, Zenon
<1> QED
  BY <1>2, <1>3 DEF ClassOf, MadeKnown

(* A script begins with nothing built.                                     *)
LEMMA ConfigInit == Init => ConfigInv
<1>1. SUFFICES ASSUME Init
               PROVE  ConfigInv
  OBVIOUS
<1>2. build \in Builds /\ next = 1 /\ made = {} /\ wires = {} /\ links = {} /\ packets = {}
      /\ versions = [c \in {"L1Cache", "Directory"} |-> 0]
  BY <1>1 DEF Init
<1>3. Len(Program[build]) \in Nat
  BY <1>2, TheStatement, ProgramGives DEF Gives
<1>4. next \in 1..(Len(Program[build]) + 1) /\ 1..(next - 1) = {}
  BY <1>2, <1>3
<1> QED
  BY <1>2, <1>4 DEF ConfigInv, MadeKnown, WiresKnown, LinksKnown, VersionsUnique

(* Nothing is undone.                                                      *)
LEMMA StaysExecuted ==
  (made \subseteq made' /\ wires \subseteq wires' /\ links \subseteq links')
    => \A st : Executed(st) => Executed(st)'
<1>1. SUFFICES ASSUME made \subseteq made', wires \subseteq wires', links \subseteq links',
                      NEW st, Executed(st)
               PROVE  Executed(st)'
  OBVIOUS
<1>2. Makes(st) => Exists(st.obj)'
  BY <1>1 DEF Executed, Exists
<1>3. st.op = "bind" => \E w \in wires' : w \in st.ends \X st.ends
  BY <1>1 DEF Executed
<1> QED
  BY <1>1, <1>2, <1>3 DEF Executed

(* A statement that is executed and leaves something as it should be.      *)
LEMMA StatementDone ==
  ASSUME ConfigInv, NEW op, Execute(op), NEW st, st = Statement,
         made \subseteq made', wires \subseteq wires', links \subseteq links',
         Executed(st)', MadeKnown', WiresKnown', LinksKnown', VersionsUnique'
  PROVE  ConfigInv'
<1>1. /\ build \in Builds /\ build' = build /\ next' = next + 1 /\ packets' = packets
      /\ aborted' = aborted /\ Building
  BY DEF ConfigInv, Execute
<1>2. PICK s : s = Program[build]
  OBVIOUS
<1>3. next \in 1..Len(s) /\ Len(s) \in Nat /\ st = s[next]
  BY <1>1, <1>2, TheStatement DEF ConfigInv, Statement
<1>4. next' \in 1..(Len(s) + 1) /\ next' - 1 = next /\ next \in Nat
  BY <1>1, <1>3
<1>5. \A k \in 1..(next' - 1) : Executed(s[k])'
  <2>0. SUFFICES ASSUME NEW k \in 1..(next' - 1)
                 PROVE  Executed(s[k])'
    OBVIOUS
  <2>1. CASE k = next
    BY <1>2, <1>3, <2>1
  <2>2. CASE k # next
    <3>0. PICK n : n = next
      OBVIOUS
    <3>1. k \in 1..(next - 1)
      <4>1. k \in 1..n /\ k # n /\ n \in Nat
        BY <1>4, <2>0, <2>2, <3>0
      <4>2. k \in 1..(n - 1)
        BY <4>1
      <4> QED
        BY <3>0, <4>2
    <3>2. Executed(s[k])
      BY <1>2, <3>1 DEF ConfigInv
    <3>3. PICK t : t = s[k]
      OBVIOUS
    <3>4. Executed(t)'
      BY <3>2, <3>3, StaysExecuted
    <3> QED
      BY <1>1, <1>2, <3>3, <3>4
  <2> QED
    BY <2>1, <2>2
<1>6. packets = {}
  <2>1. ~Simulating
    BY <1>1, <1>2, <1>3 DEF Simulating
  <2> QED
    BY <2>1 DEF ConfigInv
<1> QED
  BY <1>1, <1>2, <1>4, <1>5, <1>6 DEF ConfigInv

(* Making an object preserves the invariant.                               *)
LEMMA MakeObjectStep ==
  ASSUME ConfigInv, MakeObject
  PROVE  ConfigInv'
<1>1. PICK st : st = Statement
  OBVIOUS
<1>2. /\ Execute("new") /\ build \in Builds /\ build' = build
      /\ made' = made \cup {[obj |-> st.obj, class |-> st.class, version |-> 0]}
      /\ wires' = wires /\ links' = links /\ versions' = versions
  BY <1>1 DEF MakeObject, ConfigInv, Execute
<1>3. st.op = "new" /\ st \in StatementsOf(build) /\ IsStatement(st) /\ Makes(st)
  BY <1>1, <1>2, TheStatement DEF ConfigInv, Execute, Makes
<1>4. st.class = KindOf(st.obj) /\ st.class \notin {"L1Cache", "Directory"}
  BY <1>3 DEF IsStatement
<1>5. Executed(st)'
  <2>1. \E m \in made' : m.obj = st.obj
    <3>1. \E v, d : [obj |-> st.obj, class |-> d, version |-> v] \in made'
      BY <1>2, Zenon
    <3>2. \A v, d : [obj |-> st.obj, class |-> d, version |-> v].obj = st.obj
      OBVIOUS
    <3> QED
      BY <3>1, <3>2
  <2>2. st.op \notin {"bind", "link", "check"}
    BY <1>3
  <2> QED
    BY <2>1, <2>2 DEF Executed, Exists
<1>6. MadeKnown'
  BY <1>2, <1>3, <1>4 DEF ConfigInv, MadeKnown
<1>7. Ports' = Ports
  BY <1>2 DEF Ports
<1>8. WiresKnown' /\ LinksKnown'
  BY <1>2, <1>7 DEF ConfigInv, WiresKnown, LinksKnown, IsPort, Exists
<1>9. VersionsUnique'
  BY <1>2, <1>4 DEF ConfigInv, VersionsUnique
<1> QED
  BY <1>1, <1>2, <1>5, <1>6, <1>8, <1>9, StatementDone

(* So does making a controller, which takes the next version of its class. *)
LEMMA MakeControllerStep ==
  ASSUME ConfigInv, MakeController
  PROVE  ConfigInv'
<1>1. PICK st, c : st = Statement /\ c = Statement.class
  OBVIOUS
<1>2. /\ Execute("controller") /\ build \in Builds /\ build' = build
      /\ versions' = [versions EXCEPT ![c] = @ + 1]
      /\ made' = made \cup {[obj |-> st.obj, class |-> c, version |-> versions'[c] - 1]}
      /\ wires' = wires /\ links' = links
  BY <1>1 DEF MakeController, ConfigInv, Execute
<1>3. st.op = "controller" /\ st \in StatementsOf(build) /\ IsStatement(st) /\ Makes(st)
  BY <1>1, <1>2, TheStatement DEF ConfigInv, Execute, Makes
<1>4. c = KindOf(st.obj) /\ c \in {"L1Cache", "Directory"}
  BY <1>1, <1>3 DEF IsStatement
<1>5. Executed(st)'
  <2>1. \E m \in made' : m.obj = st.obj
    <3>1. \E v, d : [obj |-> st.obj, class |-> d, version |-> v] \in made'
      <4>1. PICK v : v = versions'[c] - 1
        OBVIOUS
      <4>2. made' = made \cup {[obj |-> st.obj, class |-> c, version |-> v]}
        BY <1>2, <4>1
      <4> QED
        BY <4>2, Zenon
    <3>2. \A v, d : [obj |-> st.obj, class |-> d, version |-> v].obj = st.obj
      OBVIOUS
    <3> QED
      BY <3>1, <3>2
  <2>2. st.op \notin {"bind", "link", "check"}
    BY <1>3
  <2> QED
    BY <2>1, <2>2 DEF Executed, Exists
<1>6. MadeKnown'
  BY <1>2, <1>3, <1>4 DEF ConfigInv, MadeKnown
<1>7. Ports' = Ports
  BY <1>2 DEF Ports
<1>8. WiresKnown' /\ LinksKnown'
  BY <1>2, <1>7 DEF ConfigInv, WiresKnown, LinksKnown, IsPort, Exists
<1>9. VersionsUnique'
  <2>1. /\ versions' \in [{"L1Cache", "Directory"} -> Nat]
        /\ versions[c] \in Nat /\ versions'[c] = versions[c] + 1
        /\ \A d \in {"L1Cache", "Directory"} \ {c} : versions'[d] = versions[d]
    BY <1>2, <1>4 DEF ConfigInv, VersionsUnique
  <2>2. made' = made \cup {[obj |-> st.obj, class |-> c, version |-> versions[c]]}
    BY <1>2, <2>1
  <2>3. ASSUME NEW m \in made, m.class = c
        PROVE  m.version \in Nat /\ m.version < versions[c]
    BY <1>4, <2>3 DEF ConfigInv, VersionsUnique
  <2>4. ASSUME NEW m \in made', m.class \in {"L1Cache", "Directory"}
        PROVE  m.version \in Nat /\ m.version < versions'[m.class]
    BY <2>1, <2>2, <2>4 DEF ConfigInv, VersionsUnique
  <2>5. ASSUME NEW m \in made', NEW n \in made', m.class \in {"L1Cache", "Directory"},
               m.class = n.class, m.version = n.version
        PROVE  m = n
    BY <2>1, <2>2, <2>3, <2>5 DEF ConfigInv, VersionsUnique
  <2> QED
    BY <2>1, <2>4, <2>5 DEF VersionsUnique
<1> QED
  BY <1>1, <1>2, <1>5, <1>6, <1>8, <1>9, StatementDone

(* So does binding two ports.                                              *)
LEMMA BindPortsStep ==
  ASSUME ConfigInv, BindPorts
  PROVE  ConfigInv'
<1>1. PICK st : st = Statement
  OBVIOUS
<1>2. /\ Execute("bind") /\ build \in Builds /\ build' = build
      /\ wires' = wires \cup Connections(st.ends)
      /\ made' = made /\ links' = links /\ versions' = versions
  BY <1>1 DEF BindPorts, ConfigInv, Execute
<1>3. st.op = "bind" /\ st \in StatementsOf(build) /\ IsStatement(st) /\ ~Makes(st)
  BY <1>1, <1>2, TheStatement DEF ConfigInv, Execute, Makes
<1>4. Connections(st.ends) # {}
  BY <1>1, <1>2 DEF Execute, Succeeds
<1>5. ASSUME NEW e, NEW role, Connectable(e, role)
      PROVE  IsPort(e, role) /\ Exists(e[1])
  BY <1>5, Classes DEF ConfigInv, Connectable, PortsOf, IsPort
<1>6. \A w \in Connections(st.ends) :
        /\ w \in st.ends \X st.ends /\ IsPort(w[1], "master") /\ IsPort(w[2], "slave")
        /\ Exists(w[1][1]) /\ Exists(w[2][1])
  BY <1>5 DEF Connections
<1>7. Executed(st)'
  BY <1>2, <1>3, <1>4, <1>6 DEF Executed
<1>8. Ports' = Ports
  BY <1>2 DEF Ports
<1>9. WiresKnown'
  BY <1>2, <1>3, <1>6, <1>8 DEF ConfigInv, WiresKnown, IsPort, Exists
<1>10. MadeKnown' /\ LinksKnown' /\ VersionsUnique'
  BY <1>2 DEF ConfigInv, MadeKnown, LinksKnown, VersionsUnique
<1> QED
  BY <1>1, <1>2, <1>7, <1>9, <1>10, StatementDone

(* So do links, checks that hold and instantiate.                          *)
LEMMA OtherStatementsStep ==
  ASSUME ConfigInv, MakeLink \/ GoOn
  PROVE  ConfigInv'
<1>1. PICK st : st = Statement
  OBVIOUS
<1>2. PICK op \in {"link", "check", "instantiate"} :
        /\ Execute(op)
        /\ links' = IF op = "link" THEN links \cup {<<st.from, st.to>>} ELSE links
  BY <1>1 DEF MakeLink, GoOn, systemVars
<1>3. /\ build \in Builds /\ build' = build
      /\ made' = made /\ wires' = wires /\ versions' = versions
  BY <1>2 DEF MakeLink, GoOn, systemVars, ConfigInv, Execute
<1>4. st.op = op /\ st \in StatementsOf(build) /\ IsStatement(st) /\ ~Makes(st)
  BY <1>1, <1>2, TheStatement DEF ConfigInv, Execute, Makes
<1>5. st.op = "check" => st.ok
  BY <1>1, <1>2, <1>4 DEF Execute, Succeeds
<1>6. Executed(st)'
  BY <1>2, <1>4, <1>5 DEF Executed
<1>7. Ports' = Ports
  BY <1>3 DEF Ports
<1>8. LinksKnown'
  BY <1>2, <1>3, <1>4 DEF ConfigInv, LinksKnown
<1>9. WiresKnown' /\ MadeKnown' /\ VersionsUnique'
  BY <1>3, <1>7 DEF ConfigInv, MadeKnown, WiresKnown, IsPort, Exists, VersionsUnique
<1> QED
  BY <1>1, <1>2, <1>3, <1>6, <1>8, <1>9, StatementDone

(* So does a step that leaves the system and the script as they are.       *)
LEMMA SystemStays ==
  ASSUME ConfigInv, UNCHANGED <<build, next, systemVars>>, packets' # {} => Simulating'
  PROVE  ConfigInv'
<1>1. /\ build' = build /\ next' = next /\ made' = made /\ wires' = wires /\ links' = links
      /\ versions' = versions
  BY DEF systemVars
<1>2. Ports' = Ports
  BY <1>1 DEF Ports
<1>3. PICK s : s = Program[build]
  OBVIOUS
<1>4. \A k \in 1..(next' - 1) : Executed(s[k])'
  <2>1. SUFFICES ASSUME NEW k \in 1..(next' - 1)
                 PROVE  Executed(s[k])'
    OBVIOUS
  <2>2. PICK t : t = s[k]
    OBVIOUS
  <2>3. Executed(t)
    BY <1>1, <1>3, <2>1, <2>2 DEF ConfigInv
  <2>4. Executed(t)'
    BY <1>1, <2>3, StaysExecuted
  <2> QED
    BY <2>2, <2>4
<1>5. MadeKnown' /\ WiresKnown' /\ LinksKnown' /\ VersionsUnique'
  BY <1>1, <1>2 DEF ConfigInv, MadeKnown, WiresKnown, LinksKnown, VersionsUnique, IsPort, Exists
<1> QED
  BY <1>1, <1>3, <1>4, <1>5 DEF ConfigInv

(* A packet's step is such a step.                                         *)
LEMMA HopStays ==
  ASSUME NEW p, Move(p)
  PROVE  Simulating /\ p \in packets /\ UNCHANGED <<build, next, aborted, systemVars>>
  BY DEF Move, Hop

(* Every step preserves the invariant.                                     *)
LEMMA ConfigStep == ConfigInv /\ [Next]_vars => ConfigInv'
<1>1. SUFFICES ASSUME ConfigInv, [Next]_vars
               PROVE  ConfigInv'
  OBVIOUS
<1>2. CASE MakeObject
  BY <1>1, <1>2, MakeObjectStep
<1>3. CASE MakeController
  BY <1>1, <1>3, MakeControllerStep
<1>4. CASE BindPorts
  BY <1>1, <1>4, BindPortsStep
<1>5. CASE MakeLink \/ GoOn
  BY <1>1, <1>5, OtherStatementsStep
<1>6. CASE Abort
  <2>1. packets = {}
    BY <1>1, <1>6 DEF ConfigInv, Abort, Building, Simulating
  <2> QED
    BY <1>1, <1>6, <2>1, SystemStays DEF Abort
<1>7. CASE SendRequest \/ SendMessage
  BY <1>1, <1>7, SystemStays DEF SendRequest, SendMessage, Simulating
<1>8. CASE Travel
  BY <1>1, <1>8, HopStays, SystemStays DEF Travel, Simulating
<1>9. CASE UNCHANGED vars
  BY <1>1, <1>9, SystemStays DEF vars, systemVars, ConfigInv, Simulating
<1> QED
  BY <1>1, <1>2, <1>3, <1>4, <1>5, <1>6, <1>7, <1>8, <1>9 DEF Next, Run

-----------------------------------------------------------------------------
(* The connections that the scripts make.                                  *)

(* Once the system simulates every statement of its script has been        *)
(* executed.                                                               *)
LEMMA AllExecuted ==
  ASSUME ConfigInv, Simulating, NEW st \in StatementsOf(build)
  PROVE  Executed(st)
<1>1. build \in Builds /\ next \in 1..(Len(Program[build]) + 1)
  BY DEF ConfigInv
<1>2. PICK s : s = Program[build]
  OBVIOUS
<1>3. Len(s) \in Nat /\ next = Len(s) + 1 /\ \E k \in 1..Len(s) : s[k] = st
  BY <1>1, <1>2, TheStatement
<1>4. PICK k \in 1..Len(s) : s[k] = st
  BY <1>3
<1>5. k \in 1..(next - 1)
  BY <1>3
<1>6. Executed(s[k])
  BY <1>2, <1>5 DEF ConfigInv
<1> QED
  BY <1>4, <1>6

(* The role of a port.                                                     *)
MasterPorts ==
  {<<"SimpleMemobj", "mem_side">>, <<"SimpleCache", "mem_side">>,
   <<"SystemXBar", "master">>, <<"SystemXBar", "default">>,
   <<"L2XBar", "master">>, <<"L2XBar", "default">>,
   <<"IOXBar", "master">>, <<"IOXBar", "default">>,
   <<"System", "system_port">>, <<"CPU", "icache_port">>, <<"CPU", "dcache_port">>,
   <<"CPU", "itb.walker.port">>, <<"CPU", "dtb.walker.port">>,
   <<"X86LocalApic", "int_master">>, <<"Cache", "mem_side">>, <<"Bridge", "master">>,
   <<"Pc", "dma">>, <<"Pc", "int_master">>, <<"RubyTester", "cpuInstDataPort">>,
   <<"RubySequencer", "master">>, <<"Network", "master">>,
   <<"L1Cache", "requestToDir">>, <<"L1Cache", "responseToDirOrSibling">>,
   <<"L1Cache", "requestFromCache">>, <<"L1Cache", "responseFromCache">>,
   <<"Directory", "forwardToCache">>, <<"Directory", "responseToCache">>,
   <<"Directory", "forwardFromDir">>, <<"Directory", "responseFromDir">>,
   <<"Directory", "dmaResponseFromDir">>, <<"Directory", "memory">>}

Role(o, p) == IF <<KindOf(o), p>> \in MasterPorts THEN "master" ELSE "slave"

(* A port has one role, and this is it.                                    *)
LEMMA Roles ==
  ASSUME build \in Builds, NEW e, NEW role, IsPort(e, role)
  PROVE  role = Role(e[1], e[2])
<1>1. build.caches \in {"MSI", "MI_example"}
  BY BuildsAreRecords
<1>2. PICK t \in Ports : t.class = KindOf(e[1]) /\ t.port = e[2] /\ t.role = role
  BY DEF IsPort
<1>3. SUFFICES t.role = IF <<t.class, t.port>> \in MasterPorts THEN "master" ELSE "slave"
  BY <1>2 DEF Role
<1> USE DEF Port, Master, Slave, Optional, VectorMaster, VectorSlave, MasterPorts
<1>4. CASE t \in SimpleMemobjPorts \cup SimpleCachePorts
  BY <1>4 DEF SimpleMemobjPorts, SimpleCachePorts
<1>5. CASE t \in XBarPorts
  BY <1>5 DEF XBarPorts, XBar, CoherentXBar
<1>6. CASE t \in OtherPorts
  BY <1>6 DEF OtherPorts
<1>7. CASE t \in BufferPorts(build.caches)
  <2>1. PICK b \in MSICacheBuffers \cup MSIDirBuffers \cup MI_exampleBuffers :
          t = Port(b.machine, b.buffer, IF b.way = "To" THEN "master" ELSE "slave", FALSE, TRUE)
    BY <1>1, <1>7 DEF BufferPorts, Buffers
  <2>2. /\ t.class = b.machine /\ t.port = b.buffer
        /\ t.role = IF b.way = "To" THEN "master" ELSE "slave"
    BY <2>1
  <2>3. CASE b \in MSICacheBuffers
    BY <2>2, <2>3 DEF MSICacheBuffers, Buffer
  <2>4. CASE b \in MSIDirBuffers
    BY <2>2, <2>4 DEF MSIDirBuffers, Buffer
  <2>5. CASE b \in MI_exampleBuffers
    BY <2>2, <2>5 DEF MI_exampleBuffers, Buffer
  <2> QED
    BY <2>1, <2>3, <2>4, <2>5
<1>8. CASE t = Master("Directory", "memory")
  BY <1>8
<1> QED
  BY <1>2, <1>4, <1>5, <1>6, <1>7, <1>8 DEF Ports

(* A connection, from its master port to its slave port.                   *)
wire(o, p, q, r) == <<<<o, p>>, <<q, r>>>>

(* Which end of a connection is the master.                                *)
Wire(st, w) == w \in st.ends \X st.ends /\ IsPort(w[1], "master") /\ IsPort(w[2], "slave")

(* A connection of a master and a slave port goes from the master to the   *)
(* slave, whichever way it was written.                                    *)
LEMMA Orient ==
  ASSUME build \in Builds, NEW o, NEW p, NEW q, NEW r, NEW st \in bind(o, p, q, r),
         NEW w, Wire(st, w)
  PROVE  /\ Role(o, p) = "slave" /\ Role(q, r) = "master" => w = wire(q, r, o, p)
         /\ Role(o, p) = "master" /\ Role(q, r) = "slave" => w = wire(o, p, q, r)
<1>1. w \in {<<o, p>>, <<q, r>>} \X {<<o, p>>, <<q, r>>}
  BY DEF Wire, bind
<1>2. Role(w[1][1], w[1][2]) = "master" /\ Role(w[2][1], w[2][2]) = "slave"
  BY Roles DEF Wire
<1>3. \/ w = <<<<o, p>>, <<q, r>>>> \/ w = <<<<q, r>>, <<o, p>>>>
      \/ w = <<<<o, p>>, <<o, p>>>> \/ w = <<<<q, r>>, <<q, r>>>>
  BY <1>1
<1> QED
  BY <1>2, <1>3 DEF wire

(* The connections of the scripts of parts 1, 2 and 4.                     *)
CommonWires(i) ==
  {wire(membus, "master", interrupts(i), "pio"),
   wire(interrupts(i), "int_master", membus, "slave"),
   wire(membus, "master", interrupts(i), "int_slave"),
   wire(membus, "master", mem_ctrl(0), "port"),
   wire(system, "system_port", membus, "slave")}

UncachedWires ==
  {wire(cpu(0), "icache_port", membus, "slave"),
   wire(cpu(0), "dcache_port", membus, "slave"),
   wire(cpu(0), "icache_port", memobj, "inst_port"),
   wire(cpu(0), "dcache_port", memobj, "data_port"),
   wire(memobj, "mem_side", membus, "slave"),
   wire(cpu(0), "icache_port", simplecache, "cpu_side"),
   wire(cpu(0), "dcache_port", simplecache, "cpu_side"),
   wire(simplecache, "mem_side", membus, "slave")}

L1Wires(i) ==
  {wire(cpu(i), "icache_port", icache(i), "cpu_side"),
   wire(cpu(i), "dcache_port", dcache(i), "cpu_side")}

TwoLevelWires ==
  {wire(icache(0), "mem_side", l2bus, "slave"),
   wire(dcache(0), "mem_side", l2bus, "slave"),
   wire(l2bus, "master", l2cache, "cpu_side"),
   wire(l2cache, "mem_side", membus, "slave")}

PlatformWires ==
  {wire(membus, "default", badaddr_responder, "pio"),
   wire(bridge, "master", iobus, "slave"),
   wire(membus, "master", bridge, "slave"),
   wire(iobus, "master", apicbridge, "slave"),
   wire(apicbridge, "master", membus, "slave"),
   wire(iobus, "master", pc, "pio"),
   wire(iobus, "default", pc, "pci_host"),
   wire(pc, "dma", iobus, "slave"),
   wire(pc, "int_master", iobus, "slave"),
   wire(iobus, "master", iocache, "cpu_side"),
   wire(iocache, "mem_side", membus, "slave")}

HierarchyWires(i) ==
  {wire(icache(i), "mem_side", membus, "slave"),
   wire(dcache(i), "mem_side", membus, "slave"),
   wire(cpu(i), "itb.walker.port", membus, "slave"),
   wire(cpu(i), "dtb.walker.port", membus, "slave")}

(* Those of part 3, but for the network's.                                 *)
RubyWires(i) ==
  {wire(cpu(i), "icache_port", sequencer(i), "slave"),
   wire(cpu(i), "dcache_port", sequencer(i), "slave"),
   wire(sequencer(i), "master", interrupts(i), "pio"),
   wire(interrupts(i), "int_master", sequencer(i), "slave"),
   wire(sequencer(i), "master", interrupts(i), "int_slave"),
   wire(cpu(i), "itb.walker.port", sequencer(i), "slave"),
   wire(cpu(i), "dtb.walker.port", sequencer(i), "slave"),
   wire(tester, "cpuInstDataPort", sequencer(i), "slave"),
   wire(system, "system_port", sys_port_proxy, "slave"),
   wire(dir, "memory", mem_ctrl(0), "port")}

BufferNames ==
  {"requestToDir", "responseToDirOrSibling", "forwardFromDir", "responseFromDirOrSibling",
   "requestFromCache", "responseFromCache", "forwardToCache", "responseToCache",
   "dmaRequestToDir", "responseFromDir", "dmaResponseFromDir"}
NetworkWires(o) ==
  {wire(o, b, network, "slave") : b \in BufferNames}
    \cup {wire(network, "master", o, b) : b \in BufferNames}

UncachedScriptWires == CommonWires(0) \cup UncachedWires
TwoLevelScriptWires == CommonWires(0) \cup L1Wires(0) \cup TwoLevelWires
MySystemWires(n) ==
  PlatformWires
    \cup UNION {CommonWires(i) \cup L1Wires(i) \cup HierarchyWires(i) : i \in 0..(n - 1)}
RubyScriptWires(n) ==
  NetworkWires(dir)
    \cup UNION {RubyWires(i) \cup NetworkWires(l1(i)) : i \in 0..(n - 1)}

(* All connections that a build's script can make.                         *)
WiresOf(b) ==
  CASE b.script \in {"simple", "simple_memobj", "simple_cache"} -> UncachedScriptWires
    [] b.script \in {"two_level", "two_level_opts"} -> TwoLevelScriptWires
    [] b.script \in {"x86", "x86_mp"} -> MySystemWires(b.cpus)
    [] b.script \in {"simple_ruby", "ruby_test"} -> RubyScriptWires(b.cpus)

(* The statements of S make no connection but those of W.                  *)
Connects(S, W) == \A st \in S : st.op = "bind" => \A w : Wire(st, w) => w \in W

(* Only bind makes connections.                                            *)
LEMMA NoWires ==
  /\ \A o, c, W : Connects(new(o, c), W)
  /\ \A o, c, W : Connects(controller(o, c), W)
  /\ \A ok, W : Connects(check(ok), W)
  /\ \A a, b, W : Connects(link(a, b), W)
  /\ \A W : Connects(instantiate, W)
  /\ \A W : Connects({}, W)
  BY DEF Connects, new, controller, check, link, instantiate

(* The connections of two sets of statements.                              *)
LEMMA BothWires ==
  ASSUME NEW S, NEW T, NEW W, Connects(S, W), Connects(T, W)
  PROVE  Connects(S \cup T, W)
  BY DEF Connects

(* What one bind connects, by the roles of its ports.                      *)
LEMMA BindWires ==
  ASSUME build \in Builds, NEW o, NEW p, NEW q, NEW r, NEW W,
         \/ /\ Role(o, p) = "slave" /\ Role(q, r) = "master" /\ wire(q, r, o, p) \in W
         \/ /\ Role(o, p) = "master" /\ Role(q, r) = "slave" /\ wire(o, p, q, r) \in W
  PROVE  Connects(bind(o, p, q, r), W)
<1>1. SUFFICES ASSUME NEW st \in bind(o, p, q, r), NEW w, Wire(st, w)
               PROVE  w \in W
  BY DEF Connects
<1>2. /\ Role(o, p) = "slave" /\ Role(q, r) = "master" => w = wire(q, r, o, p)
      /\ Role(o, p) = "master" /\ Role(q, r) = "slave" => w = wire(o, p, q, r)
  BY <1>1, Orient
<1>3. CASE Role(o, p) = "slave" /\ Role(q, r) = "master" /\ wire(q, r, o, p) \in W
  BY <1>2, <1>3, Zenon
<1>4. CASE Role(o, p) = "master" /\ Role(q, r) = "slave" /\ wire(o, p, q, r) \in W
  BY <1>2, <1>4, Zenon
<1> QED
  BY <1>3, <1>4

(* The roles of the ports that the scripts name.                           *)
LEMMA PortRoles ==
  \A i :
    /\ Role(apicbridge, "master") = "master"
    /\ Role(apicbridge, "slave") = "slave"
    /\ Role(badaddr_responder, "pio") = "slave"
    /\ Role(bridge, "master") = "master"
    /\ Role(bridge, "slave") = "slave"
    /\ Role(cpu(i), "dcache_port") = "master"
    /\ Role(cpu(i), "dtb.walker.port") = "master"
    /\ Role(cpu(i), "icache_port") = "master"
    /\ Role(cpu(i), "itb.walker.port") = "master"
    /\ Role(dcache(i), "cpu_side") = "slave"
    /\ Role(dcache(i), "mem_side") = "master"
    /\ Role(dir, "dmaRequestToDir") = "slave"
    /\ Role(dir, "dmaResponseFromDir") = "master"
    /\ Role(dir, "forwardFromDir") = "master"
    /\ Role(dir, "forwardToCache") = "master"
    /\ Role(dir, "memory") = "master"
    /\ Role(dir, "requestFromCache") = "slave"
    /\ Role(dir, "requestToDir") = "slave"
    /\ Role(dir, "responseFromCache") = "slave"
    /\ Role(dir, "responseFromDir") = "master"
    /\ Role(dir, "responseToCache") = "master"
    /\ Role(icache(i), "cpu_side") = "slave"
    /\ Role(icache(i), "mem_side") = "master"
    /\ Role(interrupts(i), "int_master") = "master"
    /\ Role(interrupts(i), "int_slave") = "slave"
    /\ Role(interrupts(i), "pio") = "slave"
    /\ Role(iobus, "default") = "master"
    /\ Role(iobus, "master") = "master"
    /\ Role(iobus, "slave") = "slave"
    /\ Role(iocache, "cpu_side") = "slave"
    /\ Role(iocache, "mem_side") = "master"
    /\ Role(l1(i), "forwardFromDir") = "slave"
    /\ Role(l1(i), "forwardToCache") = "slave"
    /\ Role(l1(i), "requestFromCache") = "master"
    /\ Role(l1(i), "requestToDir") = "master"
    /\ Role(l1(i), "responseFromCache") = "master"
    /\ Role(l1(i), "responseFromDirOrSibling") = "slave"
    /\ Role(l1(i), "responseToCache") = "slave"
    /\ Role(l1(i), "responseToDirOrSibling") = "master"
    /\ Role(l2bus, "master") = "master"
    /\ Role(l2bus, "slave") = "slave"
    /\ Role(l2cache, "cpu_side") = "slave"
    /\ Role(l2cache, "mem_side") = "master"
    /\ Role(mem_ctrl(i), "port") = "slave"
    /\ Role(membus, "default") = "master"
    /\ Role(membus, "master") = "master"
    /\ Role(membus, "slave") = "slave"
    /\ Role(memobj, "data_port") = "slave"
    /\ Role(memobj, "inst_port") = "slave"
    /\ Role(memobj, "mem_side") = "master"
    /\ Role(network, "master") = "master"
    /\ Role(network, "slave") = "slave"
    /\ Role(pc, "dma") = "master"
    /\ Role(pc, "int_master") = "master"
    /\ Role(pc, "pci_host") = "slave"
    /\ Role(pc, "pio") = "slave"
    /\ Role(sequencer(i), "master") = "master"
    /\ Role(sequencer(i), "slave") = "slave"
    /\ Role(simplecache, "cpu_side") = "slave"
    /\ Role(simplecache, "mem_side") = "master"
    /\ Role(sys_port_proxy, "slave") = "slave"
    /\ Role(system, "system_port") = "master"
    /\ Role(tester, "cpuInstDataPort") = "master"
<1> TAKE i
<1> USE DEF Role, MasterPorts, KindOf, KindNamed
<1>2. /\ Role(apicbridge, "master") = "master"
      /\ Role(apicbridge, "slave") = "slave"
  BY DEF apicbridge
<1>3. /\ Role(badaddr_responder, "pio") = "slave"
  BY DEF badaddr_responder
<1>4. /\ Role(bridge, "master") = "master"
      /\ Role(bridge, "slave") = "slave"
  BY DEF bridge
<1>5. /\ Role(cpu(i), "dcache_port") = "master"
      /\ Role(cpu(i), "dtb.walker.port") = "master"
      /\ Role(cpu(i), "icache_port") = "master"
      /\ Role(cpu(i), "itb.walker.port") = "master"
  BY DEF cpu
<1>6. /\ Role(dcache(i), "cpu_side") = "slave"
      /\ Role(dcache(i), "mem_side") = "master"
  BY DEF dcache
<1>7. /\ Role(dir, "dmaRequestToDir") = "slave"
      /\ Role(dir, "dmaResponseFromDir") = "master"
      /\ Role(dir, "forwardFromDir") = "master"
      /\ Role(dir, "forwardToCache") = "master"
      /\ Role(dir, "memory") = "master"
      /\ Role(dir, "requestFromCache") = "slave"
      /\ Role(dir, "requestToDir") = "slave"
      /\ Role(dir, "responseFromCache") = "slave"
      /\ Role(dir, "responseFromDir") = "master"
      /\ Role(dir, "responseToCache") = "master"
  BY DEF dir
<1>8. /\ Role(icache(i), "cpu_side") = "slave"
      /\ Role(icache(i), "mem_side") = "master"
  BY DEF icache
<1>9. /\ Role(interrupts(i), "int_master") = "master"
      /\ Role(interrupts(i), "int_slave") = "slave"
      /\ Role(interrupts(i), "pio") = "slave"
  BY DEF interrupts
<1>10. /\ Role(iobus, "default") = "master"
       /\ Role(iobus, "master") = "master"
       /\ Role(iobus, "slave") = "slave"
  BY DEF iobus
<1>11. /\ Role(iocache, "cpu_side") = "slave"
       /\ Role(iocache, "mem_side") = "master"
  BY DEF iocache
<1>12. /\ Role(l1(i), "forwardFromDir") = "slave"
       /\ Role(l1(i), "forwardToCache") = "slave"
       /\ Role(l1(i), "requestFromCache") = "master"
       /\ Role(l1(i), "requestToDir") = "master"
       /\ Role(l1(i), "responseFromCache") = "master"
       /\ Role(l1(i), "responseFromDirOrSibling") = "slave"
       /\ Role(l1(i), "responseToCache") = "slave"
       /\ Role(l1(i), "responseToDirOrSibling") = "master"
  BY DEF l1
<1>13. /\ Role(l2bus, "master") = "master"
       /\ Role(l2bus, "slave") = "slave"
  BY DEF l2bus
<1>14. /\ Role(l2cache, "cpu_side") = "slave"
       /\ Role(l2cache, "mem_side") = "master"
  BY DEF l2cache
<1>15. /\ Role(mem_ctrl(i), "port") = "slave"
  BY DEF mem_ctrl
<1>16. /\ Role(membus, "default") = "master"
       /\ Role(membus, "master") = "master"
       /\ Role(membus, "slave") = "slave"
  BY DEF membus
<1>17. /\ Role(memobj, "data_port") = "slave"
       /\ Role(memobj, "inst_port") = "slave"
       /\ Role(memobj, "mem_side") = "master"
  BY DEF memobj
<1>18. /\ Role(network, "master") = "master"
       /\ Role(network, "slave") = "slave"
  BY DEF network
<1>19. /\ Role(pc, "dma") = "master"
       /\ Role(pc, "int_master") = "master"
       /\ Role(pc, "pci_host") = "slave"
       /\ Role(pc, "pio") = "slave"
  BY DEF pc
<1>20. /\ Role(sequencer(i), "master") = "master"
       /\ Role(sequencer(i), "slave") = "slave"
  BY DEF sequencer
<1>21. /\ Role(simplecache, "cpu_side") = "slave"
       /\ Role(simplecache, "mem_side") = "master"
  BY DEF simplecache
<1>22. /\ Role(sys_port_proxy, "slave") = "slave"
  BY DEF sys_port_proxy
<1>23. /\ Role(system, "system_port") = "master"
  BY DEF system
<1>24. /\ Role(tester, "cpuInstDataPort") = "master"
  BY DEF tester
<1> QED
  BY <1>2, <1>3, <1>4, <1>5, <1>6, <1>7, <1>8, <1>9, <1>10, <1>11, <1>12, <1>13, <1>14, <1>15,
     <1>16, <1>17, <1>18, <1>19, <1>20, <1>21, <1>22, <1>23, <1>24, ZenonT(60)

(* A local APIC's three connections with membus are in the table.          *)
LEMMA InterruptsConnect ==
  ASSUME build \in Builds, NEW W, NEW i,
         CommonWires(i) \subseteq W
  PROVE  Connects(interruptsSet(i), W)
<1>1. /\ wire(membus, "master", interrupts(i), "pio") \in W
      /\ wire(interrupts(i), "int_master", membus, "slave") \in W
      /\ wire(membus, "master", interrupts(i), "int_slave") \in W
  BY DEF CommonWires
<1>2. Connects(bind(interrupts(i), "pio", membus, "master"), W)
  BY <1>1, PortRoles, BindWires
<1>3. Connects(bind(interrupts(i), "int_master", membus, "slave"), W)
  BY <1>1, PortRoles, BindWires
<1>4. Connects(bind(interrupts(i), "int_slave", membus, "master"), W)
  BY <1>1, PortRoles, BindWires
<1> QED
  BY <1>2, <1>3, <1>4, NoWires DEF Connects, interruptsSet

(* The memory controller's is.                                             *)
LEMMA MemoryConnects ==
  ASSUME build \in Builds, NEW W, NEW i,
         CommonWires(i) \subseteq W
  PROVE  Connects(memorySet, W)
<1>1. /\ wire(membus, "master", mem_ctrl(0), "port") \in W
  BY DEF CommonWires
<1>2. Connects(bind(mem_ctrl(0), "port", membus, "master"), W)
  BY <1>1, PortRoles, BindWires
<1> QED
  BY <1>2, NoWires DEF Connects, memorySet

(* The system port's is.                                                   *)
LEMMA SystemPortConnects ==
  ASSUME build \in Builds, NEW W, NEW i,
         CommonWires(i) \subseteq W
  PROVE  Connects(systemPortSet, W)
<1>1. /\ wire(system, "system_port", membus, "slave") \in W
  BY DEF CommonWires
<1>2. Connects(bind(system, "system_port", membus, "slave"), W)
  BY <1>1, PortRoles, BindWires
<1> QED
  BY <1>2, NoWires DEF Connects, systemPortSet

(* The connections of a CPU with its L1 caches are.                        *)
LEMMA CachesConnect ==
  ASSUME build \in Builds, NEW W, NEW i,
         L1Wires(i) \subseteq W
  PROVE  Connects(cachesSet(i), W)
<1>1. /\ wire(cpu(i), "icache_port", icache(i), "cpu_side") \in W
      /\ wire(cpu(i), "dcache_port", dcache(i), "cpu_side") \in W
  BY DEF L1Wires
<1>2. Connects(bind(icache(i), "cpu_side", cpu(i), "icache_port"), W)
  BY <1>1, PortRoles, BindWires
<1>3. Connects(bind(dcache(i), "cpu_side", cpu(i), "dcache_port"), W)
  BY <1>1, PortRoles, BindWires
<1> QED
  BY <1>2, <1>3, NoWires DEF Connects, cachesSet

(* All connections of simple.py are in the table,                          *)
LEMMA SimpleConnects ==
  ASSUME build \in Builds, NEW W,
         CommonWires(0) \subseteq W, UncachedWires \subseteq W
  PROVE  Connects(simpleSet, W)
<1>1. /\ wire(cpu(0), "icache_port", membus, "slave") \in W
      /\ wire(cpu(0), "dcache_port", membus, "slave") \in W
  BY DEF UncachedWires
<1>2. Connects(bind(cpu(0), "icache_port", membus, "slave"), W)
  BY <1>1, PortRoles, BindWires
<1>3. Connects(bind(cpu(0), "dcache_port", membus, "slave"), W)
  BY <1>1, PortRoles, BindWires
<1>4. Connects(interruptsSet(0), W)
  BY InterruptsConnect
<1>5. Connects(memorySet, W)
  BY MemoryConnects
<1>6. Connects(systemPortSet, W)
  BY SystemPortConnects
<1> QED
  BY <1>2, <1>3, <1>4, <1>5, <1>6, NoWires DEF Connects, simpleSet

(* those of simple_memobj.py,                                              *)
LEMMA SimpleMemobjConnects ==
  ASSUME build \in Builds, NEW W,
         CommonWires(0) \subseteq W, UncachedWires \subseteq W
  PROVE  Connects(simpleMemobjSet, W)
<1>1. /\ wire(cpu(0), "icache_port", memobj, "inst_port") \in W
      /\ wire(cpu(0), "dcache_port", memobj, "data_port") \in W
      /\ wire(memobj, "mem_side", membus, "slave") \in W
  BY DEF UncachedWires
<1>2. Connects(bind(cpu(0), "icache_port", memobj, "inst_port"), W)
  BY <1>1, PortRoles, BindWires
<1>3. Connects(bind(cpu(0), "dcache_port", memobj, "data_port"), W)
  BY <1>1, PortRoles, BindWires
<1>4. Connects(bind(memobj, "mem_side", membus, "slave"), W)
  BY <1>1, PortRoles, BindWires
<1>5. Connects(interruptsSet(0), W)
  BY InterruptsConnect
<1>6. Connects(memorySet, W)
  BY MemoryConnects
<1>7. Connects(systemPortSet, W)
  BY SystemPortConnects
<1> QED
  BY <1>2, <1>3, <1>4, <1>5, <1>6, <1>7, NoWires DEF Connects, simpleMemobjSet

(* those of simple_cache.py,                                               *)
LEMMA SimpleCacheConnects ==
  ASSUME build \in Builds, NEW W,
         CommonWires(0) \subseteq W, UncachedWires \subseteq W
  PROVE  Connects(simpleCacheSet, W)
<1>1. /\ wire(cpu(0), "icache_port", simplecache, "cpu_side") \in W
      /\ wire(cpu(0), "dcache_port", simplecache, "cpu_side") \in W
      /\ wire(simplecache, "mem_side", membus, "slave") \in W
  BY DEF UncachedWires
<1>2. Connects(bind(cpu(0), "icache_port", simplecache, "cpu_side"), W)
  BY <1>1, PortRoles, BindWires
<1>3. Connects(bind(cpu(0), "dcache_port", simplecache, "cpu_side"), W)
  BY <1>1, PortRoles, BindWires
<1>4. Connects(bind(simplecache, "mem_side", membus, "slave"), W)
  BY <1>1, PortRoles, BindWires
<1>5. Connects(interruptsSet(0), W)
  BY InterruptsConnect
<1>6. Connects(memorySet, W)
  BY MemoryConnects
<1>7. Connects(systemPortSet, W)
  BY SystemPortConnects
<1> QED
  BY <1>2, <1>3, <1>4, <1>5, <1>6, <1>7, NoWires DEF Connects, simpleCacheSet

(* those of two_level.py.                                                  *)
LEMMA TwoLevelConnects ==
  ASSUME build \in Builds, NEW W,
         CommonWires(0) \subseteq W, L1Wires(0) \subseteq W, TwoLevelWires \subseteq W
  PROVE  Connects(twoLevelSet, W)
<1>1. /\ wire(icache(0), "mem_side", l2bus, "slave") \in W
      /\ wire(dcache(0), "mem_side", l2bus, "slave") \in W
      /\ wire(l2bus, "master", l2cache, "cpu_side") \in W
      /\ wire(l2cache, "mem_side", membus, "slave") \in W
  BY DEF TwoLevelWires
<1>2. Connects(bind(icache(0), "mem_side", l2bus, "slave"), W)
  BY <1>1, PortRoles, BindWires
<1>3. Connects(bind(dcache(0), "mem_side", l2bus, "slave"), W)
  BY <1>1, PortRoles, BindWires
<1>4. Connects(bind(l2cache, "cpu_side", l2bus, "master"), W)
  BY <1>1, PortRoles, BindWires
<1>5. Connects(bind(l2cache, "mem_side", membus, "slave"), W)
  BY <1>1, PortRoles, BindWires
<1>6. Connects(cachesSet(0), W)
  BY CachesConnect
<1>7. Connects(interruptsSet(0), W)
  BY InterruptsConnect
<1>8. Connects(systemPortSet, W)
  BY SystemPortConnects
<1>9. Connects(memorySet, W)
  BY MemoryConnects
<1> QED
  BY <1>2, <1>3, <1>4, <1>5, <1>6, <1>7, <1>8, <1>9, NoWires DEF Connects, twoLevelSet

(* The connections of the PC platform with the I/O bus are in the table,   *)
LEMMA AttachConnects ==
  ASSUME build \in Builds, NEW W,
         PlatformWires \subseteq W
  PROVE  Connects(attachSet, W)
<1>1. /\ wire(iobus, "master", pc, "pio") \in W
      /\ wire(iobus, "default", pc, "pci_host") \in W
      /\ wire(pc, "dma", iobus, "slave") \in W
      /\ wire(pc, "int_master", iobus, "slave") \in W
  BY DEF PlatformWires
<1>2. Connects(bind(pc, "pio", iobus, "master"), W)
  BY <1>1, PortRoles, BindWires
<1>3. Connects(bind(pc, "pci_host", iobus, "default"), W)
  BY <1>1, PortRoles, BindWires
<1>4. Connects(bind(pc, "dma", iobus, "slave"), W)
  BY <1>1, PortRoles, BindWires
<1>5. Connects(bind(pc, "int_master", iobus, "slave"), W)
  BY <1>1, PortRoles, BindWires
<1> QED
  BY <1>2, <1>3, <1>4, <1>5, NoWires DEF Connects, attachSet

(* those of the bridges and the I/O cache,                                 *)
LEMMA InitFsConnects ==
  ASSUME build \in Builds, NEW W,
         PlatformWires \subseteq W
  PROVE  Connects(initFsSet, W)
<1>1. /\ wire(bridge, "master", iobus, "slave") \in W
      /\ wire(membus, "master", bridge, "slave") \in W
      /\ wire(iobus, "master", apicbridge, "slave") \in W
      /\ wire(apicbridge, "master", membus, "slave") \in W
      /\ wire(iobus, "master", iocache, "cpu_side") \in W
      /\ wire(iocache, "mem_side", membus, "slave") \in W
  BY DEF PlatformWires
<1>2. Connects(bind(bridge, "master", iobus, "slave"), W)
  BY <1>1, PortRoles, BindWires
<1>3. Connects(bind(bridge, "slave", membus, "master"), W)
  BY <1>1, PortRoles, BindWires
<1>4. Connects(bind(apicbridge, "slave", iobus, "master"), W)
  BY <1>1, PortRoles, BindWires
<1>5. Connects(bind(apicbridge, "master", membus, "slave"), W)
  BY <1>1, PortRoles, BindWires
<1>6. Connects(bind(iocache, "cpu_side", iobus, "master"), W)
  BY <1>1, PortRoles, BindWires
<1>7. Connects(bind(iocache, "mem_side", membus, "slave"), W)
  BY <1>1, PortRoles, BindWires
<1>8. Connects(attachSet, W)
  BY AttachConnects
<1> QED
  BY <1>2, <1>3, <1>4, <1>5, <1>6, <1>7, <1>8, NoWires DEF Connects, initFsSet

(* those of a CPU's caches and page table walkers with membus.             *)
LEMMA HierarchyConnects ==
  ASSUME build \in Builds, NEW W, NEW i,
         L1Wires(i) \subseteq W, HierarchyWires(i) \subseteq W
  PROVE  Connects(hierarchySet(i), W)
<1>1. /\ wire(icache(i), "mem_side", membus, "slave") \in W
      /\ wire(dcache(i), "mem_side", membus, "slave") \in W
      /\ wire(cpu(i), "itb.walker.port", membus, "slave") \in W
      /\ wire(cpu(i), "dtb.walker.port", membus, "slave") \in W
  BY DEF HierarchyWires
<1>2. Connects(bind(icache(i), "mem_side", membus, "slave"), W)
  BY <1>1, PortRoles, BindWires
<1>3. Connects(bind(dcache(i), "mem_side", membus, "slave"), W)
  BY <1>1, PortRoles, BindWires
<1>4. Connects(bind(cpu(i), "itb.walker.port", membus, "slave"), W)
  BY <1>1, PortRoles, BindWires
<1>5. Connects(bind(cpu(i), "dtb.walker.port", membus, "slave"), W)
  BY <1>1, PortRoles, BindWires
<1>6. Connects(cachesSet(i), W)
  BY CachesConnect
<1> QED
  BY <1>2, <1>3, <1>4, <1>5, <1>6, NoWires DEF Connects, hierarchySet

(* An MSI L1 controller is connected with the network only,                *)
LEMMA MSICacheConnects ==
  ASSUME build \in Builds, NEW W, NEW p, NEW i,
         NetworkWires(l1(i)) \subseteq W
  PROVE  Connects(msiL1Set(p, i), W)
<1>1. /\ wire(l1(i), "requestToDir", network, "slave") \in W
      /\ wire(l1(i), "responseToDirOrSibling", network, "slave") \in W
      /\ wire(network, "master", l1(i), "forwardFromDir") \in W
      /\ wire(network, "master", l1(i), "responseFromDirOrSibling") \in W
  BY DEF NetworkWires, BufferNames
<1>2. Connects(toNetwork(l1(i), "requestToDir"), W)
  BY <1>1, PortRoles, BindWires DEF toNetwork
<1>3. Connects(toNetwork(l1(i), "responseToDirOrSibling"), W)
  BY <1>1, PortRoles, BindWires DEF toNetwork
<1>4. Connects(fromNetwork(l1(i), "forwardFromDir"), W)
  BY <1>1, PortRoles, BindWires DEF fromNetwork
<1>5. Connects(fromNetwork(l1(i), "responseFromDirOrSibling"), W)
  BY <1>1, PortRoles, BindWires DEF fromNetwork
<1> QED
  BY <1>2, <1>3, <1>4, <1>5, NoWires DEF Connects, msiL1Set

(* an MI_example one too,                                                  *)
LEMMA MICacheConnects ==
  ASSUME build \in Builds, NEW W, NEW p, NEW i,
         NetworkWires(l1(i)) \subseteq W
  PROVE  Connects(miL1Set(p, i), W)
<1>1. /\ wire(l1(i), "requestFromCache", network, "slave") \in W
      /\ wire(l1(i), "responseFromCache", network, "slave") \in W
      /\ wire(network, "master", l1(i), "forwardToCache") \in W
      /\ wire(network, "master", l1(i), "responseToCache") \in W
  BY DEF NetworkWires, BufferNames
<1>2. Connects(toNetwork(l1(i), "requestFromCache"), W)
  BY <1>1, PortRoles, BindWires DEF toNetwork
<1>3. Connects(toNetwork(l1(i), "responseFromCache"), W)
  BY <1>1, PortRoles, BindWires DEF toNetwork
<1>4. Connects(fromNetwork(l1(i), "forwardToCache"), W)
  BY <1>1, PortRoles, BindWires DEF fromNetwork
<1>5. Connects(fromNetwork(l1(i), "responseToCache"), W)
  BY <1>1, PortRoles, BindWires DEF fromNetwork
<1> QED
  BY <1>2, <1>3, <1>4, <1>5, NoWires DEF Connects, miL1Set

(* the directory of MSI with the network and the memory controller,        *)
LEMMA MSIDirConnects ==
  ASSUME build \in Builds, NEW W, NEW p,
         NetworkWires(dir) \subseteq W, wire(dir, "memory", mem_ctrl(0), "port") \in W
  PROVE  Connects(msiDirSet(p), W)
<1>1. /\ wire(dir, "memory", mem_ctrl(0), "port") \in W
      /\ wire(network, "master", dir, "requestFromCache") \in W
      /\ wire(network, "master", dir, "responseFromCache") \in W
      /\ wire(dir, "responseToCache", network, "slave") \in W
      /\ wire(dir, "forwardToCache", network, "slave") \in W
  BY DEF NetworkWires, BufferNames
<1>2. Connects(bind(dir, "memory", mem_ctrl(0), "port"), W)
  BY <1>1, PortRoles, BindWires
<1>3. Connects(fromNetwork(dir, "requestFromCache"), W)
  BY <1>1, PortRoles, BindWires DEF fromNetwork
<1>4. Connects(fromNetwork(dir, "responseFromCache"), W)
  BY <1>1, PortRoles, BindWires DEF fromNetwork
<1>5. Connects(toNetwork(dir, "responseToCache"), W)
  BY <1>1, PortRoles, BindWires DEF toNetwork
<1>6. Connects(toNetwork(dir, "forwardToCache"), W)
  BY <1>1, PortRoles, BindWires DEF toNetwork
<1> QED
  BY <1>2, <1>3, <1>4, <1>5, <1>6, NoWires DEF Connects, msiDirSet

(* that of MI_example too.                                                 *)
LEMMA MIDirConnects ==
  ASSUME build \in Builds, NEW W, NEW p,
         NetworkWires(dir) \subseteq W, wire(dir, "memory", mem_ctrl(0), "port") \in W
  PROVE  Connects(miDirSet(p), W)
<1>1. /\ wire(dir, "memory", mem_ctrl(0), "port") \in W
      /\ wire(network, "master", dir, "requestToDir") \in W
      /\ wire(network, "master", dir, "dmaRequestToDir") \in W
      /\ wire(dir, "responseFromDir", network, "slave") \in W
      /\ wire(dir, "dmaResponseFromDir", network, "slave") \in W
      /\ wire(dir, "forwardFromDir", network, "slave") \in W
  BY DEF NetworkWires, BufferNames
<1>2. Connects(bind(dir, "memory", mem_ctrl(0), "port"), W)
  BY <1>1, PortRoles, BindWires
<1>3. Connects(fromNetwork(dir, "requestToDir"), W)
  BY <1>1, PortRoles, BindWires DEF fromNetwork
<1>4. Connects(fromNetwork(dir, "dmaRequestToDir"), W)
  BY <1>1, PortRoles, BindWires DEF fromNetwork
<1>5. Connects(toNetwork(dir, "responseFromDir"), W)
  BY <1>1, PortRoles, BindWires DEF toNetwork
<1>6. Connects(toNetwork(dir, "dmaResponseFromDir"), W)
  BY <1>1, PortRoles, BindWires DEF toNetwork
<1>7. Connects(toNetwork(dir, "forwardFromDir"), W)
  BY <1>1, PortRoles, BindWires DEF toNetwork
<1> QED
  BY <1>2, <1>3, <1>4, <1>5, <1>6, <1>7, NoWires DEF Connects, miDirSet

(* A local APIC of a Ruby system is connected with its CPU's sequencer,    *)
LEMMA InterruptPortsConnect ==
  ASSUME build \in Builds, NEW W, NEW i,
         RubyWires(i) \subseteq W
  PROVE  Connects(interruptPortsSet(i), W)
<1>1. /\ wire(sequencer(i), "master", interrupts(i), "pio") \in W
      /\ wire(interrupts(i), "int_master", sequencer(i), "slave") \in W
      /\ wire(sequencer(i), "master", interrupts(i), "int_slave") \in W
  BY DEF RubyWires
<1>2. Connects(bind(interrupts(i), "pio", sequencer(i), "master"), W)
  BY <1>1, PortRoles, BindWires
<1>3. Connects(bind(interrupts(i), "int_master", sequencer(i), "slave"), W)
  BY <1>1, PortRoles, BindWires
<1>4. Connects(bind(interrupts(i), "int_slave", sequencer(i), "master"), W)
  BY <1>1, PortRoles, BindWires
<1> QED
  BY <1>2, <1>3, <1>4, NoWires DEF Connects, interruptPortsSet

(* a CPU's page table walkers too,                                         *)
LEMMA WalkersConnect ==
  ASSUME build \in Builds, NEW W, NEW i,
         RubyWires(i) \subseteq W
  PROVE  Connects(walkersSet(i), W)
<1>1. /\ wire(cpu(i), "itb.walker.port", sequencer(i), "slave") \in W
      /\ wire(cpu(i), "dtb.walker.port", sequencer(i), "slave") \in W
  BY DEF RubyWires
<1>2. Connects(bind(cpu(i), "itb.walker.port", sequencer(i), "slave"), W)
  BY <1>1, PortRoles, BindWires
<1>3. Connects(bind(cpu(i), "dtb.walker.port", sequencer(i), "slave"), W)
  BY <1>1, PortRoles, BindWires
<1> QED
  BY <1>2, <1>3, NoWires DEF Connects, walkersSet

(* the tester with every sequencer,                                        *)
LEMMA TesterConnects ==
  ASSUME build \in Builds, NEW W, NEW i,
         RubyWires(i) \subseteq W
  PROVE  Connects(testerSet(i), W)
<1>1. /\ wire(tester, "cpuInstDataPort", sequencer(i), "slave") \in W
  BY DEF RubyWires
<1>2. Connects(bind(tester, "cpuInstDataPort", sequencer(i), "slave"), W)
  BY <1>1, PortRoles, BindWires
<1> QED
  BY <1>2, NoWires DEF Connects, testerSet

(* and the system port with the port proxy.                                *)
LEMMA ProxyConnects ==
  ASSUME build \in Builds, NEW W,
         wire(system, "system_port", sys_port_proxy, "slave") \in W
  PROVE  Connects(proxySet, W)
<1>1. /\ wire(system, "system_port", sys_port_proxy, "slave") \in W
  BY DEF RubyWires
<1>2. Connects(bind(system, "system_port", sys_port_proxy, "slave"), W)
  BY <1>1, PortRoles, BindWires
<1> QED
  BY <1>2, NoWires DEF Connects, proxySet

(* All connections of part 4's systems are in the table,                   *)
LEMMA MySystemConnects ==
  ASSUME build \in Builds, NEW n \in Nat \ {0}
  PROVE  Connects(mySystemSet(n), MySystemWires(n))
<1>1. PICK W : W = MySystemWires(n)
  OBVIOUS
<1>2. \A i \in 0..(n - 1) : /\ CommonWires(i) \subseteq W
                            /\ L1Wires(i) \subseteq W /\ HierarchyWires(i) \subseteq W
  <2>1. SUFFICES ASSUME NEW i \in 0..(n - 1),
                        NEW w \in CommonWires(i) \cup L1Wires(i) \cup HierarchyWires(i)
                 PROVE  w \in W
    OBVIOUS
  <2> QED
    BY <1>1, <2>1 DEF MySystemWires
<1>3. PlatformWires \subseteq W
  BY <1>1 DEF MySystemWires
<1>4. CommonWires(0) \subseteq W
  <2>1. 0 \in 0..(n - 1)
    OBVIOUS
  <2> QED
    BY <1>2, <2>1
<1>5. Connects(bind(membus, "default", badaddr_responder, "pio"), W)
  <2>1. wire(membus, "default", badaddr_responder, "pio") \in W
    BY <1>3 DEF PlatformWires
  <2> QED
    BY <2>1, PortRoles, BindWires
<1>6. Connects(bind(system, "system_port", membus, "slave"), W)
  BY <1>4, SystemPortConnects DEF systemPortSet
<1>7. Connects(initFsSet, W)
  BY <1>3, InitFsConnects
<1>8. Connects(cpusSet(n), W)
  BY NoWires DEF Connects, cpusSet
<1>9. Connects(hierarchiesSet(n), W)
  <2>1. \A i \in 0..(n - 1) : Connects(hierarchySet(i), W)
    BY <1>2, HierarchyConnects
  <2> QED
    BY <2>1 DEF Connects, hierarchiesSet
<1>10. Connects(memorySet, W)
  BY <1>4, MemoryConnects
<1>11. Connects(cpuInterruptsSet(n), W)
  <2>1. \A i \in 0..(n - 1) : Connects(interruptsSet(i), W)
    BY <1>2, InterruptsConnect
  <2> QED
    BY <2>1 DEF Connects, cpuInterruptsSet
<1>12. Connects(mySystemSet(n), W)
  BY <1>5, <1>6, <1>7, <1>8, <1>9, <1>10, <1>11, NoWires DEF Connects, mySystemSet
<1> QED
  BY <1>1, <1>12

(* those of part 3's,                                                      *)
LEMMA RubyConnects ==
  ASSUME build \in Builds, NEW p, p.cpus \in Nat \ {0}
  PROVE  /\ Connects(simpleRubySet(p), RubyScriptWires(p.cpus))
         /\ Connects(rubyTestSet(p), RubyScriptWires(p.cpus))
<1>1. PICK W, n : W = RubyScriptWires(p.cpus) /\ n = p.cpus
  OBVIOUS
<1>2. \A i \in 0..(n - 1) : RubyWires(i) \subseteq W /\ NetworkWires(l1(i)) \subseteq W
  <2>1. SUFFICES ASSUME NEW i \in 0..(n - 1), NEW w \in RubyWires(i) \cup NetworkWires(l1(i))
                 PROVE  w \in W
    OBVIOUS
  <2> QED
    BY <1>1, <2>1 DEF RubyScriptWires
<1>3. NetworkWires(dir) \subseteq W
  BY <1>1 DEF RubyScriptWires
<1>4. /\ wire(dir, "memory", mem_ctrl(0), "port") \in W
      /\ wire(system, "system_port", sys_port_proxy, "slave") \in W
  <2>1. 0 \in 0..(n - 1)
    BY <1>1
  <2>2. RubyWires(0) \subseteq W
    BY <1>2, <2>1
  <2> QED
    BY <2>2 DEF RubyWires
<1>5. Connects(msiDirSet(p), W) /\ Connects(miDirSet(p), W)
  BY <1>3, <1>4, MSIDirConnects, MIDirConnects
<1>6. Connects(proxySet, W)
  BY <1>4, ProxyConnects
<1>7. Connects(msiL1sSet(p), W) /\ Connects(miL1sSet(p), W)
  <2>1. \A i \in 0..(n - 1) : Connects(msiL1Set(p, i), W) /\ Connects(miL1Set(p, i), W)
    BY <1>2, MSICacheConnects, MICacheConnects
  <2> QED
    BY <1>1, <2>1 DEF Connects, msiL1sSet, miL1sSet
<1>8. Connects(allCPUPortsSet(p), W)
  <2>1. \A i \in 0..(n - 1) : /\ Connects(interruptPortsSet(i), W)
                              /\ Connects(walkersSet(i), W)
    BY <1>2, InterruptPortsConnect, WalkersConnect
  <2>2. \A i \in 0..(n - 1) : /\ Connects(bind(cpu(i), "icache_port", sequencer(i), "slave"), W)
                              /\ Connects(bind(cpu(i), "dcache_port", sequencer(i), "slave"), W)
    <3>1. \A i \in 0..(n - 1) : /\ wire(cpu(i), "icache_port", sequencer(i), "slave") \in W
                                /\ wire(cpu(i), "dcache_port", sequencer(i), "slave") \in W
      BY <1>2 DEF RubyWires
    <3> QED
      BY <3>1, PortRoles, BindWires
  <2>3. \A i \in 0..(n - 1) : Connects(cpuPortsSet(p, i), W)
    BY <2>1, <2>2 DEF Connects, cpuPortsSet
  <2> QED
    BY <1>1, <2>3 DEF Connects, allCPUPortsSet
<1>9. Connects(allTesterPortsSet(p), W)
  <2>1. \A i \in 0..(n - 1) : Connects(testerSet(i), W)
    BY <1>2, TesterConnects
  <2> QED
    BY <1>1, <2>1 DEF Connects, allTesterPortsSet
<1>10. Connects(networkSet(n), W) /\ Connects(sequencersSet(n), W)
  <2>1. Connects(routersSet(n + 1), W) /\ Connects(newSequencersSet(n), W)
    BY NoWires DEF Connects, routersSet, newSequencersSet
  <2>2. Connects(extLinksSet(n), W) /\ Connects(pointersSet(n), W)
    BY NoWires DEF Connects, extLinksSet, pointersSet
  <2>3. \A i : Connects(linksFromSet(n, i), W)
    BY NoWires DEF Connects, linksFromSet
  <2>4. Connects(intLinksSet(n), W)
    BY <2>3 DEF Connects, intLinksSet
  <2> QED
    BY <2>1, <2>2, <2>4 DEF Connects, networkSet, sequencersSet
<1>11. Connects(memCtrlsSet(p), W) /\ Connects(allInterruptsSet(p.cpus), W)
       /\ Connects(cpusSet(p.cpus), W)
  BY NoWires DEF Connects, memCtrlsSet, allInterruptsSet, cpusSet
<1>12. Connects(msiSetupSet(p), W) /\ Connects(miSetupSet(p), W) /\ Connects(testSetupSet(p), W)
  <2>1. /\ \A ok : Connects(check(ok), W)
        /\ Connects(new(network, "Network"), W)
    BY NoWires
  <2>2. Connects(msiSetupSet(p), W)
    BY <1>1, <1>5, <1>6, <1>7, <1>8, <1>10, <2>1 DEF Connects, msiSetupSet
  <2>3. Connects(miSetupSet(p), W)
    BY <1>1, <1>5, <1>6, <1>7, <1>8, <1>10, <2>1 DEF Connects, miSetupSet
  <2>4. Connects(testSetupSet(p), W)
    BY <1>1, <1>5, <1>6, <1>7, <1>9, <1>10, <2>1 DEF Connects, testSetupSet
  <2> QED
    BY <2>2, <2>3, <2>4
<1>13. Connects(simpleRubySet(p), W)
  BY <1>11, <1>12, NoWires DEF Connects, simpleRubySet
<1>14. Connects(rubyTestSet(p), W)
  BY <1>11, <1>12, NoWires DEF Connects, rubyTestSet
<1> QED
  BY <1>1, <1>13, <1>14

(* (The scripts that are built.)                                           *)
LEMMA AllScripts ==
  ASSUME NEW b \in Builds
  PROVE  b.script \in {"simple", "two_level", "two_level_opts", "simple_memobj", "simple_cache",
                       "x86", "x86_mp", "simple_ruby", "ruby_test"}
  BY BuildsAreRecords DEF OneCPUScripts

(* and so those of every build.                                            *)
LEMMA ScriptConnects ==
  ASSUME build \in Builds
  PROVE  Connects(StatementsOf(build), WiresOf(build))
<1>1. PICK b : b = build
  OBVIOUS
<1>2. b \in Builds /\ b.cpus \in Nat \ {0}
  BY <1>1, BuildsAreRecords
<1>3. Connects(mySystemSet(b.cpus), MySystemWires(b.cpus))
  BY <1>2, MySystemConnects
<1>4. /\ Connects(simpleRubySet(b), RubyScriptWires(b.cpus))
      /\ Connects(rubyTestSet(b), RubyScriptWires(b.cpus))
  BY <1>2, RubyConnects
<1>5. /\ Connects(simpleSet, UncachedScriptWires)
      /\ Connects(simpleMemobjSet, UncachedScriptWires)
      /\ Connects(simpleCacheSet, UncachedScriptWires)
  BY SimpleConnects, SimpleMemobjConnects, SimpleCacheConnects DEF UncachedScriptWires
<1>6. Connects(twoLevelSet, TwoLevelScriptWires)
  BY TwoLevelConnects DEF TwoLevelScriptWires
<1>7. Connects(StatementsOf(b), WiresOf(b))
  BY <1>2, <1>3, <1>4, <1>5, <1>6, AllScripts DEF StatementsOf, WiresOf
<1> QED
  BY <1>1, <1>7

(* Nothing is connected but what the script's table says.                  *)
LEMMA WireTable ==
  ASSUME ConfigInv
  PROVE  wires \subseteq WiresOf(build)
<1>1. SUFFICES ASSUME NEW w \in wires
               PROVE  w \in WiresOf(build)
  OBVIOUS
<1>2. PICK st \in StatementsOf(build) : st.op = "bind" /\ Wire(st, w)
  BY <1>1 DEF ConfigInv, WiresKnown, Wire
<1> QED
  BY <1>2, ScriptConnects DEF ConfigInv, Connects

-----------------------------------------------------------------------------
(* The links that the scripts make, and the caches.                        *)

(* The links of a Ruby system.                                             *)
RubyLinks(n) ==
  {<<node(n, i), router(i)>> : i \in 0..n} \cup {<<router(i), node(n, i)>> : i \in 0..n}
    \cup {<<sequencer(i), l1(i)>> : i \in 0..(n - 1)}
    \cup {<<l1(i), sequencer(i)>> : i \in 0..(n - 1)}
    \cup UNION {{<<router(i), router(j)>> : j \in (0..n) \ {i}} : i \in 0..n}

(* The caches of a classic system.                                         *)
CachesOf(b) ==
  CASE b.script \in {"two_level", "two_level_opts"} -> {icache(0), dcache(0), l2cache}
    [] b.script \in {"x86", "x86_mp"} ->
         {iocache} \cup {icache(i) : i \in 0..(b.cpus - 1)}
                   \cup {dcache(i) : i \in 0..(b.cpus - 1)}
    [] OTHER -> {}

(* The statements of S make no link but those of L, and no cache but those *)
(* of M.                                                                   *)
Links(S, L) == \A st \in S : st.op = "link" => <<st.from, st.to>> \in L
MakesCaches(S, M) == \A st \in S : Makes(st) /\ KindOf(st.obj) = "Cache" => st.obj \in M

(* Only a link statement makes links.                                      *)
LEMMA NoLinks ==
  /\ \A o, c, L : Links(new(o, c), L)
  /\ \A o, c, L : Links(controller(o, c), L)
  /\ \A ok, L : Links(check(ok), L)
  /\ \A o, p, q, r, L : Links(bind(o, p, q, r), L)
  /\ \A L : Links(instantiate, L)
  BY DEF Links, new, controller, check, bind, instantiate

(* The systems of parts 1, 2 and 4 have no links.                          *)
LEMMA ClassicLinks ==
  ASSUME NEW L
  PROVE  /\ Links(simpleSet, L) /\ Links(twoLevelSet, L)
         /\ Links(simpleMemobjSet, L) /\ Links(simpleCacheSet, L)
         /\ \A n : Links(mySystemSet(n), L)
<1> USE NoLinks DEF Links
<1>1. \A i : /\ Links(interruptsSet(i), L) /\ Links(memorySet, L)
             /\ Links(systemPortSet, L) /\ Links(cachesSet(i), L)
  BY DEF interruptsSet, memorySet, systemPortSet, cachesSet
<1>2. Links(initFsSet, L)
  BY DEF initFsSet, attachSet
<1>3. \A i : Links(hierarchySet(i), L)
  BY <1>1 DEF hierarchySet
<1>4. \A n : /\ Links(cpusSet(n), L) /\ Links(hierarchiesSet(n), L)
             /\ Links(cpuInterruptsSet(n), L)
  BY <1>1, <1>3 DEF cpusSet, hierarchiesSet, cpuInterruptsSet
<1>5. \A n : Links(mySystemSet(n), L)
  BY <1>1, <1>2, <1>4 DEF mySystemSet
<1>6. Links(simpleSet, L)
  BY <1>1 DEF simpleSet
<1>7. Links(twoLevelSet, L)
  BY <1>1 DEF twoLevelSet
<1>8. Links(simpleMemobjSet, L)
  BY <1>1 DEF simpleMemobjSet
<1>9. Links(simpleCacheSet, L)
  BY <1>1 DEF simpleCacheSet
<1> QED
  BY <1>5, <1>6, <1>7, <1>8, <1>9

(* The links of the network and of the sequencers are in the table,        *)
LEMMA NetworkLinks ==
  ASSUME NEW n \in Nat
  PROVE  Links(networkSet(n), RubyLinks(n)) /\ Links(sequencersSet(n), RubyLinks(n))
<1>1. PICK L : L = RubyLinks(n)
  OBVIOUS
<1>2. /\ \A i \in 0..n : <<node(n, i), router(i)>> \in L /\ <<router(i), node(n, i)>> \in L
      /\ \A i, j \in 0..n : i # j => <<router(i), router(j)>> \in L
      /\ \A i \in 0..(n - 1) : <<sequencer(i), l1(i)>> \in L /\ <<l1(i), sequencer(i)>> \in L
  <2>1. \A i \in 0..n : <<node(n, i), router(i)>> \in L
    BY <1>1 DEF RubyLinks
  <2>2. \A i \in 0..n : <<router(i), node(n, i)>> \in L
    BY <1>1 DEF RubyLinks
  <2>3. \A i, j \in 0..n : i # j => <<router(i), router(j)>> \in L
    BY <1>1 DEF RubyLinks
  <2>4. \A i \in 0..(n - 1) : <<sequencer(i), l1(i)>> \in L
    BY <1>1 DEF RubyLinks
  <2>5. \A i \in 0..(n - 1) : <<l1(i), sequencer(i)>> \in L
    BY <1>1 DEF RubyLinks
  <2> QED
    BY <2>1, <2>2, <2>3, <2>4, <2>5
<1>3. \A a, b : <<a, b>> \in L => Links(link(a, b), L)
  BY DEF Links, link
<1>4. Links(routersSet(n + 1), L) /\ Links(newSequencersSet(n), L)
  BY NoLinks DEF Links, routersSet, newSequencersSet
<1>5. Links(extLinksSet(n), L)
  BY <1>2, <1>3 DEF Links, extLinksSet
<1>6. \A i \in 0..n : Links(linksFromSet(n, i), L)
  BY <1>2, <1>3 DEF Links, linksFromSet
<1>7. Links(intLinksSet(n), L)
  BY <1>6 DEF Links, intLinksSet
<1>8. \A i \in 0..(n - 1) : node(n, i) = l1(i)
  BY DEF node
<1>9. Links(pointersSet(n), L)
  BY <1>2, <1>3, <1>8 DEF Links, pointersSet
<1>10. Links(networkSet(n), L) /\ Links(sequencersSet(n), L)
  BY <1>4, <1>5, <1>7, <1>9 DEF Links, networkSet, sequencersSet
<1> QED
  BY <1>1, <1>10

(* and so are all of a Ruby system.                                        *)
LEMMA RubyLink ==
  ASSUME NEW p, p.cpus \in Nat
  PROVE  Links(simpleRubySet(p), RubyLinks(p.cpus)) /\ Links(rubyTestSet(p), RubyLinks(p.cpus))
<1>1. PICK L : L = RubyLinks(p.cpus)
  OBVIOUS
<1>2. Links(networkSet(p.cpus), L) /\ Links(sequencersSet(p.cpus), L)
  BY <1>1, NetworkLinks
<1> USE NoLinks DEF Links
<1>3. Links(msiDirSet(p), L) /\ Links(miDirSet(p), L)
  BY DEF msiDirSet, miDirSet, toNetwork, fromNetwork
<1>4. \A i : Links(msiL1Set(p, i), L) /\ Links(miL1Set(p, i), L)
  BY DEF msiL1Set, miL1Set, toNetwork, fromNetwork
<1>5. Links(msiL1sSet(p), L) /\ Links(miL1sSet(p), L)
  BY <1>4 DEF msiL1sSet, miL1sSet
<1>6. \A i : Links(cpuPortsSet(p, i), L) /\ Links(testerSet(i), L)
  BY DEF cpuPortsSet, interruptPortsSet, walkersSet, testerSet
<1>7. Links(allCPUPortsSet(p), L) /\ Links(allTesterPortsSet(p), L)
  BY <1>6 DEF allCPUPortsSet, allTesterPortsSet
<1>8. Links(memCtrlsSet(p), L) /\ Links(allInterruptsSet(p.cpus), L) /\ Links(cpusSet(p.cpus), L)
      /\ Links(proxySet, L)
  BY DEF memCtrlsSet, allInterruptsSet, cpusSet, proxySet
<1>9. Links(msiSetupSet(p), L)
  BY <1>2, <1>3, <1>5, <1>7, <1>8 DEF msiSetupSet
<1>10. Links(miSetupSet(p), L)
  BY <1>2, <1>3, <1>5, <1>7, <1>8 DEF miSetupSet
<1>11. Links(testSetupSet(p), L)
  BY <1>2, <1>3, <1>5, <1>7, <1>8 DEF testSetupSet
<1>12. Links(simpleRubySet(p), L)
  BY <1>8, <1>9, <1>10 DEF simpleRubySet
<1>13. Links(rubyTestSet(p), L)
  BY <1>8, <1>11 DEF rubyTestSet
<1> QED
  BY <1>1, <1>12, <1>13

(* Nothing is linked but what the table says.                              *)
LEMMA LinkTable ==
  ASSUME ConfigInv
  PROVE  links \subseteq (IF Ruby THEN RubyLinks(build.cpus) ELSE {})
<1>1. PICK b : b = build
  OBVIOUS
<1>2. b \in Builds /\ b.cpus \in Nat
  BY <1>1, BuildsAreRecords DEF ConfigInv
<1>3. Links(StatementsOf(b), IF b.script \in {"simple_ruby", "ruby_test"}
                             THEN RubyLinks(b.cpus) ELSE {})
  BY <1>2, RubyLink, ClassicLinks, AllScripts DEF StatementsOf
<1> QED
  BY <1>1, <1>3 DEF ConfigInv, LinksKnown, Links, Ruby

(* A classic script makes no caches but those of CachesOf,                 *)
LEMMA ScriptCaches ==
  ASSUME NEW b \in Builds
  PROVE  b.script \notin {"simple_ruby", "ruby_test"} =>
           MakesCaches(StatementsOf(b), CachesOf(b))
<1>1. \A o, c, M : KindOf(o) # "Cache" => MakesCaches(new(o, c), M)
  BY DEF MakesCaches, new
<1>2. \A o, c, M : o \in M => MakesCaches(new(o, c), M)
  BY DEF MakesCaches, new
<1>3. \A o, p, q, r, M : MakesCaches(bind(o, p, q, r), M)
  BY DEF MakesCaches, bind, Makes
<1>4. \A M : MakesCaches(instantiate, M)
  BY DEF MakesCaches, instantiate, Makes
<1>5. \A i : /\ KindOf(system) # "Cache" /\ KindOf(cpu(i)) # "Cache"
             /\ KindOf(membus) # "Cache" /\ KindOf(mem_ctrl(i)) # "Cache"
             /\ KindOf(interrupts(i)) # "Cache" /\ KindOf(l2bus) # "Cache"
             /\ KindOf(memobj) # "Cache" /\ KindOf(simplecache) # "Cache"
             /\ KindOf(badaddr_responder) # "Cache" /\ KindOf(pc) # "Cache"
             /\ KindOf(iobus) # "Cache" /\ KindOf(bridge) # "Cache"
             /\ KindOf(apicbridge) # "Cache"
  BY DEF KindOf, KindNamed, system, cpu, membus, mem_ctrl, interrupts, l2bus, memobj,
         simplecache, badaddr_responder, pc, iobus, bridge, apicbridge
<1>6. \A i, M : /\ MakesCaches(interruptsSet(i), M) /\ MakesCaches(memorySet, M)
                /\ MakesCaches(systemPortSet, M)
  BY <1>1, <1>3, <1>5 DEF MakesCaches, interruptsSet, memorySet, systemPortSet
<1>7. \A i, M : icache(i) \in M /\ dcache(i) \in M => MakesCaches(cachesSet(i), M)
  BY <1>2, <1>3 DEF MakesCaches, cachesSet
<1>8. \A M : MakesCaches(simpleSet, M)
  BY <1>1, <1>3, <1>4, <1>5, <1>6 DEF MakesCaches, simpleSet
<1>9. \A M : MakesCaches(simpleMemobjSet, M)
  BY <1>1, <1>3, <1>4, <1>5, <1>6 DEF MakesCaches, simpleMemobjSet
<1>10. \A M : MakesCaches(simpleCacheSet, M)
  BY <1>1, <1>3, <1>4, <1>5, <1>6 DEF MakesCaches, simpleCacheSet
<1>11. MakesCaches(twoLevelSet, {icache(0), dcache(0), l2cache})
  <2>1. PICK M : M = {icache(0), dcache(0), l2cache}
    OBVIOUS
  <2>2. icache(0) \in M /\ dcache(0) \in M /\ l2cache \in M
    BY <2>1
  <2>3. MakesCaches(twoLevelSet, M)
    BY <1>1, <1>2, <1>3, <1>4, <1>5, <1>6, <1>7, <2>2 DEF MakesCaches, twoLevelSet
  <2> QED
    BY <2>1, <2>3
<1>12. ASSUME NEW n
       PROVE  MakesCaches(mySystemSet(n), {iocache} \cup {icache(i) : i \in 0..(n - 1)}
                                            \cup {dcache(i) : i \in 0..(n - 1)})
  <2>1. PICK M : M = {iocache} \cup {icache(i) : i \in 0..(n - 1)}
                       \cup {dcache(i) : i \in 0..(n - 1)}
    OBVIOUS
  <2>2. iocache \in M /\ \A i \in 0..(n - 1) : icache(i) \in M /\ dcache(i) \in M
    BY <2>1, Zenon
  <2>3. \A i \in 0..(n - 1) : MakesCaches(hierarchySet(i), M)
    BY <1>3, <1>7, <2>2 DEF MakesCaches, hierarchySet
  <2>4. MakesCaches(initFsSet, M)
    BY <1>1, <1>2, <1>3, <1>5, <2>2 DEF MakesCaches, initFsSet, attachSet
  <2>5. MakesCaches(hierarchiesSet(n), M)
    BY <2>3 DEF MakesCaches, hierarchiesSet
  <2>6. MakesCaches(cpusSet(n), M) /\ MakesCaches(cpuInterruptsSet(n), M)
    BY <1>1, <1>5, <1>6 DEF MakesCaches, cpusSet, cpuInterruptsSet
  <2>7. MakesCaches(mySystemSet(n), M)
    BY <1>1, <1>3, <1>4, <1>5, <1>6, <2>4, <2>5, <2>6 DEF MakesCaches, mySystemSet
  <2> QED
    BY <2>1, <2>7
<1> QED
  BY <1>8, <1>9, <1>10, <1>11, <1>12, AllScripts DEF StatementsOf, CachesOf

(* so a classic system has no other.                                       *)
LEMMA CacheTable ==
  ASSUME ConfigInv, ~Ruby
  PROVE  \A c \in Caches : c \in CachesOf(build) /\ Exists(c)
<1>1. SUFFICES ASSUME NEW m \in made, m.class = "Cache"
               PROVE  m.obj \in CachesOf(build)
  BY DEF Caches, Exists
<1>2. PICK st \in StatementsOf(build) : Makes(st) /\ st.obj = m.obj
  BY <1>1 DEF ConfigInv, MadeKnown
<1>3. KindOf(st.obj) = "Cache"
  BY <1>1, <1>2 DEF ConfigInv, MadeKnown
<1> QED
  BY <1>2, <1>3, ScriptCaches DEF ConfigInv, MakesCaches, Ruby

-----------------------------------------------------------------------------
(* Packets: the ways they go, and that they are where something is.        *)

(* A packet has its six fields.                                            *)
IsPacket(p) ==
  p \in [origin : {p.origin}, addr : {p.addr}, dest : {p.dest}, vnet : {p.vnet},
         at : {p.at}, crossed : {p.crossed}]

(* q is the packet p, at e.                                                *)
MovedTo(p, q, e) ==
  /\ IsPacket(q) /\ q.at = e /\ q.crossed = p.crossed \cup {p.at[1]}
  /\ q.origin = p.origin /\ q.addr = p.addr

(* What the update of a packet's place does to it.                         *)
LEMMA Moving ==
  ASSUME NEW p, IsPacket(p), NEW e, NEW q,
         q = [p EXCEPT !.at = e, !.crossed = @ \cup {p.at[1]}]
  PROVE  MovedTo(p, q, e) /\ q.dest = p.dest /\ q.vnet = p.vnet
<1>1. /\ q.at = e /\ q.crossed = p.crossed \cup {p.at[1]}
      /\ q.origin = p.origin /\ q.addr = p.addr /\ q.dest = p.dest /\ q.vnet = p.vnet
  BY DEF IsPacket
<1>2. IsPacket(q)
  BY DEF IsPacket
<1> QED
  BY <1>1, <1>2 DEF MovedTo

(* The ways a packet goes: on from port `port' of the object where it is;  *)
(* from a sequencer to its controller; from a controller to its switch;    *)
(* from a switch to a controller or to another switch.                     *)
OnFrom(p, e, port) ==
  \/ /\ KindOf(p.at[1]) \in XBar
     /\ IF Responders(p.at[1], p.addr) # {}
        THEN port = "master" /\ e \in Responders(p.at[1], p.addr)
        ELSE port = "default"
  \/ KindOf(p.at[1]) \in {"Cache", "SimpleCache", "SimpleMemobj"} /\ port = "mem_side"
  \/ KindOf(p.at[1]) = "Bridge" /\ port = "master"
  \/ /\ KindOf(p.at[1]) = "Directory" /\ port = "memory"
     /\ KindOf(p.origin[1]) \notin {"L1Cache", "Directory"}
AlongWire(p, q) ==
  \E port, e : /\ <<<<p.at[1], port>>, e>> \in wires
               /\ OnFrom(p, e, port)
               /\ MovedTo(p, q, e) /\ q.dest = p.dest /\ q.vnet = p.vnet

ToController(p, q) ==
  /\ KindOf(p.at[1]) = "RubySequencer"
  /\ \E l \in links : l[1] = p.at[1] /\ MovedTo(p, q, <<l[2], "mandatoryQueue">>)
                      /\ q.dest = p.dest /\ q.vnet = p.vnet

FromController(p, q) ==
  /\ p.at[2] = "mandatoryQueue"
  /\ \E b \in Buffers(build.caches) : \E r :
       /\ <<p.at[1], r>> \in links /\ ClassOf(r) = "Switch"
       /\ b.way = "To" /\ SendsTo(b.buffer) = {"Directory"}
       /\ MovedTo(p, q, <<r, "network">>)
       /\ q.dest = <<"Directory", 0>> /\ q.vnet = b.vnet

OverSwitch(p, q) ==
  /\ KindOf(p.at[1]) = "Switch" /\ q.dest = p.dest /\ q.vnet = p.vnet
  /\ \/ \E d \in NodesOf(p.dest), b \in Buffers(build.caches) :
          /\ <<p.at[1], d>> \in links
          /\ b.machine = ClassOf(d) /\ b.way = "From" /\ b.vnet = p.vnet
          /\ MovedTo(p, q, <<d, b.buffer>>)
     \/ /\ \A d \in NodesOf(p.dest) : <<p.at[1], d>> \notin links
        /\ \E s : \E d \in NodesOf(p.dest) :
             /\ <<p.at[1], s>> \in links /\ s \in RouterOf(d)
             /\ MovedTo(p, q, <<s, "network">>)

(* Packets are where something is, and came from where something is.       *)
PacketInv ==
  \A p \in packets :
    /\ IsPacket(p) /\ Exists(p.at[1]) /\ Exists(p.origin[1])
    /\ \A o \in p.crossed : Exists(o)

(* The objects to which one is linked.                                     *)
LEMMA LinksOf ==
  ASSUME NEW a, NEW b
  PROVE  /\ b \in {l[2] : l \in {k \in links : k[1] = a}}
              <=> \E l \in links : l[1] = a /\ l[2] = b
         /\ ConfigInv => (b \in {l[2] : l \in {k \in links : k[1] = a}}
                            <=> <<a, b>> \in links)
<1>1. b \in {l[2] : l \in {k \in links : k[1] = a}} <=> \E l \in links : l[1] = a /\ l[2] = b
  OBVIOUS
<1>2. ConfigInv => \A l \in links : l = <<l[1], l[2]>>
  BY DEF ConfigInv, LinksKnown
<1> QED
  BY <1>1, <1>2

(* Every step of a packet is one of the ways above, or its last.           *)
LEMMA Hops ==
  ASSUME ConfigInv, PacketInv, NEW p \in packets, Move(p)
  PROVE  \/ packets' = {}
         \/ \E q : /\ packets' = {q}
                   /\ \/ AlongWire(p, q) \/ ToController(p, q)
                      \/ FromController(p, q) \/ OverSwitch(p, q)
<1>1. PICK x : x = p.at[1] /\ ClassOf(x) = KindOf(x) /\ IsPacket(p)
  BY Classes DEF ConfigInv, PacketInv
<1>3. ASSUME NEW e, MoveTo(p, e)
      PROVE  \E q : packets' = {q} /\ MovedTo(p, q, e) /\ q.dest = p.dest /\ q.vnet = p.vnet
  <2>1. PICK q : q = [p EXCEPT !.at = e, !.crossed = @ \cup {p.at[1]}]
    OBVIOUS
  <2>2. packets' = {q}
    BY <1>3, <2>1 DEF MoveTo
  <2>3. MovedTo(p, q, e) /\ q.dest = p.dest /\ q.vnet = p.vnet
    BY <1>1, <2>1, Moving
  <2> QED
    BY <2>2, <2>3
<1>4. \A port, e : e \in PeersOf(<<x, port>>) => <<<<x, port>>, e>> \in wires
  <2>1. \A w \in wires : w = <<w[1], w[2]>>
    BY DEF ConfigInv, WiresKnown
  <2> QED
    BY <2>1 DEF PeersOf
<1>5. CASE CrossbarForwards(p)
  <2>1. PICK e : /\ ClassOf(x) \in XBar /\ MoveTo(p, e)
                 /\ e \in IF Responders(x, p.addr) # {} THEN Responders(x, p.addr)
                                                        ELSE PeersOf(<<x, "default">>)
    BY <1>1, <1>5 DEF CrossbarForwards
  <2>2. \A d : d \in Responders(x, p.addr) => d \in PeersOf(<<x, "master">>)
    BY DEF Responders
  <2>3. PICK q : packets' = {q} /\ MovedTo(p, q, e) /\ q.dest = p.dest /\ q.vnet = p.vnet
    BY <1>3, <2>1
  <2>4. PICK port : /\ <<<<x, port>>, e>> \in wires
                    /\ IF Responders(x, p.addr) # {}
                       THEN port = "master" /\ e \in Responders(x, p.addr)
                       ELSE port = "default"
    BY <1>4, <2>1, <2>2
  <2>5. AlongWire(p, q)
    BY <1>1, <2>1, <2>3, <2>4 DEF AlongWire, OnFrom
  <2> QED
    BY <2>3, <2>5
<1>6. CASE PassesOn(p)
  <2>1. PICK e, port :
          /\ KindOf(x) \in {"Cache", "SimpleCache", "SimpleMemobj", "Bridge"}
          /\ port = IF KindOf(x) = "Bridge" THEN "master" ELSE "mem_side"
          /\ e \in PeersOf(<<x, port>>) /\ MoveTo(p, e)
    BY <1>1, <1>6 DEF PassesOn
  <2>2. PICK q : packets' = {q} /\ MovedTo(p, q, e) /\ q.dest = p.dest /\ q.vnet = p.vnet
    BY <1>3, <2>1
  <2>3. AlongWire(p, q)
    BY <1>1, <1>4, <2>1, <2>2 DEF AlongWire, OnFrom
  <2> QED
    BY <2>2, <2>3
<1>7. CASE SequencerPasses(p)
  <2>1. PICK l \in links : /\ KindOf(x) = "RubySequencer" /\ l[1] = x
                           /\ MoveTo(p, <<l[2], "mandatoryQueue">>)
    BY <1>1, <1>7 DEF SequencerPasses
  <2>2. PICK q : packets' = {q} /\ MovedTo(p, q, <<l[2], "mandatoryQueue">>)
                 /\ q.dest = p.dest /\ q.vnet = p.vnet
    BY <1>3, <2>1
  <2>3. ToController(p, q)
    BY <1>1, <2>1, <2>2 DEF ToController
  <2> QED
    BY <2>2, <2>3
<1>8. CASE ControllerRequests(p)
  <2>1. PICK b \in Buffers(build.caches), r \in RouterOf(x) :
          /\ p.at[2] = "mandatoryQueue"
          /\ b.way = "To" /\ SendsTo(b.buffer) = {"Directory"}
          /\ packets' = {[p EXCEPT !.at = <<r, "network">>,
                                   !.crossed = @ \cup {p.at[1]},
                                   !.dest = <<"Directory", 0>>,
                                   !.vnet = b.vnet]}
    BY <1>1, <1>8 DEF ControllerRequests
  <2>2. PICK q : q = [p EXCEPT !.at = <<r, "network">>, !.crossed = @ \cup {p.at[1]},
                               !.dest = <<"Directory", 0>>, !.vnet = b.vnet]
    OBVIOUS
  <2>3. MovedTo(p, q, <<r, "network">>) /\ q.dest = <<"Directory", 0>> /\ q.vnet = b.vnet
    <3>1. PICK e, d, v : e = <<r, "network">> /\ d = <<"Directory", 0>> /\ v = b.vnet
      OBVIOUS
    <3>2. q = [p EXCEPT !.at = e, !.crossed = @ \cup {p.at[1]}, !.dest = d, !.vnet = v]
      BY <2>2, <3>1
    <3>3. IsPacket(p)
      BY <1>1
    <3>4. /\ q.at = e /\ q.crossed = p.crossed \cup {p.at[1]}
          /\ q.origin = p.origin /\ q.addr = p.addr /\ q.dest = d /\ q.vnet = v
      BY <3>2, <3>3 DEF IsPacket
    <3>5. IsPacket(q)
      BY <3>2, <3>3 DEF IsPacket
    <3> QED
      BY <3>1, <3>4, <3>5 DEF MovedTo
  <2>4. <<x, r>> \in links /\ ClassOf(r) = "Switch"
    BY LinksOf DEF RouterOf
  <2>5. FromController(p, q)
    BY <1>1, <2>1, <2>3, <2>4 DEF FromController
  <2> QED
    BY <2>1, <2>2, <2>5
<1>9. CASE SwitchForwards(p)
  <2>0. PICK near : near = {l[2] : l \in {k \in links : k[1] = x}}
    OBVIOUS
  <2>1. \A n : n \in near <=> <<x, n>> \in links
    BY <2>0, LinksOf
  <2>2. /\ KindOf(x) = "Switch"
        /\ \/ \E d \in NodesOf(p.dest) \cap near, b \in Buffers(build.caches) :
                /\ b.machine = ClassOf(d) /\ b.way = "From"
                /\ b.vnet = p.vnet /\ MoveTo(p, <<d, b.buffer>>)
           \/ /\ NodesOf(p.dest) \cap near = {}
              /\ \E s \in near : \E d \in NodesOf(p.dest) :
                   s \in RouterOf(d) /\ MoveTo(p, <<s, "network">>)
    BY <1>1, <1>9, <2>0 DEF SwitchForwards
  <2>3. CASE \E d \in NodesOf(p.dest) \cap near, b \in Buffers(build.caches) :
               /\ b.machine = ClassOf(d) /\ b.way = "From"
               /\ b.vnet = p.vnet /\ MoveTo(p, <<d, b.buffer>>)
    <3>1. PICK d \in NodesOf(p.dest) \cap near, b \in Buffers(build.caches) :
               /\ b.machine = ClassOf(d) /\ b.way = "From"
               /\ b.vnet = p.vnet /\ MoveTo(p, <<d, b.buffer>>)
      BY <2>3
    <3>2. PICK q : packets' = {q} /\ MovedTo(p, q, <<d, b.buffer>>)
                   /\ q.dest = p.dest /\ q.vnet = p.vnet
      BY <1>3, <3>1
    <3>3. OverSwitch(p, q)
      BY <1>1, <2>1, <2>2, <3>1, <3>2 DEF OverSwitch
    <3> QED
      BY <3>2, <3>3
  <2>4. CASE /\ NodesOf(p.dest) \cap near = {}
             /\ \E s \in near : \E d \in NodesOf(p.dest) :
                  s \in RouterOf(d) /\ MoveTo(p, <<s, "network">>)
    <3>1. PICK s \in near, d \in NodesOf(p.dest) :
            s \in RouterOf(d) /\ MoveTo(p, <<s, "network">>)
      BY <2>4
    <3>2. PICK q : packets' = {q} /\ MovedTo(p, q, <<s, "network">>)
                   /\ q.dest = p.dest /\ q.vnet = p.vnet
      BY <1>3, <3>1
    <3>3. OverSwitch(p, q)
      BY <1>1, <2>1, <2>2, <2>4, <3>1, <3>2 DEF OverSwitch
    <3> QED
      BY <3>2, <3>3
  <2> QED
    BY <2>2, <2>3, <2>4
<1>10. CASE DirectoryReads(p)
  <2>1. PICK e : /\ KindOf(x) = "Directory" /\ ~IsMessage(p)
                 /\ e \in PeersOf(<<x, "memory">>) /\ MoveTo(p, e)
    BY <1>1, <1>10 DEF DirectoryReads
  <2>2. PICK q : packets' = {q} /\ MovedTo(p, q, e) /\ q.dest = p.dest /\ q.vnet = p.vnet
    BY <1>3, <2>1
  <2>3. KindOf(p.origin[1]) \notin {"L1Cache", "Directory"}
    BY <2>1, Classes DEF ConfigInv, PacketInv, IsMessage
  <2>4. AlongWire(p, q)
    BY <1>1, <1>4, <2>1, <2>2, <2>3 DEF AlongWire, OnFrom
  <2> QED
    BY <2>2, <2>4
<1>11. CASE Answer(p)
  BY <1>11 DEF Answer
<1> QED
  BY <1>5, <1>6, <1>7, <1>8, <1>9, <1>10, <1>11 DEF Move, Hop

(* The statements of a Ruby script that make its switches, sequencers and  *)
(* controllers.                                                            *)
LEMMA RubyMakes ==
  ASSUME NEW b \in Builds, b.script \in {"simple_ruby", "ruby_test"}, NEW n, n = b.cpus
  PROVE  /\ \A i \in 0..n : new(router(i), "Switch") \subseteq StatementsOf(b)
         /\ \A i \in 0..(n - 1) : /\ controller(l1(i), "L1Cache") \subseteq StatementsOf(b)
                                  /\ new(sequencer(i), "RubySequencer") \subseteq StatementsOf(b)
         /\ controller(dir, "Directory") \subseteq StatementsOf(b)
<1>1. PICK S : S = StatementsOf(b)
  OBVIOUS
<1>2. msiSetupSet(b) \subseteq S \/ miSetupSet(b) \subseteq S \/ testSetupSet(b) \subseteq S
  BY <1>1 DEF StatementsOf, simpleRubySet, rubyTestSet
<1>3. /\ networkSet(n) \cup sequencersSet(n) \subseteq S
      /\ msiL1sSet(b) \subseteq S \/ miL1sSet(b) \subseteq S
      /\ msiDirSet(b) \subseteq S \/ miDirSet(b) \subseteq S
  BY <1>2 DEF msiSetupSet, miSetupSet, testSetupSet
<1>4. n \in Nat /\ (n + 1) - 1 = n
  BY BuildsAreRecords
<1>5. \A i \in 0..n : new(router(i), "Switch") \subseteq routersSet(n + 1)
  BY <1>4 DEF routersSet
<1>6. \A i \in 0..n : new(router(i), "Switch") \subseteq S
  BY <1>3, <1>5 DEF networkSet
<1>7. \A i \in 0..(n - 1) : new(sequencer(i), "RubySequencer") \subseteq S
  BY <1>3 DEF sequencersSet, newSequencersSet
<1>8. \A i \in 0..(n - 1) : controller(l1(i), "L1Cache") \subseteq S
  <2>1. \A i : /\ controller(l1(i), "L1Cache") \subseteq msiL1Set(b, i)
               /\ controller(l1(i), "L1Cache") \subseteq miL1Set(b, i)
    BY DEF msiL1Set, miL1Set
  <2>2. \A i \in 0..(n - 1) :
          msiL1Set(b, i) \subseteq msiL1sSet(b) /\ miL1Set(b, i) \subseteq miL1sSet(b)
    BY DEF msiL1sSet, miL1sSet
  <2> QED
    BY <1>3, <2>1, <2>2
<1>9. controller(dir, "Directory") \subseteq S
  BY <1>3 DEF msiDirSet, miDirSet
<1> QED
  BY <1>1, <1>6, <1>7, <1>8, <1>9

(* What a script makes is there once it simulates.                         *)
LEMMA MadeAll ==
  ASSUME ConfigInv, Simulating, NEW o, NEW c,
         new(o, c) \subseteq StatementsOf(build) \/ controller(o, c) \subseteq StatementsOf(build)
  PROVE  Exists(o)
<1>1. PICK st \in StatementsOf(build) : Makes(st) /\ st.obj = o
  BY DEF new, controller, Makes
<1> QED
  BY <1>1, AllExecuted DEF Executed

(* Both ends of a link are there.                                          *)
LEMMA LinkedExist ==
  ASSUME ConfigInv, Simulating, NEW l \in links
  PROVE  Exists(l[1]) /\ Exists(l[2])
<1>1. PICK b, n : b = build /\ n = b.cpus
  OBVIOUS
<1>2. Ruby /\ l \in RubyLinks(n)
  BY <1>1, LinkTable
<1>3. b \in Builds /\ b.script \in {"simple_ruby", "ruby_test"}
  BY <1>1, <1>2 DEF ConfigInv, Ruby
<1>4. /\ \A i \in 0..n : Exists(router(i))
      /\ \A i \in 0..(n - 1) : Exists(l1(i)) /\ Exists(sequencer(i))
      /\ Exists(dir)
  BY <1>1, <1>3, RubyMakes, MadeAll
<1>5. n \in Nat
  BY <1>1, <1>3, BuildsAreRecords
<1>6. \A i \in 0..n : Exists(node(n, i))
  BY <1>4, <1>5 DEF node
<1> QED
  BY <1>2, <1>4, <1>6 DEF RubyLinks

(* There is no packet at first.                                            *)
LEMMA PacketInvInit == Init => PacketInv
  BY DEF Init, PacketInv

(* What a step of the simulation leaves, and the three things that it can  *)
(* do: start a request, send a message, move a packet.                     *)
Same == build' = build /\ made' = made /\ wires' = wires /\ links' = links

Started ==
  \E w \in wires : \E a \in AddressesFrom(w[1]) :
    ClassOf(w[1][1]) \in Sources /\ packets' = {Access(w[1], a, w[2])}

Sent ==
  \E b, o, d, r :
    /\ b \in Buffers(build.caches) /\ o \in {m.obj : m \in made} /\ d \in {m.obj : m \in made}
    /\ b.way = "To" /\ b.machine = ClassOf(o)
    /\ d # o /\ ClassOf(d) \in SendsTo(b.buffer)
    /\ <<o, r>> \in links /\ ClassOf(r) = "Switch"
    /\ packets' = {[origin |-> <<o, b.buffer>>, addr |-> KB(0),
                    dest |-> MachineID(d), vnet |-> b.vnet,
                    at |-> <<r, "network">>, crossed |-> {}]}

Travelled ==
  \E p \in packets : \E q :
    /\ packets' = {q}
    /\ AlongWire(p, q) \/ ToController(p, q) \/ FromController(p, q) \/ OverSwitch(p, q)

(* A step loses the packets, leaves everything, or, in a system that       *)
(* simulates, starts, sends or moves a packet.                             *)
LEMMA PacketSteps ==
  ASSUME ConfigInv, PacketInv, [Next]_vars
  PROVE  \/ packets' = {}
         \/ Same /\ packets' = packets
         \/ Simulating /\ Same /\ (Started \/ Sent \/ Travelled)
<1> USE DEF Same
<1>1. CASE MakeObject \/ MakeController \/ BindPorts \/ MakeLink \/ GoOn \/ Abort
  <2>1. Building /\ packets' = packets
    BY <1>1 DEF MakeObject, MakeController, BindPorts, MakeLink, GoOn, Abort, Execute
  <2>2. packets = {}
    BY <2>1 DEF ConfigInv, Building, Simulating
  <2> QED
    BY <2>1, <2>2
<1>2. CASE SendRequest
  BY <1>2 DEF SendRequest, Started, systemVars
<1>3. CASE SendMessage
  <2>1. PICK b, o, d, r :
       /\ b \in Buffers(build.caches) /\ o \in {m.obj : m \in made} /\ d \in {m.obj : m \in made}
       /\ r \in RouterOf(o)
       /\ b.way = "To" /\ b.machine = ClassOf(o)
       /\ d # o /\ ClassOf(d) \in SendsTo(b.buffer)
       /\ packets' = {[origin |-> <<o, b.buffer>>, addr |-> KB(0),
                       dest |-> MachineID(d), vnet |-> b.vnet,
                       at |-> <<r, "network">>, crossed |-> {}]}
    BY <1>3 DEF SendMessage
  <2>2. <<o, r>> \in links /\ ClassOf(r) = "Switch"
    BY <2>1, LinksOf DEF RouterOf
  <2>3. Sent
    BY <2>1, <2>2 DEF Sent
  <2> QED
    BY <1>3, <2>3 DEF SendMessage, systemVars
<1>4. CASE Travel
  <2>1. PICK p \in packets : Move(p)
    BY <1>4 DEF Travel
  <2>2. Simulating /\ Same
    BY <2>1, HopStays DEF systemVars
  <2>3. packets' = {} \/ Travelled
    BY <2>1, Hops DEF Travelled
  <2> QED
    BY <2>2, <2>3
<1>5. CASE UNCHANGED vars
  BY <1>5 DEF vars
<1> QED
  BY <1>1, <1>2, <1>3, <1>4, <1>5 DEF Next, Run

(* A packet has the fields of one, and is and has been at objects that     *)
(* exist.                                                                  *)
LEMMA PacketInvStep ==
  ASSUME ConfigInv, PacketInv, [Next]_vars
  PROVE  PacketInv'
<1>1. CASE packets' = {}
  BY <1>1 DEF PacketInv
<1>2. CASE Same /\ packets' = packets
  BY <1>2 DEF Same, PacketInv, Exists
<1>3. CASE Simulating /\ Same /\ (Started \/ Sent \/ Travelled)
  <2>1. SUFFICES \A q \in packets' : /\ IsPacket(q) /\ Exists(q.at[1]) /\ Exists(q.origin[1])
                                     /\ \A o \in q.crossed : Exists(o)
    BY <1>3 DEF Same, PacketInv, Exists
  <2>2. CASE Started
    <3>1. PICK w, a : w \in wires /\ packets' = {Access(w[1], a, w[2])}
      BY <2>2 DEF Started
    <3>2. Exists(w[1][1]) /\ Exists(w[2][1])
      BY <3>1 DEF ConfigInv, WiresKnown
    <3> QED
      BY <3>1, <3>2 DEF Access, IsPacket
  <2>3. CASE Sent
    <3>1. PICK b, o, d, r :
            /\ o \in {m.obj : m \in made}
            /\ <<o, r>> \in links
            /\ packets' = {[origin |-> <<o, b.buffer>>, addr |-> KB(0),
                            dest |-> MachineID(d), vnet |-> b.vnet,
                            at |-> <<r, "network">>, crossed |-> {}]}
      BY <2>3 DEF Sent
    <3>2. Exists(o) /\ Exists(r)
      BY <1>3, <3>1, LinkedExist DEF Exists
    <3> QED
      BY <3>1, <3>2 DEF IsPacket
  <2>4. CASE Travelled
    <3>1. PICK p, q :
            /\ p \in packets /\ packets' = {q}
            /\ AlongWire(p, q) \/ ToController(p, q) \/ FromController(p, q) \/ OverSwitch(p, q)
      BY <2>4 DEF Travelled
    <3>2. \E e : MovedTo(p, q, e) /\ Exists(e[1])
      <4>1. CASE AlongWire(p, q)
        BY <4>1 DEF AlongWire, ConfigInv, WiresKnown
      <4>2. CASE ToController(p, q)
        BY <1>3, <4>2, LinkedExist DEF ToController
      <4>3. CASE FromController(p, q)
        BY <1>3, <4>3, LinkedExist DEF FromController
      <4>4. CASE OverSwitch(p, q)
        <5>1. \A a, b : <<a, b>> \in links => Exists(b)
          BY <1>3, LinkedExist
        <5>2. PICK d, t : <<p.at[1], d>> \in links /\ MovedTo(p, q, <<d, t>>)
          BY <4>4, Zenon DEF OverSwitch
        <5>3. Exists(d) /\ <<d, t>>[1] = d
          BY <5>1, <5>2
        <5> QED
          BY <5>2, <5>3
      <4> QED
        BY <3>1, <4>1, <4>2, <4>3, <4>4
    <3> QED
      BY <3>1, <3>2 DEF MovedTo, PacketInv
  <2> QED
    BY <1>3, <2>2, <2>3, <2>4
<1> QED
  BY <1>1, <1>2, <1>3, PacketSteps

-----------------------------------------------------------------------------
(* Every cache snoops what comes to memory (SnoopedByAll).                 *)

(* Outside a Ruby system a packet came to where it is over a connection,   *)
(* from its source or from an object that it has passed.                   *)
ClassicInv ==
  \A p \in packets : ~Ruby =>
    \E w \in wires : /\ w[2] = p.at
                     /\ \/ w[1] = p.origin /\ KindOf(w[1][1]) \in Sources
                        \/ w[1][1] \in p.crossed

(* Without links a packet goes over connections only.                      *)
LEMMA ClassicTravels ==
  ASSUME ConfigInv, ~Ruby, NEW p, NEW q,
         AlongWire(p, q) \/ ToController(p, q) \/ FromController(p, q) \/ OverSwitch(p, q)
  PROVE  AlongWire(p, q)
<1>1. links = {}
  BY LinkTable
<1> QED
  BY <1>1 DEF ToController, FromController, OverSwitch

(* So it came to where it is over a connection, from its source or from an *)
(* object it has passed.                                                   *)
LEMMA ClassicInvStep ==
  ASSUME ConfigInv, PacketInv, ClassicInv, [Next]_vars
  PROVE  ClassicInv'
<1>1. CASE packets' = {}
  BY <1>1 DEF ClassicInv
<1>2. CASE Same /\ packets' = packets
  BY <1>2 DEF Same, ClassicInv, Ruby
<1>3. CASE Simulating /\ Same /\ (Started \/ Sent \/ Travelled)
  <2>1. Ruby' <=> Ruby
    BY <1>3 DEF Same, Ruby
  <2>2. SUFFICES ASSUME ~Ruby, NEW q \in packets'
                 PROVE  \E w \in wires : /\ w[2] = q.at
                                         /\ \/ w[1] = q.origin /\ KindOf(w[1][1]) \in Sources
                                            \/ w[1][1] \in q.crossed
    BY <1>3, <2>1 DEF Same, ClassicInv
  <2>3. CASE Started
    <3>1. PICK w, a : /\ w \in wires /\ packets' = {Access(w[1], a, w[2])}
                      /\ ClassOf(w[1][1]) \in Sources
      BY <2>3 DEF Started
    <3>2. ClassOf(w[1][1]) = KindOf(w[1][1])
      BY <3>1, Classes DEF ConfigInv, WiresKnown
    <3> QED
      BY <2>2, <3>1, <3>2 DEF Access
  <2>4. CASE Sent
    BY <2>2, <2>4, LinkTable DEF Sent
  <2>5. CASE Travelled
    <3>1. PICK p \in packets : AlongWire(p, q)
      BY <2>2, <2>5, ClassicTravels DEF Travelled
    <3>2. PICK port, e : <<<<p.at[1], port>>, e>> \in wires /\ MovedTo(p, q, e)
      BY <3>1 DEF AlongWire
    <3> QED
      BY <3>2 DEF MovedTo
  <2> QED
    BY <1>3, <2>3, <2>4, <2>5
<1> QED
  BY <1>1, <1>2, <1>3, PacketSteps

(* Only membus leads to the memory controller.                             *)
LEMMA WiresToMemory ==
  ASSUME ConfigInv, ~Ruby, NEW w \in wires, KindOf(w[2][1]) = "MemCtrl"
  PROVE  w = wire(membus, "master", mem_ctrl(0), "port")
<1>1. PICK b : b = build
  OBVIOUS
<1>2. w \in WiresOf(b) /\ b \in Builds /\ b.script \notin {"simple_ruby", "ruby_test"}
  BY <1>1, WireTable DEF ConfigInv, Ruby
<1>3. \/ \E i : w \in CommonWires(i) \cup L1Wires(i) \cup HierarchyWires(i)
      \/ w \in UncachedWires \cup TwoLevelWires \cup PlatformWires
  BY <1>2, AllScripts DEF WiresOf, UncachedScriptWires, TwoLevelScriptWires, MySystemWires
<1> USE DEF wire, KindOf, KindNamed
<1>4. ASSUME NEW i, w \in CommonWires(i)
      PROVE  w = wire(membus, "master", mem_ctrl(0), "port")
  BY <1>4 DEF CommonWires, interrupts, membus, mem_ctrl
<1>5. \A i : w \notin L1Wires(i) \cup HierarchyWires(i)
  BY DEF L1Wires, HierarchyWires, icache, dcache, membus
<1>6. w \notin UncachedWires
  BY DEF UncachedWires, membus, memobj, simplecache
<1>7. w \notin TwoLevelWires
  BY DEF TwoLevelWires, l2bus, l2cache, membus
<1>8. w \notin PlatformWires
  BY DEF PlatformWires, membus, badaddr_responder, iobus, bridge, apicbridge, pc, iocache
<1> QED
  BY <1>3, <1>4, <1>5, <1>6, <1>7, <1>8

(* Every cache's misses go to membus, or to l2bus and over l2cache.        *)
LEMMA WireMade ==
  ASSUME ConfigInv, Simulating, NEW o, NEW p, NEW q, NEW r,
         bind(o, p, q, r) \subseteq StatementsOf(build),
         Role(o, p) = "master", Role(q, r) = "slave"
  PROVE  wire(o, p, q, r) \in wires
<1>1. PICK st \in bind(o, p, q, r) : st.op = "bind"
  BY DEF bind
<1>2. PICK w \in wires : w \in st.ends \X st.ends
  BY <1>1, AllExecuted DEF Executed
<1>3. Wire(st, w)
  BY <1>2 DEF Wire, ConfigInv, WiresKnown
<1> QED
  BY <1>2, <1>3, Orient DEF ConfigInv

(* A connection may be written from either side.                           *)
LEMMA BindBothWays == \A o, p, q, r : bind(o, p, q, r) = bind(q, r, o, p)
  BY DEF bind

(* A cache misses to membus, or to l2bus and from there over l2cache to    *)
(* membus.                                                                 *)
LEMMA CachesSnooped ==
  ASSUME ConfigInv, Simulating, ~Ruby, NEW c \in Caches
  PROVE  /\ Exists(membus)
         /\ \/ wire(c, "mem_side", membus, "slave") \in wires
            \/ /\ l2cache \in Caches /\ wire(l2cache, "mem_side", membus, "slave") \in wires
               /\ wire(l2bus, "master", l2cache, "cpu_side") \in wires
               /\ wire(c, "mem_side", l2bus, "slave") \in wires
<1>1. PICK b, S : b = build /\ S = StatementsOf(b)
  OBVIOUS
<1>2. b \in Builds /\ b.script \notin {"simple_ruby", "ruby_test"} /\ c \in CachesOf(b)
  BY <1>1, CacheTable DEF ConfigInv, Ruby
<1>3. ASSUME NEW o, NEW p, NEW q, NEW r, bind(o, p, q, r) \subseteq S,
             Role(o, p) = "master", Role(q, r) = "slave"
      PROVE  wire(o, p, q, r) \in wires
  BY <1>1, <1>3, WireMade
<1>4. ASSUME wire(c, "mem_side", membus, "slave") \in wires
      PROVE  Exists(membus)
  BY <1>4 DEF ConfigInv, WiresKnown, wire
<1>5. CASE b.script \in {"two_level", "two_level_opts"}
  <2>1. S = twoLevelSet /\ c \in {icache(0), dcache(0), l2cache}
    BY <1>1, <1>2, <1>5 DEF StatementsOf, CachesOf
  <2>2. /\ new(l2cache, "Cache") \subseteq S
        /\ bind(icache(0), "mem_side", l2bus, "slave") \subseteq S
        /\ bind(dcache(0), "mem_side", l2bus, "slave") \subseteq S
        /\ bind(l2cache, "cpu_side", l2bus, "master") \subseteq S
        /\ bind(l2cache, "mem_side", membus, "slave") \subseteq S
    BY <2>1 DEF twoLevelSet
  <2>3. /\ wire(icache(0), "mem_side", l2bus, "slave") \in wires
        /\ wire(dcache(0), "mem_side", l2bus, "slave") \in wires
        /\ wire(l2bus, "master", l2cache, "cpu_side") \in wires
        /\ wire(l2cache, "mem_side", membus, "slave") \in wires
    BY <1>3, <2>2, PortRoles, BindBothWays
  <2>4. l2cache \in Caches
    <3>1. Exists(l2cache)
      BY <1>1, <2>2, MadeAll
    <3>2. PICK m \in made : m.obj = l2cache
      BY <3>1 DEF Exists
    <3>3. m.class = "Cache"
      BY <3>2 DEF ConfigInv, MadeKnown, KindOf, KindNamed, l2cache
    <3> QED
      BY <3>2, <3>3 DEF Caches
  <2>5. Exists(membus)
    BY <2>3 DEF ConfigInv, WiresKnown, wire
  <2> QED
    BY <2>1, <2>3, <2>4, <2>5
<1>6. CASE b.script \in {"x86", "x86_mp"}
  <2>1. PICK n : n = b.cpus
    OBVIOUS
  <2>2. S = mySystemSet(n) /\ (c = iocache \/ \E i \in 0..(n - 1) : c = icache(i) \/ c = dcache(i))
    BY <1>1, <1>2, <1>6, <2>1 DEF StatementsOf, CachesOf
  <2>3. /\ bind(iocache, "mem_side", membus, "slave") \subseteq S
        /\ \A i \in 0..(n - 1) : /\ bind(icache(i), "mem_side", membus, "slave") \subseteq S
                                 /\ bind(dcache(i), "mem_side", membus, "slave") \subseteq S
    <3>1. initFsSet \subseteq S /\ hierarchiesSet(n) \subseteq S
      BY <2>2 DEF mySystemSet
    <3>2. \A i \in 0..(n - 1) : hierarchySet(i) \subseteq S
      BY <3>1 DEF hierarchiesSet
    <3> QED
      BY <3>1, <3>2 DEF initFsSet, hierarchySet
  <2>4. wire(c, "mem_side", membus, "slave") \in wires
    BY <1>3, <2>2, <2>3, PortRoles
  <2> QED
    BY <1>4, <2>4
<1> QED
  BY <1>2, <1>5, <1>6 DEF CachesOf

(* What comes to the memory controller came over membus, to which every    *)
(* cache leads: all of them snooped it.                                    *)
LEMMA SnoopedHolds ==
  ASSUME ConfigInv, PacketInv, ClassicInv
  PROVE  SnoopedByAll
<1>1. SUFFICES ASSUME NEW p \in packets, ClassOf(p.at[1]) = "MemCtrl", ~Ruby, NEW c \in Caches
               PROVE  \E x \in p.crossed : ClassOf(x) \in CoherentXBar /\ c \in Snooped(x)
  BY DEF SnoopedByAll
<1>2. Simulating
  BY <1>1 DEF ConfigInv
<1>3. membus \in p.crossed
  <2>1. KindOf(p.at[1]) = "MemCtrl"
    BY <1>1, Classes DEF ConfigInv, PacketInv
  <2>2. PICK w \in wires : /\ w[2] = p.at
                           /\ \/ w[1] = p.origin /\ KindOf(w[1][1]) \in Sources
                              \/ w[1][1] \in p.crossed
    BY <1>1 DEF ClassicInv
  <2>3. w[1][1] = membus
    BY <1>1, <2>1, <2>2, WiresToMemory DEF wire
  <2>4. KindOf(membus) \notin Sources
    BY DEF KindOf, KindNamed, membus, Sources
  <2> QED
    BY <2>2, <2>3, <2>4
<1>4. /\ Exists(membus)
      /\ \/ wire(c, "mem_side", membus, "slave") \in wires
         \/ /\ l2cache \in Caches /\ wire(l2cache, "mem_side", membus, "slave") \in wires
            /\ wire(l2bus, "master", l2cache, "cpu_side") \in wires
            /\ wire(c, "mem_side", l2bus, "slave") \in wires
  BY <1>1, <1>2, CachesSnooped
<1>5. ClassOf(membus) \in CoherentXBar
  BY <1>4, Classes DEF ConfigInv, KindOf, KindNamed, membus, CoherentXBar
<1>6. \A o, port, x, r : wire(o, port, x, r) \in wires => <<x, r>> \in PeersOf(<<o, port>>)
  BY DEF wire, PeersOf
<1>7. \A d, x : d \in Caches /\ wire(d, "mem_side", x, "slave") \in wires => d \in CachesOn(x)
  BY <1>6 DEF CachesOn
<1>8. CASE wire(c, "mem_side", membus, "slave") \in wires
  BY <1>3, <1>5, <1>7, <1>8 DEF Snooped
<1>9. CASE /\ l2cache \in Caches /\ wire(l2cache, "mem_side", membus, "slave") \in wires
           /\ wire(l2bus, "master", l2cache, "cpu_side") \in wires
           /\ wire(c, "mem_side", l2bus, "slave") \in wires
  <2>1. l2cache \in CachesOn(membus) /\ c \in CachesOn(l2bus)
    BY <1>7, <1>9
  <2>2. <<l2cache, "cpu_side">> \in PeersOf(<<l2bus, "master">>)
    BY <1>6, <1>9
  <2>3. Exists(l2bus)
    BY <1>9 DEF ConfigInv, WiresKnown, wire
  <2>4. ClassOf(l2bus) \in CoherentXBar /\ l2bus \in {m.obj : m \in made}
    BY <2>3, Classes DEF ConfigInv, KindOf, KindNamed, l2bus, CoherentXBar, Exists
  <2>5. c \in Snooped(membus)
    BY <2>1, <2>2, <2>4 DEF Snooped
  <2> QED
    BY <1>3, <1>5, <2>5
<1> QED
  BY <1>4, <1>8, <1>9

(* In every configuration, for every number of CPUs and every size of      *)
(* memory, a request that arrives at memory has been where each of the     *)
(* classic caches can snoop it.                                            *)
THEOREM ConfigsSnooped == Spec => []SnoopedByAll
<1>1. Init => ConfigInv /\ PacketInv /\ ClassicInv
  BY ConfigInit, PacketInvInit DEF Init, ClassicInv
<1>2. (ConfigInv /\ PacketInv /\ ClassicInv) /\ [Next]_vars
        => (ConfigInv /\ PacketInv /\ ClassicInv)'
  BY ConfigStep, PacketInvStep, ClassicInvStep
<1>3. ConfigInv /\ PacketInv /\ ClassicInv => SnoopedByAll
  BY SnoopedHolds
<1> QED
  BY <1>1, <1>2, <1>3, PTL DEF Spec

-----------------------------------------------------------------------------
(* A CPU's requests stay on its own path (PrivatePath).                    *)

(* What belongs to one CPU, and what passes requests on.                   *)
Owned(o) == o[1] \in {"icache", "dcache", "sequencer", "l1"}
Forwards == XBar \cup {"Cache", "SimpleCache", "SimpleMemobj", "Bridge", "Directory"}

(* What is a CPU's own on the way from its port e.                         *)
OwnOf(script, e) ==
  CASE script \in {"simple_ruby", "ruby_test"} -> {sequencer(e[1][2]), l1(e[1][2])}
    [] script \in {"two_level", "two_level_opts", "x86", "x86_mp"} /\ e[2] = "icache_port" ->
         {icache(e[1][2])}
    [] script \in {"two_level", "two_level_opts", "x86", "x86_mp"} /\ e[2] = "dcache_port" ->
         {dcache(e[1][2])}
    [] OTHER -> {}

(* Where a wire from a CPU leads.                                          *)
LeadsOn(script, w) ==
  LET i == w[1][1][2]
  IN  \/ ~Owned(w[2][1]) /\ OwnOf(script, w[1]) = {}
      \/ w[2][1] \in {icache(i), dcache(i)} /\ OwnOf(script, w[1]) = {w[2][1]}
      \/ w[2][1] = sequencer(i) /\ OwnOf(script, w[1]) = {sequencer(i), l1(i)}

(* A connection keeps requests off what is another CPU's.                  *)
GoodWire(script, w) ==
  /\ KindOf(w[1][1]) \in Forwards => ~Owned(w[2][1])
  /\ KindOf(w[2][1]) # "Switch"
  /\ KindOf(w[1][1]) = "CPU" => LeadsOn(script, w)

(* No connection of the tables leads from a bus, a cache or a bridge to    *)
(* what a CPU owns, or to a switch, and each of a CPU leads to its own.    *)
LEMMA GoodWires ==
  ASSUME NEW b \in Builds, NEW w \in WiresOf(b)
  PROVE  GoodWire(b.script, w)
<1> USE DEF wire, KindOf, KindNamed, GoodWire, Owned, Forwards, XBar, CoherentXBar
<1>1. CASE b.script \in {"simple", "simple_memobj", "simple_cache"}
  <2>1. w \in CommonWires(0) \cup UncachedWires
    BY <1>1 DEF WiresOf, UncachedScriptWires
  <2>2. CASE w \in CommonWires(0)
    BY <2>2 DEF CommonWires, interrupts, membus, mem_ctrl, system
  <2>3. CASE w \in UncachedWires
    BY <1>1, <2>3 DEF UncachedWires, membus, memobj, simplecache, cpu, LeadsOn, OwnOf
  <2> QED
    BY <2>1, <2>2, <2>3
<1>2. ASSUME NEW i, w \in CommonWires(i)
      PROVE  GoodWire(b.script, w)
  BY <1>2 DEF CommonWires, interrupts, membus, mem_ctrl, system
<1>3. ASSUME NEW i, w \in L1Wires(i), b.script \in {"two_level", "two_level_opts", "x86", "x86_mp"}
      PROVE  GoodWire(b.script, w)
  BY <1>3 DEF L1Wires, icache, dcache, cpu, LeadsOn, OwnOf
<1>4. ASSUME NEW i, w \in HierarchyWires(i), b.script \in {"x86", "x86_mp"}
      PROVE  GoodWire(b.script, w)
  BY <1>4 DEF HierarchyWires, icache, dcache, cpu, membus, LeadsOn, OwnOf
<1>5. ASSUME w \in TwoLevelWires
      PROVE  GoodWire(b.script, w)
  BY <1>5 DEF TwoLevelWires, icache, dcache, l2bus, l2cache, membus
<1>6. ASSUME w \in PlatformWires
      PROVE  GoodWire(b.script, w)
  BY <1>6 DEF PlatformWires, membus, badaddr_responder, iobus, bridge, apicbridge, pc, iocache
<1>7. ASSUME NEW i, w \in RubyWires(i), b.script \in {"simple_ruby", "ruby_test"}
      PROVE  GoodWire(b.script, w)
  BY <1>7 DEF RubyWires, cpu, sequencer, interrupts, tester, system, sys_port_proxy, dir, mem_ctrl,
              LeadsOn, OwnOf
<1>8. ASSUME NEW o, w \in NetworkWires(o), KindOf(o) \in {"L1Cache", "Directory"}
      PROVE  GoodWire(b.script, w)
  BY <1>8 DEF NetworkWires, network
<1>9. \A i : KindOf(l1(i)) = "L1Cache" /\ KindOf(dir) = "Directory"
  BY DEF l1, dir
<1>10. CASE b.script \in {"two_level", "two_level_opts"}
  BY <1>2, <1>3, <1>5, <1>10 DEF WiresOf, TwoLevelScriptWires
<1>11. CASE b.script \in {"x86", "x86_mp"}
  BY <1>2, <1>3, <1>4, <1>6, <1>11 DEF WiresOf, MySystemWires
<1>12. CASE b.script \in {"simple_ruby", "ruby_test"}
  BY <1>7, <1>8, <1>9, <1>12 DEF WiresOf, RubyScriptWires
<1> QED
  BY <1>1, <1>10, <1>11, <1>12, AllScripts

(* A CPU's request has passed nothing of another CPU's, and is at what is  *)
(* its own or has it behind it.                                            *)
OnOwnPath(script, p) ==
  LET i == p.origin[1][2]
      own == OwnOf(script, p.origin)
  IN  /\ \A o \in p.crossed : Owned(o) => o \in own
      /\ \/ ~Owned(p.at[1]) /\ own \subseteq p.crossed
         \/ p.at[1] \in {icache(i), dcache(i)} /\ own = {p.at[1]}
         \/ p.at[1] = sequencer(i) /\ own = {sequencer(i), l1(i)}
         \/ /\ p.at[1] = l1(i) /\ own = {sequencer(i), l1(i)}
            /\ sequencer(i) \in p.crossed
      /\ KindOf(p.at[1]) = "Switch" => p.dest = <<"Directory", 0>>

PathInv == \A p \in packets : KindOf(p.origin[1]) = "CPU" => OnOwnPath(build.script, p)

(* The same of the connections that there are.                             *)
LEMMA WiresGood ==
  ASSUME ConfigInv, NEW w \in wires
  PROVE  GoodWire(build.script, w)
<1>1. PICK b : b = build
  OBVIOUS
<1> QED
  BY <1>1, WireTable, GoodWires DEF ConfigInv

(* A sequencer is linked with the controller of its number, and no switch  *)
(* is a CPU's own.                                                         *)
LEMMA LinksLead ==
  ASSUME ConfigInv, NEW a, NEW c, <<a, c>> \in links
  PROVE  /\ \A i : a = sequencer(i) => c = l1(i)
         /\ KindOf(a) = "RubySequencer" => \E i : a = sequencer(i)
         /\ KindOf(c) = "Switch" => ~Owned(c)
<1>1. PICK n : n = build.cpus /\ n \in Nat
  BY BuildsAreRecords DEF ConfigInv
<1>2. <<a, c>> \in RubyLinks(n)
  BY <1>1, LinkTable
<1>3. KindOf(c) = "Switch" => ~Owned(c)
  <2>1. KindNamed["icache"] # "Switch" /\ KindNamed["dcache"] # "Switch"
        /\ KindNamed["sequencer"] # "Switch" /\ KindNamed["l1"] # "Switch"
    BY DEF KindNamed
  <2> QED
    BY <2>1 DEF KindOf, Owned
<1>4. \/ \E i : a = sequencer(i) /\ c = l1(i)
      \/ \E i : a = node(n, i) \/ a = router(i) \/ a = l1(i)
  BY <1>2 DEF RubyLinks
<1>5. \A i, j : node(n, i) # sequencer(j) /\ router(i) # sequencer(j) /\ l1(i) # sequencer(j)
  BY DEF node, router, l1, dir, sequencer
<1>6. \A i, j : sequencer(i) = sequencer(j) => i = j
  BY DEF sequencer
<1>7. \A i : /\ KindOf(node(n, i)) # "RubySequencer" /\ KindOf(router(i)) # "RubySequencer"
             /\ KindOf(l1(i)) # "RubySequencer"
  BY DEF node, router, l1, dir, KindOf, KindNamed
<1> QED
  BY <1>3, <1>4, <1>5, <1>6, <1>7

(* A CPU's request starts on its own path,                                 *)
LEMMA PathStarts ==
  ASSUME ConfigInv, NEW w \in wires, NEW a, KindOf(w[1][1]) = "CPU"
  PROVE  OnOwnPath(build.script, Access(w[1], a, w[2]))
<1>1. GoodWire(build.script, w)
  BY WiresGood
<1>2. LeadsOn(build.script, w) /\ KindOf(w[2][1]) # "Switch"
  BY <1>1 DEF GoodWire
<1> QED
  BY <1>2 DEF LeadsOn, OnOwnPath, Access

(* each hop leaves it there,                                               *)
LEMMA PathGoesOn ==
  ASSUME ConfigInv, PacketInv, NEW p \in packets, NEW q, KindOf(p.origin[1]) = "CPU",
         OnOwnPath(build.script, p),
         AlongWire(p, q) \/ ToController(p, q) \/ FromController(p, q) \/ OverSwitch(p, q)
  PROVE  OnOwnPath(build.script, q)
<1>1. PICK i, own, s : i = p.origin[1][2] /\ own = OwnOf(build.script, p.origin)
                       /\ s = build.script
  OBVIOUS
<1>2. /\ \A o \in p.crossed : Owned(o) => o \in own
      /\ \/ ~Owned(p.at[1]) /\ own \subseteq p.crossed
         \/ p.at[1] \in {icache(i), dcache(i)} /\ own = {p.at[1]}
         \/ p.at[1] = sequencer(i) /\ own = {sequencer(i), l1(i)}
         \/ /\ p.at[1] = l1(i) /\ own = {sequencer(i), l1(i)}
            /\ sequencer(i) \in p.crossed
      /\ KindOf(p.at[1]) = "Switch" => p.dest = <<"Directory", 0>>
  BY <1>1 DEF OnOwnPath
<1>3. q.origin = p.origin /\ q.crossed = p.crossed \cup {p.at[1]}
  BY DEF AlongWire, ToController, FromController, OverSwitch, MovedTo
<1>4. \A o \in q.crossed : Owned(o) => o \in own
  BY <1>2, <1>3
<1>5. SUFFICES /\ \/ ~Owned(q.at[1]) /\ own \subseteq q.crossed
                  \/ /\ q.at[1] = l1(i) /\ own = {sequencer(i), l1(i)}
                     /\ sequencer(i) \in q.crossed
               /\ KindOf(q.at[1]) = "Switch" => q.dest = <<"Directory", 0>>
  BY <1>1, <1>3, <1>4 DEF OnOwnPath
<1>6. \A j : KindOf(sequencer(j)) = "RubySequencer" /\ KindOf(l1(j)) = "L1Cache"
             /\ Owned(sequencer(j)) /\ Owned(l1(j)) /\ Owned(icache(j)) /\ Owned(dcache(j))
             /\ KindOf(icache(j)) = "Cache" /\ KindOf(dcache(j)) = "Cache"
  BY DEF KindOf, KindNamed, Owned, sequencer, l1, icache, dcache
<1>7. CASE AlongWire(p, q)
  <2>1. PICK port, e : /\ <<<<p.at[1], port>>, e>> \in wires /\ OnFrom(p, e, port)
                       /\ MovedTo(p, q, e)
    BY <1>7 DEF AlongWire
  <2>2. KindOf(p.at[1]) \in Forwards
    BY <2>1 DEF OnFrom, Forwards
  <2>3. ~Owned(e[1]) /\ KindOf(e[1]) # "Switch"
    BY <2>1, <2>2, WiresGood DEF GoodWire
  <2>4. KindOf(p.at[1]) \notin {"RubySequencer", "L1Cache"}
    BY <2>2 DEF Forwards, XBar, CoherentXBar
  <2>5. own \subseteq q.crossed
    BY <1>2, <1>3, <1>6, <2>4
  <2> QED
    BY <2>1, <2>3, <2>5 DEF MovedTo
<1>8. CASE ToController(p, q)
  <2>1. PICK l \in links : /\ KindOf(p.at[1]) = "RubySequencer" /\ l[1] = p.at[1]
                           /\ MovedTo(p, q, <<l[2], "mandatoryQueue">>)
    BY <1>8 DEF ToController
  <2>2. l = <<l[1], l[2]>>
    BY DEF ConfigInv, LinksKnown
  <2>3. PICK j : p.at[1] = sequencer(j)
    BY <2>1, <2>2, LinksLead
  <2>4. p.at[1] = sequencer(i) /\ own = {sequencer(i), l1(i)}
    BY <1>2, <1>6, <2>1, <2>3
  <2>5. l[2] = l1(i)
    BY <2>1, <2>2, <2>4, LinksLead
  <2> QED
    BY <1>3, <1>6, <2>1, <2>4, <2>5 DEF MovedTo
<1>9. CASE FromController(p, q)
  <2>1. PICK b, r : /\ <<p.at[1], r>> \in links /\ ClassOf(r) = "Switch"
                    /\ MovedTo(p, q, <<r, "network">>) /\ q.dest = <<"Directory", 0>>
    BY <1>9 DEF FromController
  <2>2. Exists(r)
    BY <2>1, LinkedExist DEF ConfigInv
  <2>3. KindOf(r) = "Switch" /\ ~Owned(r)
    BY <2>1, <2>2, Classes, LinksLead DEF ConfigInv
  <2>4. own \subseteq q.crossed
    <3>1. p.at[1] # sequencer(i)
      <4>1. \A j : KindOf(l1(j)) # "Switch"
        BY <1>6
      <4> QED
        BY <2>1, <2>3, <4>1, LinksLead
    <3>2. own \subseteq p.crossed \cup {p.at[1]}
      BY <1>2, <3>1
    <3> QED
      BY <1>3, <3>2
  <2> QED
    BY <2>1, <2>3, <2>4 DEF MovedTo
<1>10. CASE OverSwitch(p, q)
  <2>1. KindOf(p.at[1]) = "Switch" /\ q.dest = p.dest
    BY <1>10 DEF OverSwitch
  <2>2. p.dest = <<"Directory", 0>> /\ own \subseteq q.crossed
    BY <1>2, <1>3, <1>6, <2>1
  <2>3. \A d \in NodesOf(p.dest) : ~Owned(d)
    <3>1. SUFFICES ASSUME NEW m \in made, <<m.class, m.version>> = <<"Directory", 0>>
                   PROVE  ~Owned(m.obj)
      BY <2>2 DEF NodesOf
    <3>2. KindOf(m.obj) = "Directory"
      BY <3>1 DEF ConfigInv, MadeKnown
    <3> QED
      BY <3>2 DEF KindOf, KindNamed, Owned
  <2>4. CASE \E d \in NodesOf(p.dest), b \in Buffers(build.caches) :
               /\ <<p.at[1], d>> \in links
               /\ b.machine = ClassOf(d) /\ b.way = "From" /\ b.vnet = p.vnet
               /\ MovedTo(p, q, <<d, b.buffer>>)
    BY <2>1, <2>2, <2>3, <2>4 DEF MovedTo
  <2>5. CASE \E t : \E d \in NodesOf(p.dest) :
               /\ <<p.at[1], t>> \in links /\ t \in RouterOf(d)
               /\ MovedTo(p, q, <<t, "network">>)
    <3>1. PICK t, d : /\ <<p.at[1], t>> \in links /\ t \in RouterOf(d)
                      /\ MovedTo(p, q, <<t, "network">>)
      BY <2>5
    <3>2. ClassOf(t) = "Switch" /\ Exists(t)
      BY <3>1, LinkedExist DEF RouterOf, ConfigInv
    <3>3. ~Owned(t)
      BY <3>1, <3>2, Classes, LinksLead DEF ConfigInv
    <3> QED
      BY <2>1, <2>2, <3>1, <3>3 DEF MovedTo
  <2> QED
    BY <1>10, <2>4, <2>5 DEF OverSwitch
<1> QED
  BY <1>7, <1>8, <1>9, <1>10

(* and so does each step.                                                  *)
LEMMA PathInvStep ==
  ASSUME ConfigInv, PacketInv, PathInv, [Next]_vars
  PROVE  PathInv'
<1>1. CASE packets' = {}
  BY <1>1 DEF PathInv
<1>2. CASE Same /\ packets' = packets
  BY <1>2 DEF Same, PathInv
<1>3. CASE Simulating /\ Same /\ (Started \/ Sent \/ Travelled)
  <2>1. SUFFICES ASSUME NEW q \in packets', KindOf(q.origin[1]) = "CPU"
                 PROVE  OnOwnPath(build.script, q)
    BY <1>3 DEF Same, PathInv
  <2>2. CASE Started
    <3>1. PICK w, a : w \in wires /\ packets' = {Access(w[1], a, w[2])}
      BY <2>2 DEF Started
    <3>2. q = Access(w[1], a, w[2])
      BY <2>1, <3>1
    <3> QED
      BY <2>1, <3>1, <3>2, PathStarts DEF Access
  <2>3. CASE Sent
    <3>1. PICK b, o, x : /\ b \in Buffers(build.caches) /\ b.machine = ClassOf(o) /\ Exists(o)
                         /\ q.origin = <<o, x>>
      BY <2>1, <2>3 DEF Sent, Exists
    <3>2. KindOf(o) \in {"L1Cache", "Directory"}
      <4>1. b.machine \in {"L1Cache", "Directory"}
        BY <3>1 DEF Buffers, MSICacheBuffers, MSIDirBuffers, MI_exampleBuffers, Buffer
      <4> QED
        BY <3>1, <4>1, Classes DEF ConfigInv
    <3> QED
      BY <2>1, <3>1, <3>2
  <2>4. CASE Travelled
    <3>1. PICK p \in packets : \/ AlongWire(p, q) \/ ToController(p, q)
                               \/ FromController(p, q) \/ OverSwitch(p, q)
      BY <2>1, <2>4 DEF Travelled
    <3>2. q.origin = p.origin
      BY <3>1 DEF AlongWire, ToController, FromController, OverSwitch, MovedTo
    <3>3. OnOwnPath(build.script, p)
      BY <2>1, <3>2 DEF PathInv
    <3> QED
      BY <2>1, <3>1, <3>2, <3>3, PathGoesOn
  <2> QED
    BY <1>3, <2>2, <2>3, <2>4
<1> QED
  BY <1>1, <1>2, <1>3, PacketSteps

-----------------------------------------------------------------------------
(* The L1 controllers get their versions in the order of their numbers.    *)

(* The L1 caches of a piece of a script are made in the order of their     *)
(* numbers, from a on and before b.                                        *)
MakesL1(st) == st.op = "controller" /\ st.class = "L1Cache"
Counts(st, x, y) == IF MakesL1(st) THEN st.obj = l1(x) /\ y = x + 1 ELSE y = x
Numbering(s, c) ==
  /\ c \in [0..Len(s) -> Nat]
  /\ \A k \in 1..Len(s) : Counts(s[k], c[k - 1], c[k])
Numbers(s, a, b) ==
  /\ \E R : s \in Seq(R)
  /\ \E c : Numbering(s, c) /\ c[0] = a /\ c[Len(s)] = b

(* A piece that makes no L1 controller leaves the count.                   *)
LEMMA NumbersNone ==
  ASSUME NEW s, NEW S, Gives(s, S), \A st \in S : ~MakesL1(st), NEW a \in Nat
  PROVE  Numbers(s, a, a)
<1>1. s \in Seq(S) /\ Len(s) \in Nat
  BY DEF Gives
<1>2. PICK c : c = [k \in 0..Len(s) |-> a]
  OBVIOUS
<1>3. \A k \in 1..Len(s) : k - 1 \in 0..Len(s) /\ k \in 0..Len(s) /\ s[k] \in S
  BY <1>1
<1>4. Numbering(s, c) /\ c[0] = a /\ c[Len(s)] = a
  BY <1>1, <1>2, <1>3 DEF Numbering, Counts
<1> QED
  BY <1>1, <1>4 DEF Numbers

(* The declaration of controller i, the i-th, adds one.                    *)
LEMMA NumbersOne ==
  ASSUME NEW i \in Nat
  PROVE  Numbers(NewController(l1(i), "L1Cache"), i, i + 1)
<1>1. PICK st, s, c : /\ st = [op |-> "controller", obj |-> l1(i), class |-> "L1Cache"]
                      /\ s = <<st>> /\ c = [k \in 0..1 |-> i + k]
  OBVIOUS
<1>2. s \in Seq({st}) /\ Len(s) = 1 /\ s[1] = st
  BY <1>1
<1>3. Counts(st, i, i + 1)
  BY <1>1 DEF Counts, MakesL1
<1>4. c \in [0..1 -> Nat] /\ c[0] = i /\ c[1] = i + 1
  BY <1>1
<1>5. \A k \in 1..1 : k = 1 /\ k - 1 = 0
  OBVIOUS
<1>6. Numbering(s, c)
  BY <1>2, <1>3, <1>4, <1>5 DEF Numbering
<1> QED
  BY <1>1, <1>2, <1>4, <1>6 DEF Numbers, NewController

(* One piece after another, the second counting from where the first ends. *)
LEMMA NumbersThen ==
  ASSUME NEW s, NEW t, NEW a, NEW b, NEW d, Numbers(s, a, b), Numbers(t, b, d)
  PROVE  Numbers(s \o t, a, d)
<1>1. PICK R, Q, e, f : /\ s \in Seq(R) /\ t \in Seq(Q)
                        /\ Numbering(s, e) /\ e[0] = a /\ e[Len(s)] = b
                        /\ Numbering(t, f) /\ f[0] = b /\ f[Len(t)] = d
  BY DEF Numbers
<1>2. PICK m, n : m = Len(s) /\ n = Len(t)
  OBVIOUS
<1>3. s \in Seq(R \cup Q) /\ t \in Seq(R \cup Q) /\ m \in Nat /\ n \in Nat
  BY <1>1, <1>2
<1>4. /\ s \o t \in Seq(R \cup Q)
      /\ Len(s \o t) = m + n
      /\ \A k \in 1..(m + n) : (s \o t)[k] = IF k <= m THEN s[k] ELSE t[k - m]
  BY <1>2, <1>3
<1>5. PICK c : c = [k \in 0..(m + n) |-> IF k <= m THEN e[k] ELSE f[k - m]]
  OBVIOUS
<1>6. /\ e \in [0..m -> Nat] /\ f \in [0..n -> Nat]
      /\ \A k \in 1..m : Counts(s[k], e[k - 1], e[k])
      /\ \A k \in 1..n : Counts(t[k], f[k - 1], f[k])
  BY <1>1, <1>2 DEF Numbering
<1>7. c \in [0..(m + n) -> Nat]
  BY <1>3, <1>5, <1>6
<1>8. ASSUME NEW k \in 1..(m + n)
      PROVE  Counts((s \o t)[k], c[k - 1], c[k])
  <2>1. CASE k <= m
    <3>1. k \in 1..m /\ c[k] = e[k] /\ c[k - 1] = e[k - 1] /\ (s \o t)[k] = s[k]
      BY <1>3, <1>4, <1>5, <2>1
    <3> QED
      BY <1>6, <3>1
  <2>2. CASE k > m
    <3>1. PICK j : j = k - m
      OBVIOUS
    <3>2. j \in 1..n /\ k = m + j /\ k - 1 = m + (j - 1)
      BY <1>3, <2>2, <3>1
    <3>3. c[k] = f[j] /\ (s \o t)[k] = t[j]
      BY <1>3, <1>4, <1>5, <2>2, <3>1
    <3>4. c[k - 1] = f[j - 1]
      <4>1. CASE j = 1
        BY <1>1, <1>2, <1>3, <1>5, <3>2, <4>1
      <4>2. CASE j > 1
        BY <1>3, <1>5, <3>2, <4>2
      <4> QED
        BY <3>2, <4>1, <4>2
    <3> QED
      BY <1>6, <3>2, <3>3, <3>4
  <2>3. k <= m \/ k > m
    BY <1>3, <1>8
  <2> QED
    BY <2>1, <2>2, <2>3
<1>9. c[0] = a /\ c[m + n] = d
  <2>1. c[0] = a
    BY <1>1, <1>3, <1>5
  <2>2. CASE n = 0
    BY <1>1, <1>2, <1>3, <1>5, <2>2
  <2>3. CASE n > 0
    BY <1>1, <1>2, <1>3, <1>5, <2>3
  <2> QED
    BY <1>3, <2>1, <2>2, <2>3
<1>10. Numbering(s \o t, c)
  BY <1>4, <1>7, <1>8 DEF Numbering
<1> QED
  BY <1>4, <1>9, <1>10 DEF Numbers

(* A loop whose i-th piece makes controller i makes them in order:         *)
(* induction over the loop.                                                *)
LEMMA NumbersEach ==
  ASSUME NEW n \in Nat, NEW ss, ss = [i \in 1..n |-> ss[i]],
         \A i \in 1..n : Numbers(ss[i], i - 1, i)
  PROVE  Numbers(FlattenSeq(ss), 0, n)
<1>1. Len(ss) = n /\ DOMAIN ss = 1..n
  <2>1. PICK f : f = [i \in 1..n |-> ss[i]]
    OBVIOUS
  <2>2. Len(f) = n /\ DOMAIN f = 1..n
    BY <2>1
  <2> QED
    BY <2>1, <2>2
<1>2. CASE n = 0
  <2>1. FlattenSeq(ss) = ss
    BY <1>1, <1>2 DEF FlattenSeq
  <2>2. ss \in [1..0 -> {}]
    BY <1>1, <1>2
  <2>3. Gives(ss, {})
    BY <2>2 DEF Gives
  <2> QED
    BY <1>2, <2>1, <2>3, NumbersNone
<1>3. CASE n > 0
  <2>1. PICK f : /\ f = [i \in 1..n |-> IF i = 1 THEN ss[i] ELSE f[i - 1] \o ss[i]]
                 /\ FlattenSeq(ss) = f[n]
    BY <1>1, <1>3, Flattened
  <2>2. PICK S : S = {m \in Nat : m + 1 <= n => Numbers(f[m + 1], 0, m + 1)}
    OBVIOUS
  <2>3. \A k \in 1..n : f[k] = IF k = 1 THEN ss[k] ELSE f[k - 1] \o ss[k]
    BY <2>1, Zenon
  <2>4. 0 \in S
    <3>1. f[1] = ss[1] /\ 1 \in 1..n
      BY <1>3, <2>3
    <3> QED
      BY <2>2, <3>1
  <2>5. ASSUME NEW m \in S
        PROVE  m + 1 \in S
    <3>1. PICK j, k : j = m + 1 /\ k = j + 1 /\ m \in Nat
      BY <2>2
    <3>2. SUFFICES ASSUME k <= n
                   PROVE  Numbers(f[k], 0, k)
      BY <2>2, <3>1
    <3>3. Numbers(f[j], 0, j) /\ k \in 1..n /\ k # 1 /\ k - 1 = j
      BY <2>2, <3>1, <3>2
    <3>4. f[k] = f[j] \o ss[k]
      <4>1. f[k] = f[k - 1] \o ss[k]
        BY <2>3, <3>3, Zenon
      <4> QED
        BY <3>3, <4>1
    <3>5. Numbers(ss[k], j, k)
      BY <3>3
    <3> QED
      BY <3>3, <3>4, <3>5, NumbersThen
  <2>6. S = Nat
    BY <2>2, <2>4, <2>5, AllNumbers
  <2>7. PICK j : j = n - 1
    OBVIOUS
  <2>8. j \in Nat /\ j + 1 = n
    BY <1>3, <2>7
  <2>9. Numbers(f[n], 0, n)
    <3>1. j \in S /\ j + 1 <= n
      BY <1>3, <2>6, <2>8
    <3>2. Numbers(f[j + 1], 0, j + 1)
      BY <2>2, <3>1
    <3> QED
      BY <2>8, <3>2
  <2> QED
    BY <2>1, <2>9
<1> QED
  BY <1>2, <1>3

(* The statements of S make no L1 controller.                              *)
Quiet(S) == \A st \in S : ~MakesL1(st)

(* The scripts of parts 1, 2 and 4 make no L1 controller,                  *)
LEMMA QuietClassic ==
  /\ Quiet(simpleSet) /\ Quiet(twoLevelSet) /\ Quiet(simpleMemobjSet) /\ Quiet(simpleCacheSet)
  /\ \A n : Quiet(mySystemSet(n))
<1> USE DEF interruptsSet, memorySet, systemPortSet, cachesSet, new, bind, instantiate,
            Quiet, MakesL1
<1>1. Quiet(simpleSet)
  BY DEF simpleSet
<1>2. Quiet(twoLevelSet)
  BY DEF twoLevelSet
<1>3. Quiet(simpleMemobjSet)
  BY DEF simpleMemobjSet
<1>4. Quiet(simpleCacheSet)
  BY DEF simpleCacheSet
<1>5. Quiet(initFsSet)
  BY DEF initFsSet, attachSet
<1>6. \A i : Quiet(hierarchySet(i))
  BY DEF hierarchySet
<1>7. \A n : Quiet(cpusSet(n)) /\ Quiet(cpuInterruptsSet(n))
  BY DEF cpusSet, cpuInterruptsSet
<1>8. \A n : Quiet(mySystemSet(n))
  BY <1>5, <1>6, <1>7 DEF mySystemSet, hierarchiesSet
<1> QED
  BY <1>1, <1>2, <1>3, <1>4, <1>8

(* and of part 3 nothing but the loop over the L1s does.                   *)
LEMMA QuietRuby ==
  ASSUME NEW p, NEW n
  PROVE  /\ Quiet(msiDirSet(p)) /\ Quiet(miDirSet(p)) /\ Quiet(sequencersSet(n))
         /\ Quiet(networkSet(n)) /\ Quiet(proxySet) /\ Quiet(allCPUPortsSet(p))
         /\ Quiet(allTesterPortsSet(p)) /\ Quiet(memCtrlsSet(p)) /\ Quiet(allInterruptsSet(n))
         /\ Quiet(cpusSet(n)) /\ Quiet({})
         /\ \A o, c : Quiet(new(o, c))
         /\ \A ok : Quiet(check(ok))
         /\ \A o, b : Quiet(toNetwork(o, b)) /\ Quiet(fromNetwork(o, b))
         /\ Quiet(instantiate)
<1> USE DEF new, bind, check, link, controller, instantiate, toNetwork, fromNetwork,
            Quiet, MakesL1
<1>1. Quiet(msiDirSet(p)) /\ Quiet(miDirSet(p))
  BY DEF msiDirSet, miDirSet
<1>2. Quiet(networkSet(n))
  BY DEF networkSet, routersSet, extLinksSet, intLinksSet, linksFromSet
<1>3. Quiet(sequencersSet(n))
  BY DEF sequencersSet, newSequencersSet, pointersSet
<1>4. Quiet(allCPUPortsSet(p)) /\ Quiet(allTesterPortsSet(p))
  <2>1. \A i : Quiet(cpuPortsSet(p, i)) /\ Quiet(testerSet(i))
    BY DEF cpuPortsSet, interruptPortsSet, walkersSet, testerSet
  <2> QED
    BY <2>1 DEF allCPUPortsSet, allTesterPortsSet
<1>5. Quiet(proxySet) /\ Quiet(memCtrlsSet(p)) /\ Quiet(allInterruptsSet(n)) /\ Quiet(cpusSet(n))
  BY DEF proxySet, memCtrlsSet, allInterruptsSet, cpusSet
<1>6. /\ Quiet({})
      /\ \A o, c : Quiet(new(o, c))
      /\ \A ok : Quiet(check(ok))
      /\ \A o, b : Quiet(toNetwork(o, b)) /\ Quiet(fromNetwork(o, b))
      /\ Quiet(instantiate)
  OBVIOUS
<1> QED
  BY <1>1, <1>2, <1>3, <1>4, <1>5, <1>6

(* A piece without L1s may follow.                                         *)
LEMMA NumbersQuiet ==
  ASSUME NEW s, NEW t, NEW T, NEW a, NEW b \in Nat, Numbers(s, a, b), Gives(t, T), Quiet(T)
  PROVE  Numbers(s \o t, a, b)
<1>1. Numbers(t, b, b)
  BY NumbersNone DEF Quiet
<1> QED
  BY <1>1, NumbersThen

(* The declaration of an L1, of either protocol, makes it first and no     *)
(* other.                                                                  *)
LEMMA L1Numbers ==
  ASSUME NEW p, NEW i \in Nat
  PROVE  Numbers(MSI_L1Cache(p, i), i, i + 1) /\ Numbers(MI_L1Cache(p, i), i, i + 1)
<1>1. PICK j : j = i + 1 /\ j \in Nat
  OBVIOUS
<1>2. Numbers(NewController(l1(i), "L1Cache") \o Check(PowerOfTwo(p.lineSize)), i, j)
  <2>1. Numbers(NewController(l1(i), "L1Cache"), i, j)
    BY <1>1, NumbersOne
  <2>2. Gives(Check(PowerOfTwo(p.lineSize)), check(PowerOfTwo(p.lineSize)))
    BY GivesStatement
  <2> QED
    BY <1>1, <2>1, <2>2, NumbersQuiet, QuietRuby
<1>3. /\ Gives(MSI_L1Cache_connectQueues(l1(i)),
               toNetwork(l1(i), "requestToDir") \cup toNetwork(l1(i), "responseToDirOrSibling")
                 \cup fromNetwork(l1(i), "forwardFromDir")
                 \cup fromNetwork(l1(i), "responseFromDirOrSibling"))
      /\ Gives(MI_L1Cache_connectQueues(l1(i)),
               toNetwork(l1(i), "requestFromCache") \cup toNetwork(l1(i), "responseFromCache")
                 \cup fromNetwork(l1(i), "forwardToCache")
                 \cup fromNetwork(l1(i), "responseToCache"))
  BY GivesAll, GivesController, Zenon DEF MSI_L1Cache_connectQueues, MI_L1Cache_connectQueues
<1>4. PICK S, T : /\ Gives(MSI_L1Cache_connectQueues(l1(i)), S) /\ Quiet(S)
                  /\ Gives(MI_L1Cache_connectQueues(l1(i)), T) /\ Quiet(T)
  <2>1. \A o, b : Quiet(toNetwork(o, b)) /\ Quiet(fromNetwork(o, b))
    BY QuietRuby
  <2>2. PICK S : S = toNetwork(l1(i), "requestToDir")
                       \cup toNetwork(l1(i), "responseToDirOrSibling")
                       \cup fromNetwork(l1(i), "forwardFromDir")
                       \cup fromNetwork(l1(i), "responseFromDirOrSibling")
    OBVIOUS
  <2>3. PICK T : T = toNetwork(l1(i), "requestFromCache")
                       \cup toNetwork(l1(i), "responseFromCache")
                       \cup fromNetwork(l1(i), "forwardToCache")
                       \cup fromNetwork(l1(i), "responseToCache")
    OBVIOUS
  <2>4. Quiet(S) /\ Quiet(T)
    BY <2>1, <2>2, <2>3 DEF Quiet
  <2>5. /\ Gives(MSI_L1Cache_connectQueues(l1(i)), S)
        /\ Gives(MI_L1Cache_connectQueues(l1(i)), T)
    BY <1>3, <2>2, <2>3, Zenon
  <2> QED
    BY <2>4, <2>5
<1> QED
  BY <1>1, <1>2, <1>4, NumbersQuiet, Zenon DEF MSI_L1Cache, MI_L1Cache

(* A Ruby system's setup makes its L1s in the order of their numbers,      *)
LEMMA SetupNumbers ==
  ASSUME NEW p, NEW n \in Nat, NEW k \in Nat, p.cpus = n, p.memCtrls = k
  PROVE  /\ Numbers(MSI_setup(p), 0, n) /\ Numbers(MI_setup(p), 0, n)
         /\ Numbers(TestCacheSystem_setup(p), 0, n)
<1> DEFINE A == ForEach(p.cpus, LAMBDA i : MSI_L1Cache(p, i))
           B == ForEach(p.cpus, LAMBDA i : MI_L1Cache(p, i))
           C == ForEach(p.cpus, LAMBDA i : connectCPU(p, i))
           D == ForEach(p.cpus, connectTester)
<1>1. Numbers(A, 0, n)
  <2>1. PICK ss : ss = [i \in 1..n |-> MSI_L1Cache(p, i - 1)]
    OBVIOUS
  <2>2. ASSUME NEW i \in 1..n
        PROVE  Numbers(ss[i], i - 1, i)
    <3>1. PICK j : j = i - 1
      OBVIOUS
    <3>2. j \in Nat /\ j + 1 = i /\ ss[i] = MSI_L1Cache(p, j)
      BY <2>1, <3>1
    <3>3. Numbers(ss[i], j, i)
      BY <3>2, L1Numbers
    <3> QED
      BY <3>1, <3>3
  <2>3. A = FlattenSeq(ss)
    BY <2>1 DEF ForEach
  <2>4. ss = [i \in 1..n |-> ss[i]]
    BY <2>1
  <2> HIDE DEF A
  <2>5. Numbers(FlattenSeq(ss), 0, n)
    BY <2>2, <2>4, NumbersEach
  <2> QED
    BY <2>3, <2>5
<1>2. Numbers(B, 0, n)
  <2>1. PICK ss : ss = [i \in 1..n |-> MI_L1Cache(p, i - 1)]
    OBVIOUS
  <2>2. ASSUME NEW i \in 1..n
        PROVE  Numbers(ss[i], i - 1, i)
    <3>1. PICK j : j = i - 1
      OBVIOUS
    <3>2. j \in Nat /\ j + 1 = i /\ ss[i] = MI_L1Cache(p, j)
      BY <2>1, <3>1
    <3>3. Numbers(ss[i], j, i)
      BY <3>2, L1Numbers
    <3> QED
      BY <3>1, <3>3
  <2>3. B = FlattenSeq(ss)
    BY <2>1 DEF ForEach
  <2>4. ss = [i \in 1..n |-> ss[i]]
    BY <2>1
  <2> HIDE DEF B
  <2>5. Numbers(FlattenSeq(ss), 0, n)
    BY <2>2, <2>4, NumbersEach
  <2> QED
    BY <2>3, <2>5
<1>3. Gives(C, allCPUPortsSet(p)) /\ Gives(D, allTesterPortsSet(p))
  BY RubyLoopsGive, Zenon
<1>4. /\ MSI_setup(p) = Check(p.built = "MSI") \o New(network, "Network") \o A
                          \o MSI_DirController(p) \o sequencers(p.cpus)
                          \o connectControllers(p.cpus) \o connectSystemPortToRuby \o C
      /\ MI_setup(p) = Check(p.built = "MI_example") \o New(network, "Network") \o B
                         \o MI_DirController(p) \o sequencers(p.cpus)
                         \o connectControllers(p.cpus) \o connectSystemPortToRuby \o C
      /\ TestCacheSystem_setup(p) =
           Check(p.built = "MSI") \o New(network, "Network") \o A
             \o MSI_DirController(p) \o sequencers(p.cpus)
             \o connectControllers(p.cpus) \o connectSystemPortToRuby \o D
  BY Zenon DEF MSI_setup, MI_setup, TestCacheSystem_setup, MI_connectControllers
<1> HIDE DEF A, B, C, D
<1>5. /\ Numbers(Check(p.built = "MSI") \o New(network, "Network") \o A, 0, n)
      /\ Numbers(Check(p.built = "MI_example") \o New(network, "Network") \o B, 0, n)
  <2>1. ASSUME NEW ok
        PROVE  Numbers(Check(ok) \o New(network, "Network"), 0, 0)
    <3>1. Gives(Check(ok), check(ok)) /\ Gives(New(network, "Network"), new(network, "Network"))
      BY GivesStatement
    <3>2. Numbers(Check(ok), 0, 0)
      BY <3>1, NumbersNone, QuietRuby DEF Quiet
    <3> QED
      BY <3>1, <3>2, NumbersQuiet, QuietRuby
  <2> QED
    BY <1>1, <1>2, <2>1, NumbersThen
<1>6. ASSUME NEW s, Numbers(s, 0, n), NEW t, NEW T, Gives(t, T), Quiet(T),
             NEW u, NEW U, Gives(u, U), Quiet(U)
      PROVE  Numbers(s \o t \o sequencers(p.cpus) \o connectControllers(p.cpus)
                       \o connectSystemPortToRuby \o u, 0, n)
  <2>1. /\ Gives(sequencers(p.cpus), sequencersSet(n))
        /\ Gives(connectControllers(p.cpus), networkSet(n))
        /\ Gives(connectSystemPortToRuby, proxySet)
        /\ Quiet(sequencersSet(n)) /\ Quiet(networkSet(n)) /\ Quiet(proxySet)
    BY SequencersGive, NetworkGives, PortsGive, QuietRuby
  <2>2. Numbers(s \o t, 0, n)
    BY <1>6, NumbersQuiet
  <2>3. Numbers(s \o t \o sequencers(p.cpus), 0, n)
    BY <2>1, <2>2, NumbersQuiet
  <2>4. Numbers(s \o t \o sequencers(p.cpus) \o connectControllers(p.cpus), 0, n)
    BY <2>1, <2>3, NumbersQuiet
  <2>5. Numbers(s \o t \o sequencers(p.cpus) \o connectControllers(p.cpus)
                  \o connectSystemPortToRuby, 0, n)
    BY <2>1, <2>4, NumbersQuiet
  <2> QED
    BY <1>6, <2>5, NumbersQuiet
<1>7. /\ Gives(MSI_DirController(p), msiDirSet(p)) /\ Quiet(msiDirSet(p))
      /\ Gives(MI_DirController(p), miDirSet(p)) /\ Quiet(miDirSet(p))
      /\ Quiet(allCPUPortsSet(p)) /\ Quiet(allTesterPortsSet(p))
  BY ControllersGive, QuietRuby
<1>8. Numbers(MSI_setup(p), 0, n)
  BY <1>3, <1>4, <1>5, <1>6, <1>7
<1>9. Numbers(MI_setup(p), 0, n)
  BY <1>3, <1>4, <1>5, <1>6, <1>7
<1>10. Numbers(TestCacheSystem_setup(p), 0, n)
  BY <1>3, <1>4, <1>5, <1>6, <1>7
<1> QED
  BY <1>8, <1>9, <1>10

(* and so does every script.                                               *)
LEMMA ProgramNumbers ==
  ASSUME NEW b \in Builds
  PROVE  \E n \in Nat : Numbers(Program[b], 0, n)
<1>1. PICK n, k : n = b.cpus /\ k = b.memCtrls /\ n \in Nat /\ k \in Nat
  BY BuildsAreRecords
<1>2. Program[b] = Script(b)
  BY DEF Program
<1>3. CASE b.script = "simple_ruby"
  <2>1. PICK s, S, t :
          /\ s = IF b.isa = "x86" THEN ForEach(b.cpus, createInterruptController) ELSE <<>>
          /\ S = IF b.isa = "x86" THEN allInterruptsSet(b.cpus) ELSE {}
          /\ t = IF b.caches = "MSI" THEN MSI_setup(b) ELSE MI_setup(b)
    OBVIOUS
  <2>2. Gives(s, S) /\ Quiet(S)
    BY <1>1, <2>1, RubyLoopsGive, QuietRuby, GivesNone, Zenon
  <2>3. Numbers(t, 0, n)
    BY <1>1, <2>1, SetupNumbers
  <2>4. simple_ruby(b) = New(system, "System") \o ForEach(b.cpus, LAMBDA i : New(cpu(i), "CPU"))
                           \o createMemCtrls(b) \o s \o t \o Instantiate
    BY <2>1, Zenon DEF simple_ruby
  <2>5. PICK u : u = ForEach(b.cpus, LAMBDA i : New(cpu(i), "CPU"))
    OBVIOUS
  <2>6. Gives(u, cpusSet(b.cpus)) /\ Gives(createMemCtrls(b), memCtrlsSet(b))
    BY <1>1, <2>5, RubyLoopsGive, Zenon
  <2>7. Numbers(New(system, "System"), 0, 0)
    BY GivesStatement, NumbersNone, QuietRuby DEF Quiet
  <2>8. Numbers(New(system, "System") \o u \o createMemCtrls(b) \o s, 0, 0)
    <3>1. Numbers(New(system, "System") \o u, 0, 0)
      BY <2>6, <2>7, NumbersQuiet, QuietRuby
    <3>2. Numbers(New(system, "System") \o u \o createMemCtrls(b), 0, 0)
      BY <2>6, <3>1, NumbersQuiet, QuietRuby
    <3> QED
      BY <2>2, <3>2, NumbersQuiet
  <2>9. Numbers(New(system, "System") \o u \o createMemCtrls(b) \o s \o t, 0, n)
    BY <2>3, <2>8, NumbersThen
  <2>10. Numbers(New(system, "System") \o u \o createMemCtrls(b) \o s \o t \o Instantiate, 0, n)
    BY <1>1, <2>9, NumbersQuiet, GivesStatement, QuietRuby
  <2>11. simple_ruby(b) = New(system, "System") \o u \o createMemCtrls(b) \o s \o t \o Instantiate
    BY <2>4, <2>5, Zenon
  <2>12. Script(b) = simple_ruby(b)
    BY <1>3 DEF Script
  <2> QED
    BY <1>1, <1>2, <2>10, <2>11, <2>12, Zenon
<1>4. CASE b.script = "ruby_test"
  <2>1. Numbers(import_ruby_caches(b), 0, 0)
    BY GivesStatement, NumbersNone, QuietRuby DEF Quiet, import_ruby_caches
  <2>2. Numbers(import_ruby_caches(b) \o New(system, "System") \o New(tester, "RubyTester"), 0, 0)
    BY <2>1, NumbersQuiet, GivesStatement, QuietRuby
  <2>3. Gives(createMemCtrls(b), memCtrlsSet(b))
    BY <1>1, RubyLoopsGive, Zenon
  <2>4. Numbers(import_ruby_caches(b) \o New(system, "System") \o New(tester, "RubyTester")
                  \o createMemCtrls(b), 0, 0)
    BY <2>2, <2>3, NumbersQuiet, QuietRuby
  <2>5. Numbers(import_ruby_caches(b) \o New(system, "System") \o New(tester, "RubyTester")
                  \o createMemCtrls(b) \o TestCacheSystem_setup(b), 0, n)
    BY <1>1, <2>4, NumbersThen, SetupNumbers
  <2>6. Numbers(ruby_test(b), 0, n)
    <3>1. Numbers(import_ruby_caches(b) \o New(system, "System") \o New(tester, "RubyTester")
                    \o createMemCtrls(b) \o TestCacheSystem_setup(b) \o Instantiate, 0, n)
      BY <1>1, <2>5, NumbersQuiet, GivesStatement, QuietRuby
    <3> QED
      BY <3>1, Zenon DEF ruby_test
  <2>7. Script(b) = ruby_test(b)
    BY <1>4 DEF Script
  <2> QED
    BY <1>1, <1>2, <2>6, <2>7, Zenon
<1>5. CASE b.script \notin {"simple_ruby", "ruby_test"}
  <2>1. Gives(Program[b], StatementsOf(b))
    BY ProgramGives
  <2>2. Quiet(StatementsOf(b))
    BY <1>5, QuietClassic, AllScripts DEF StatementsOf
  <2> QED
    BY <2>1, <2>2, NumbersNone DEF Quiet
<1> QED
  BY <1>3, <1>4, <1>5

(* The L1 controllers are made in the order of their numbers.              *)
NumberInv ==
  /\ \A m \in made : m.class = "L1Cache" => m.obj = l1(m.version)
  /\ \E c : /\ Numbering(Program[build], c) /\ c[0] = 0
            /\ versions["L1Cache"] = c[next - 1]

(* No L1 has been made at first.                                           *)
LEMMA NumberInvInit == Init => NumberInv
<1>1. SUFFICES ASSUME Init
               PROVE  NumberInv
  OBVIOUS
<1>2. build \in Builds /\ next = 1 /\ made = {} /\ versions["L1Cache"] = 0
  BY <1>1 DEF Init
<1>3. PICK c : Numbering(Program[build], c) /\ c[0] = 0
  BY <1>2, ProgramNumbers DEF Numbers
<1>4. next - 1 = 0
  BY <1>2
<1> QED
  BY <1>2, <1>3, <1>4 DEF NumberInv

(* The counter of versions follows the script's numbering, so the L1 of    *)
(* number i has version i.                                                 *)
LEMMA NumberInvStep ==
  ASSUME ConfigInv, NumberInv, [Next]_vars
  PROVE  NumberInv'
<1>1. CASE UNCHANGED <<build, next, systemVars>>
  BY <1>1 DEF NumberInv, systemVars
<1>2. PICK c, s, n, st :
        /\ s = Program[build] /\ n = next /\ st = Statement
        /\ Numbering(s, c) /\ c[0] = 0 /\ versions["L1Cache"] = c[n - 1]
  BY DEF NumberInv
<1>3. ASSUME NEW op, Execute(op)
      PROVE  /\ build' = build /\ next' - 1 = n /\ st.op = op /\ IsStatement(st)
             /\ Counts(st, c[n - 1], c[n])
             /\ MakesL1(st) => c[n] = c[n - 1] + 1 /\ st.obj = l1(c[n - 1])
             /\ ~MakesL1(st) => c[n] = c[n - 1]
  <2>1. n \in 1..Len(s) /\ st = s[n] /\ IsStatement(st) /\ Len(s) \in Nat
    BY <1>2, <1>3, TheStatement DEF ConfigInv, Execute, Statement
  <2>2. Counts(st, c[n - 1], c[n])
    BY <1>2, <2>1 DEF Numbering
  <2>3. next' = n + 1 /\ n \in Nat
    BY <1>2, <1>3, <2>1 DEF Execute
  <2> QED
    BY <1>2, <1>3, <2>1, <2>2, <2>3 DEF Execute, Counts
<1>4. CASE MakeController
  <2>1. PICK d, v : d = Statement.class /\ v = versions[d]
    OBVIOUS
  <2>2. /\ Execute("controller")
        /\ versions' = [versions EXCEPT ![d] = @ + 1]
        /\ made' = made \cup {[obj |-> st.obj, class |-> d, version |-> versions'[d] - 1]}
    BY <1>2, <1>4, <2>1 DEF MakeController
  <2>3. /\ st.op = "controller" /\ st.class = d /\ d \in {"L1Cache", "Directory"}
        /\ versions \in [{"L1Cache", "Directory"} -> Nat]
    BY <1>2, <1>3, <2>1, <2>2 DEF IsStatement, Makes, ConfigInv, VersionsUnique
  <2>4. made' = made \cup {[obj |-> st.obj, class |-> d, version |-> v]}
    BY <2>1, <2>2, <2>3
  <2>5. CASE d = "L1Cache"
    <3>1. MakesL1(st)
      BY <2>3, <2>5 DEF MakesL1
    <3>2. st.obj = l1(v) /\ versions'["L1Cache"] = c[n]
      BY <1>2, <1>3, <2>1, <2>2, <2>3, <2>5, <3>1
    <3>3. \A m \in made' : m.class = "L1Cache" => m.obj = l1(m.version)
      BY <2>4, <3>2 DEF NumberInv
    <3> QED
      BY <1>2, <1>3, <2>2, <3>2, <3>3 DEF NumberInv
  <2>6. CASE d = "Directory"
    <3>1. ~MakesL1(st)
      BY <2>3, <2>6 DEF MakesL1
    <3>2. versions'["L1Cache"] = c[n]
      BY <1>2, <1>3, <2>1, <2>2, <2>3, <2>6, <3>1
    <3>3. \A m \in made' : m.class = "L1Cache" => m.obj = l1(m.version)
      BY <2>4, <2>6 DEF NumberInv
    <3> QED
      BY <1>2, <1>3, <2>2, <3>2, <3>3 DEF NumberInv
  <2> QED
    BY <2>3, <2>5, <2>6
<1>5. CASE MakeObject
  <2>1. /\ Execute("new") /\ versions' = versions
        /\ made' = made \cup {[obj |-> st.obj, class |-> st.class, version |-> 0]}
    BY <1>2, <1>5 DEF MakeObject
  <2>2. ~MakesL1(st) /\ st.class # "L1Cache"
    BY <1>3, <2>1 DEF MakesL1, IsStatement, Makes
  <2>3. \A m \in made' : m.class = "L1Cache" => m.obj = l1(m.version)
    BY <2>1, <2>2 DEF NumberInv
  <2> QED
    BY <1>2, <1>3, <2>1, <2>2, <2>3 DEF NumberInv
<1>6. CASE BindPorts \/ MakeLink \/ GoOn
  <2>1. /\ \E op : Execute(op) /\ op # "controller"
        /\ versions' = versions /\ made' = made
    BY <1>6 DEF BindPorts, MakeLink, GoOn, systemVars
  <2>2. ~MakesL1(st)
    BY <1>3, <2>1 DEF MakesL1
  <2> QED
    BY <1>2, <1>3, <2>1, <2>2 DEF NumberInv
<1>7. CASE Abort \/ SendRequest \/ SendMessage \/ Travel \/ UNCHANGED vars
  BY <1>1, <1>7, HopStays DEF Abort, SendRequest, SendMessage, Travel, vars, systemVars
<1> QED
  BY <1>4, <1>5, <1>6, <1>7 DEF Next, Run

(* A CPU's request has passed what is its own, and nothing that is         *)
(* another's: the L1 that is sequencer(i)'s is l1(i), the one of version   *)
(* i.                                                                      *)
LEMMA PrivateHolds ==
  ASSUME ConfigInv, PacketInv, PathInv, NumberInv
  PROVE  PrivatePath
<1>1. SUFFICES ASSUME NEW p \in packets, ClassOf(p.origin[1]) = "CPU"
               PROVE  /\ \A j \in 0..(build.cpus - 1) :
                           p.crossed \cap OwnedBy(j) \subseteq OwnPath(p.origin)
                      /\ ClassOf(p.at[1]) = "MemCtrl" => OwnPath(p.origin) \subseteq p.crossed
                      /\ Ruby /\ Exists(l1(p.origin[1][2])) =>
                           VersionOf(l1(p.origin[1][2])) = p.origin[1][2]
  BY DEF PrivatePath
<1>2. PICK i, own, s : /\ i = p.origin[1][2] /\ s = build.script
                       /\ own = OwnOf(s, p.origin)
  OBVIOUS
<1>3. KindOf(p.origin[1]) = "CPU" /\ MadeKnown /\ Exists(p.at[1])
  BY <1>1, Classes DEF ConfigInv, PacketInv
<1>4. /\ \A o \in p.crossed : Owned(o) => o \in own
      /\ ~Owned(p.at[1]) => own \subseteq p.crossed
  <2>1. \A j : Owned(icache(j)) /\ Owned(dcache(j)) /\ Owned(sequencer(j)) /\ Owned(l1(j))
    BY DEF Owned, icache, dcache, sequencer, l1
  <2>2. OnOwnPath(s, p)
    BY <1>2, <1>3 DEF PathInv
  <2> QED
    BY <1>2, <2>1, <2>2 DEF OnOwnPath
<1>5. \A o : Exists(o) /\ KindOf(o) = "Cache" <=> o \in Caches
  BY <1>3 DEF Caches, Exists, MadeKnown
<1>6. \A o \in own : Exists(o) => o \in OwnPath(p.origin)
  <2>1. CASE Ruby
    BY <1>2, <2>1 DEF OwnPath, OwnOf, Ruby
  <2>2. CASE ~Ruby
    <3>1. \A j : KindOf(icache(j)) = "Cache" /\ KindOf(dcache(j)) = "Cache"
      BY DEF KindOf, KindNamed, icache, dcache
    <3>2. s \notin {"simple_ruby", "ruby_test"}
      BY <1>2, <2>2 DEF Ruby
    <3> QED
      BY <1>2, <1>5, <2>2, <3>1, <3>2 DEF OwnPath, OwnOf
  <2> QED
    BY <2>1, <2>2
<1>7. OwnPath(p.origin) \subseteq own
  <2>1. CASE Ruby
    BY <1>2, <2>1 DEF OwnPath, OwnOf, Ruby
  <2>2. CASE ~Ruby
    <3>1. \A c \in Caches : s \in {"two_level", "two_level_opts", "x86", "x86_mp"}
      BY <1>2, <2>2, CacheTable DEF CachesOf
    <3> QED
      BY <1>2, <2>2, <3>1 DEF OwnPath, OwnOf
  <2> QED
    BY <2>1, <2>2
<1>8. ASSUME NEW j
      PROVE  p.crossed \cap OwnedBy(j) \subseteq OwnPath(p.origin)
  <2>1. \A o \in OwnedBy(j) : Owned(o)
    BY DEF OwnedBy, Owned, icache, dcache, sequencer, l1
  <2>2. \A o \in p.crossed : Exists(o)
    BY DEF PacketInv
  <2> QED
    BY <1>4, <1>6, <2>1, <2>2
<1>9. ASSUME ClassOf(p.at[1]) = "MemCtrl"
      PROVE  OwnPath(p.origin) \subseteq p.crossed
  <2>1. KindOf(p.at[1]) = "MemCtrl"
    BY <1>3, <1>9, Classes
  <2>2. ~Owned(p.at[1])
    BY <2>1 DEF KindOf, KindNamed, Owned
  <2> QED
    BY <1>4, <1>7, <2>2
<1>10. ASSUME Exists(l1(i))
       PROVE  VersionOf(l1(i)) = i
  <2>1. PICK n : n = CHOOSE m \in made : m.obj = l1(i)
    OBVIOUS
  <2>2. n \in made /\ n.obj = l1(i)
    BY <1>10, <2>1, Zenon DEF Exists
  <2>3. n.class = "L1Cache"
    BY <1>3, <2>2 DEF MadeKnown, KindOf, KindNamed, l1
  <2>4. n.obj = l1(n.version)
    BY <2>2, <2>3 DEF NumberInv
  <2>5. n.version = i
    BY <2>2, <2>4 DEF l1
  <2> QED
    BY <2>1, <2>5 DEF VersionOf
<1> QED
  BY <1>2, <1>8, <1>9, <1>10

(* In every configuration a CPU reaches memory over its own L1 cache, or   *)
(* its own sequencer and controller, and over no other CPU's.              *)
THEOREM ConfigsPrivate == Spec => []PrivatePath
<1>1. Init => ConfigInv /\ PacketInv /\ PathInv /\ NumberInv
  BY ConfigInit, PacketInvInit, NumberInvInit DEF Init, PathInv
<1>2. (ConfigInv /\ PacketInv /\ PathInv /\ NumberInv) /\ [Next]_vars
        => (ConfigInv /\ PacketInv /\ PathInv /\ NumberInv)'
  BY ConfigStep, PacketInvStep, PathInvStep, NumberInvStep
<1>3. ConfigInv /\ PacketInv /\ PathInv /\ NumberInv => PrivatePath
  BY PrivateHolds
<1> QED
  BY <1>1, <1>2, <1>3, PTL DEF Spec

-----------------------------------------------------------------------------
(* Messages are delivered (MessagesArrive).                                *)

(* Where the wires of a Ruby system lead from what sends and from the      *)
(* directory.                                                              *)
RubyWire(w) ==
  /\ KindOf(w[1][1]) \in Sources =>
       /\ KindOf(w[2][1]) \in {"RubySequencer", "RubyPortProxy"}
       /\ w[2][2] # "mandatoryQueue"
  /\ w[1][2] = "memory" => w[2] = <<mem_ctrl(0), "port">>

(* What the table of a Ruby system's connections says of the senders and   *)
(* of the directory.                                                       *)
LEMMA RubyWireTable ==
  ASSUME ConfigInv, Ruby, NEW w \in wires
  PROVE  RubyWire(w)
<1>1. PICK b : b = build
  OBVIOUS
<1>2. w \in WiresOf(b) /\ b.script \in {"simple_ruby", "ruby_test"}
  BY <1>1, WireTable DEF Ruby
<1>3. \E i : w \in RubyWires(i) \cup NetworkWires(l1(i)) \cup NetworkWires(dir)
  BY <1>2 DEF WiresOf, RubyScriptWires
<1> USE DEF wire, KindOf, KindNamed, RubyWire, Sources
<1>4. ASSUME NEW i, w \in RubyWires(i)
      PROVE  RubyWire(w)
  BY <1>4 DEF RubyWires, cpu, sequencer, interrupts, tester, system, sys_port_proxy, dir,
              mem_ctrl
<1>5. ASSUME NEW o, w \in NetworkWires(o), KindOf(o) \in {"L1Cache", "Directory"}
      PROVE  RubyWire(w)
  BY <1>5 DEF NetworkWires, network, BufferNames
<1>6. \A i : KindOf(l1(i)) = "L1Cache" /\ KindOf(dir) = "Directory"
  BY DEF l1, dir
<1> QED
  BY <1>3, <1>4, <1>5, <1>6

(* A controller's switch is linked back to it, and no switch to itself.    *)
LEMMA SwitchLinks ==
  ASSUME ConfigInv, Simulating, NEW a, NEW s, <<a, s>> \in links, KindOf(s) = "Switch"
  PROVE  /\ KindOf(a) \in {"L1Cache", "Directory"} => <<s, a>> \in links
         /\ a # s
<1>1. PICK b, n : b = build /\ n = build.cpus /\ n \in Nat
  BY BuildsAreRecords DEF ConfigInv
<1>2. <<a, s>> \in RubyLinks(n) /\ Ruby
  BY <1>1, LinkTable
<1>3. b \in Builds /\ b.script \in {"simple_ruby", "ruby_test"}
  BY <1>1, <1>2 DEF ConfigInv, Ruby
<1>4. \A i : /\ KindOf(node(n, i)) \in {"L1Cache", "Directory"} /\ KindOf(router(i)) = "Switch"
             /\ KindOf(l1(i)) = "L1Cache" /\ KindOf(sequencer(i)) = "RubySequencer"
  BY DEF node, l1, dir, router, sequencer, KindOf, KindNamed
<1>5. \/ \E i \in 0..n : a = node(n, i) /\ s = router(i)
      \/ \E i \in 0..n : \E j \in (0..n) \ {i} : a = router(i) /\ s = router(j)
  BY <1>2, <1>4 DEF RubyLinks
<1>6. ASSUME NEW i \in 0..n
      PROVE  <<router(i), node(n, i)>> \in links
  <2>1. link(router(i), node(n, i)) \subseteq StatementsOf(b)
    <3>1. networkSet(n) \subseteq StatementsOf(b)
      BY <1>1, <1>3 DEF StatementsOf, simpleRubySet, rubyTestSet, msiSetupSet, miSetupSet,
                        testSetupSet
    <3>2. link(router(i), node(n, i)) \subseteq extLinksSet(n)
      BY DEF extLinksSet
    <3> QED
      BY <3>1, <3>2 DEF networkSet
  <2>2. PICK st \in StatementsOf(build) :
          st = [op |-> "link", from |-> router(i), to |-> node(n, i)]
    BY <1>1, <2>1 DEF link
  <2> QED
    BY <2>2, AllExecuted DEF Executed
<1>7. \A i, j : router(i) = router(j) => i = j
  BY DEF router
<1> QED
  BY <1>4, <1>5, <1>6, <1>7

(* The senders of messages; and the switches that a packet has passed.     *)
Controllers == {"L1Cache", "Directory"}
Message(p) == KindOf(p.origin[1]) \in Controllers
Passed(p) == {o \in p.crossed : KindOf(o) = "Switch"}

(* Where a packet of a Ruby system is: on its way to the controller that   *)
(* is to send a request for it; at a switch, the first or, next to the     *)
(* destination, the second; or at its destination and beyond.              *)
BeforeNetwork(p) ==
  /\ ~Message(p)
  /\ KindOf(p.at[1]) \in {"RubySequencer", "RubyPortProxy", "L1Cache"}
  /\ \A o \in p.crossed : KindOf(o) = "RubySequencer"
  /\ KindOf(p.at[1]) = "RubySequencer" => p.crossed = {}
  /\ p.at[2] = "mandatoryQueue" => KindOf(p.at[1]) = "L1Cache"

InNetwork(p) ==
  /\ KindOf(p.at[1]) = "Switch" /\ p.at[2] = "network" /\ p.at[1] \notin p.crossed
  /\ p.dest[1] \in Controllers /\ (~Message(p) => p.dest[1] = "Directory")
  /\ \A o \in p.crossed :
       KindOf(o) = "Switch" \/ (~Message(p) /\ KindOf(o) \in {"RubySequencer", "L1Cache"})
  /\ \/ Passed(p) = {}
     \/ /\ \E r : Passed(p) = {r}
        /\ \E d \in NodesOf(p.dest) : <<p.at[1], d>> \in links

Delivered(p) ==
  /\ p.at[2] # "mandatoryQueue"
  /\ \E r, s : Passed(p) \subseteq {r, s}
  /\ IF Message(p)
     THEN /\ p.at[1] \in NodesOf(p.dest) /\ \A o \in p.crossed : KindOf(o) = "Switch"
          /\ \E b \in Buffers(build.caches) :
               /\ b.machine = ClassOf(p.at[1]) /\ b.buffer = p.at[2]
               /\ b.way = "From" /\ b.vnet = p.vnet
     ELSE /\ KindOf(p.at[1]) \in {"Directory", "MemCtrl"}
          /\ \A o \in p.crossed :
               /\ KindOf(o) \in {"RubySequencer", "L1Cache", "Switch", "Directory"}
               /\ KindOf(o) = "Directory" => KindOf(p.at[1]) = "MemCtrl"

(* A message is for one controller, and not its sender.                    *)
Addressed(p) ==
  Message(p) => \E d : /\ NodesOf(p.dest) = {d} /\ d # p.origin[1]
                       /\ KindOf(d) \in Controllers

PhaseInv ==
  \A p \in packets :
    IF Ruby
    THEN Addressed(p) /\ (BeforeNetwork(p) \/ InNetwork(p) \/ Delivered(p))
    ELSE ~Message(p) /\ Passed(p) = {} /\ KindOf(p.at[1]) # "Switch"

(* A controller is the only one of its class and version.                  *)
LEMMA OneNode ==
  ASSUME ConfigInv, NEW d, Exists(d), KindOf(d) \in Controllers
  PROVE  NodesOf(MachineID(d)) = {d}
<1>1. PICK n : n = CHOOSE m \in made : m.obj = d
  OBVIOUS
<1>2. n \in made /\ n.obj = d
  BY <1>1, Zenon DEF Exists
<1>3. MachineID(d) = <<n.class, n.version>>
  BY <1>1 DEF MachineID, ClassOf, VersionOf
<1>4. n.class \in Controllers
  BY <1>2 DEF ConfigInv, MadeKnown
<1>5. \A m \in made : <<m.class, m.version>> = <<n.class, n.version>> => m.obj = d
  BY <1>2, <1>4 DEF ConfigInv, VersionsUnique, Controllers
<1> QED
  BY <1>2, <1>3, <1>5 DEF NodesOf

(* Who has the machine ID of a message is a controller of that class.      *)
LEMMA NodeKinds ==
  ASSUME ConfigInv, NEW id, NEW d \in NodesOf(id)
  PROVE  Exists(d) /\ KindOf(d) = id[1] /\ ClassOf(d) = id[1]
<1>1. PICK m \in made : m.obj = d /\ <<m.class, m.version>> = id
  BY DEF NodesOf
<1>2. KindOf(d) = id[1] /\ Exists(d)
  BY <1>1 DEF ConfigInv, MadeKnown, Exists
<1> QED
  BY <1>2, Classes DEF ConfigInv

(* Every buffer is of an L1 or a directory, and none is the mandatory      *)
(* queue.                                                                  *)
LEMMA BufferKinds ==
  ASSUME build \in Builds, NEW b \in Buffers(build.caches)
  PROVE  b.machine \in Controllers /\ b.buffer # "mandatoryQueue"
  BY DEF Buffers, MSICacheBuffers, MSIDirBuffers, MI_exampleBuffers, Buffer, Controllers

(* A request starts before the network,                                    *)
LEMMA PhaseStarts ==
  ASSUME ConfigInv, NEW w \in wires, NEW a, ClassOf(w[1][1]) \in Sources,
         NEW q, q = Access(w[1], a, w[2])
  PROVE  IF Ruby THEN Addressed(q) /\ BeforeNetwork(q)
                 ELSE ~Message(q) /\ Passed(q) = {} /\ KindOf(q.at[1]) # "Switch"
<1>1. KindOf(w[1][1]) \in Sources
  BY Classes DEF ConfigInv, WiresKnown
<1>2. /\ q.origin = w[1] /\ q.crossed = {} /\ q.at = w[2] /\ Passed(q) = {}
      /\ ~Message(q)
  BY <1>1 DEF Access, Passed, Message, Sources, Controllers
<1>3. CASE Ruby
  BY <1>1, <1>2, <1>3, RubyWireTable DEF RubyWire, Addressed, BeforeNetwork
<1>4. CASE ~Ruby
  BY <1>2, <1>4, WiresGood DEF GoodWire
<1> QED
  BY <1>3, <1>4

(* a message starts in it, addressed to one other controller,              *)
LEMMA PhaseSends ==
  ASSUME ConfigInv, Simulating, NEW b, NEW o, NEW d, NEW r, NEW q,
         b \in Buffers(build.caches), b.machine = ClassOf(o), Exists(o), Exists(d), d # o,
         ClassOf(d) \in SendsTo(b.buffer), <<o, r>> \in links, ClassOf(r) = "Switch",
         q = [origin |-> <<o, b.buffer>>, addr |-> KB(0), dest |-> MachineID(d),
              vnet |-> b.vnet, at |-> <<r, "network">>, crossed |-> {}]
  PROVE  Ruby /\ Addressed(q) /\ InNetwork(q)
<1>1. Ruby
  BY LinkTable
<1>2. Exists(r)
  BY LinkedExist
<1>3. KindOf(r) = "Switch" /\ KindOf(o) \in Controllers /\ ClassOf(d) = KindOf(d)
  BY <1>2, Classes, BufferKinds DEF ConfigInv
<1>4. KindOf(d) \in Controllers
  BY <1>3 DEF SendsTo, Controllers
<1>5. NodesOf(q.dest) = {d} /\ q.dest[1] = KindOf(d)
  BY <1>3, <1>4, OneNode DEF MachineID
<1>6. Message(q) /\ Passed(q) = {}
  BY <1>3 DEF Message, Passed
<1>7. Addressed(q)
  BY <1>4, <1>5 DEF Addressed
<1>8. InNetwork(q)
  BY <1>3, <1>4, <1>5, <1>6 DEF InNetwork
<1> QED
  BY <1>1, <1>7, <1>8

(* and a hop goes on in the network or on to the destination; the second   *)
(* switch is the destination's own.                                        *)
LEMMA PhaseGoesOn ==
  ASSUME ConfigInv, PacketInv, Simulating, Ruby, NEW p \in packets, NEW q,
         Addressed(p), BeforeNetwork(p) \/ InNetwork(p) \/ Delivered(p),
         AlongWire(p, q) \/ ToController(p, q) \/ FromController(p, q) \/ OverSwitch(p, q)
  PROVE  Addressed(q) /\ (BeforeNetwork(q) \/ InNetwork(q) \/ Delivered(q))
<1>1. /\ q.origin = p.origin /\ q.crossed = p.crossed \cup {p.at[1]}
      /\ Message(q) <=> Message(p)
  BY DEF AlongWire, ToController, FromController, OverSwitch, MovedTo, Message
<1>2. Passed(q) = Passed(p) \cup (IF KindOf(p.at[1]) = "Switch" THEN {p.at[1]} ELSE {})
  BY <1>1 DEF Passed
<1>3. CASE AlongWire(p, q)
  <2>1. PICK port, e : /\ <<<<p.at[1], port>>, e>> \in wires /\ OnFrom(p, e, port)
                       /\ MovedTo(p, q, e) /\ q.dest = p.dest
    BY <1>3 DEF AlongWire
  <2>2. KindOf(p.at[1]) \in Forwards
    BY <2>1 DEF OnFrom, Forwards
  <2>3. Delivered(p)
    BY <2>2 DEF BeforeNetwork, InNetwork, Forwards, XBar, CoherentXBar
  <2>4. KindOf(p.at[1]) = "Directory" /\ port = "memory" /\ ~Message(p)
    <3>1. ~Message(p) => KindOf(p.at[1]) \in {"Directory", "MemCtrl"}
      BY <2>3 DEF Delivered
    <3>2. Message(p) => KindOf(p.at[1]) \in Controllers
      BY <2>3, NodeKinds DEF Delivered, Addressed
    <3> QED
      BY <2>1, <3>1, <3>2 DEF OnFrom, XBar, CoherentXBar, Controllers, Message
  <2>5. e = <<mem_ctrl(0), "port">>
    BY <2>1, <2>4, RubyWireTable DEF RubyWire
  <2>6. KindOf(q.at[1]) = "MemCtrl" /\ q.at[2] = "port"
    BY <2>1, <2>5 DEF MovedTo, KindOf, KindNamed, mem_ctrl
  <2>7. Passed(q) = Passed(p)
    BY <1>2, <2>4
  <2> QED
    BY <1>1, <2>3, <2>4, <2>6, <2>7 DEF Delivered, Addressed
<1>4. CASE ToController(p, q)
  <2>1. PICK l \in links : /\ KindOf(p.at[1]) = "RubySequencer" /\ l[1] = p.at[1]
                           /\ MovedTo(p, q, <<l[2], "mandatoryQueue">>)
    BY <1>4 DEF ToController
  <2>2. l = <<l[1], l[2]>>
    BY DEF ConfigInv, LinksKnown
  <2>3. \E i : l[2] = l1(i)
    BY <2>1, <2>2, LinksLead
  <2>4. KindOf(q.at[1]) = "L1Cache"
    BY <2>1, <2>3 DEF MovedTo, KindOf, KindNamed, l1
  <2>5. BeforeNetwork(p)
    <3>1. ~InNetwork(p)
      BY <2>1 DEF InNetwork
    <3>2. ~Delivered(p)
      BY <2>1, NodeKinds DEF Delivered, Addressed, Controllers
    <3> QED
      BY <3>1, <3>2
  <2> QED
    BY <1>1, <2>1, <2>4, <2>5 DEF BeforeNetwork, Addressed
<1>5. CASE FromController(p, q)
  <2>1. PICK r : /\ p.at[2] = "mandatoryQueue"
                 /\ <<p.at[1], r>> \in links /\ ClassOf(r) = "Switch"
                 /\ MovedTo(p, q, <<r, "network">>) /\ q.dest = <<"Directory", 0>>
    BY <1>5 DEF FromController
  <2>2. BeforeNetwork(p)
    BY <2>1 DEF InNetwork, Delivered
  <2>3. KindOf(p.at[1]) = "L1Cache"
    BY <2>1, <2>2 DEF BeforeNetwork
  <2>4. KindOf(r) = "Switch"
    BY <2>1, LinkedExist, Classes DEF ConfigInv
  <2>5. Passed(q) = {}
    BY <1>2, <2>2, <2>3 DEF BeforeNetwork, Passed
  <2>6. r \notin q.crossed
    BY <1>1, <2>2, <2>3, <2>4 DEF BeforeNetwork
  <2>7. InNetwork(q)
    BY <1>1, <2>1, <2>2, <2>3, <2>4, <2>5, <2>6
    DEF InNetwork, BeforeNetwork, MovedTo, Controllers
  <2> QED
    BY <1>1, <2>2, <2>7 DEF Addressed, BeforeNetwork
<1>6. CASE OverSwitch(p, q)
  <2>1. KindOf(p.at[1]) = "Switch" /\ q.dest = p.dest /\ q.vnet = p.vnet
    BY <1>6 DEF OverSwitch
  <2>2. InNetwork(p)
    <3>1. ~Delivered(p)
      BY <2>1, NodeKinds DEF Delivered, Addressed, Controllers
    <3> QED
      BY <2>1, <3>1 DEF BeforeNetwork
  <2>3. /\ Addressed(q) /\ p.dest[1] \in Controllers
        /\ \E r : Passed(q) \subseteq {r, p.at[1]}
    BY <1>1, <1>2, <2>1, <2>2 DEF Addressed, InNetwork
  <2>4. CASE \E d \in NodesOf(p.dest), b \in Buffers(build.caches) :
               /\ <<p.at[1], d>> \in links
               /\ b.machine = ClassOf(d) /\ b.way = "From" /\ b.vnet = p.vnet
               /\ MovedTo(p, q, <<d, b.buffer>>)
    <3>1. PICK d \in NodesOf(p.dest), b \in Buffers(build.caches) :
               /\ b.machine = ClassOf(d) /\ b.way = "From" /\ b.vnet = p.vnet
               /\ MovedTo(p, q, <<d, b.buffer>>)
      BY <2>4
    <3>2. q.at[1] = d /\ q.at[2] = b.buffer /\ KindOf(d) = p.dest[1] /\ b.buffer # "mandatoryQueue"
      BY <3>1, NodeKinds, BufferKinds DEF MovedTo, ConfigInv
    <3>3. CASE Message(p)
      BY <1>1, <2>1, <2>2, <2>3, <3>1, <3>2, <3>3 DEF Delivered, InNetwork
    <3>4. CASE ~Message(p)
      <4>1. KindOf(d) = "Directory"
        BY <2>2, <3>2, <3>4 DEF InNetwork
      <4>2. \A o \in q.crossed : KindOf(o) \in {"RubySequencer", "L1Cache", "Switch"}
        BY <1>1, <2>1, <2>2 DEF InNetwork
      <4> QED
        BY <1>1, <2>3, <3>2, <3>4, <4>1, <4>2 DEF Delivered
    <3> QED
      BY <2>3, <3>3, <3>4
  <2>5. CASE /\ \A d \in NodesOf(p.dest) : <<p.at[1], d>> \notin links
             /\ \E s : \E d \in NodesOf(p.dest) :
                  /\ <<p.at[1], s>> \in links /\ s \in RouterOf(d)
                  /\ MovedTo(p, q, <<s, "network">>)
    <3>1. PICK s, d : /\ d \in NodesOf(p.dest) /\ <<p.at[1], s>> \in links
                      /\ s \in RouterOf(d) /\ MovedTo(p, q, <<s, "network">>)
      BY <2>5
    <3>2. <<d, s>> \in links /\ ClassOf(s) = "Switch"
      BY <3>1, LinksOf DEF RouterOf
    <3>3. KindOf(s) = "Switch" /\ KindOf(d) \in Controllers
      BY <2>3, <3>1, <3>2, LinkedExist, Classes, NodeKinds DEF ConfigInv
    <3>4. <<s, d>> \in links /\ s # p.at[1]
      BY <3>1, <3>2, <3>3, SwitchLinks DEF Controllers
    <3>5. Passed(p) = {}
      BY <2>2, <2>5 DEF InNetwork
    <3>6. Passed(q) = {p.at[1]}
      BY <1>2, <2>1, <3>5
    <3>7. s \notin q.crossed
      BY <1>1, <3>3, <3>4, <3>5 DEF Passed
    <3>8. InNetwork(q)
      BY <1>1, <2>1, <2>2, <3>1, <3>3, <3>4, <3>6, <3>7 DEF InNetwork, MovedTo
    <3> QED
      BY <2>3, <3>8
  <2> QED
    BY <1>6, <2>4, <2>5 DEF OverSwitch
<1> QED
  BY <1>3, <1>4, <1>5, <1>6

(* The phase of a packet depends on nothing that a simulation changes.     *)
LEMMA PhaseSame ==
  Same => \A q : /\ Addressed(q)' <=> Addressed(q)
                 /\ BeforeNetwork(q)' <=> BeforeNetwork(q)
                 /\ InNetwork(q)' <=> InNetwork(q)
                 /\ Delivered(q)' <=> Delivered(q)
                 /\ Message(q)' <=> Message(q)
                 /\ Passed(q)' = Passed(q)
<1>1. SUFFICES ASSUME Same, NEW q
               PROVE  /\ Addressed(q)' <=> Addressed(q)
                      /\ BeforeNetwork(q)' <=> BeforeNetwork(q)
                      /\ InNetwork(q)' <=> InNetwork(q)
                      /\ Delivered(q)' <=> Delivered(q)
                      /\ Message(q)' <=> Message(q)
                      /\ Passed(q)' = Passed(q)
  OBVIOUS
<1>2. build' = build /\ made' = made /\ links' = links
  BY <1>1 DEF Same
<1>3. \A x : NodesOf(x)' = NodesOf(x) /\ ClassOf(x)' = ClassOf(x)
  BY <1>2 DEF NodesOf, ClassOf
<1>4. (Message(q)' <=> Message(q)) /\ Passed(q)' = Passed(q)
  BY DEF Message, Passed
<1>5. Addressed(q)' <=> Addressed(q)
  BY <1>3, <1>4 DEF Addressed
<1>6. BeforeNetwork(q)' <=> BeforeNetwork(q)
  BY <1>4 DEF BeforeNetwork
<1>7. InNetwork(q)' <=> InNetwork(q)
  BY <1>2, <1>3, <1>4 DEF InNetwork
<1>8. Delivered(q)' <=> Delivered(q)
  BY <1>2, <1>3, <1>4 DEF Delivered
<1> QED
  BY <1>4, <1>5, <1>6, <1>7, <1>8

(* So every packet of a Ruby system is in one of its phases.               *)
LEMMA PhaseInvStep ==
  ASSUME ConfigInv, PacketInv, PhaseInv, [Next]_vars
  PROVE  PhaseInv'
<1> DEFINE Phase(q) == IF Ruby
                       THEN Addressed(q) /\ (BeforeNetwork(q) \/ InNetwork(q) \/ Delivered(q))
                       ELSE ~Message(q) /\ Passed(q) = {} /\ KindOf(q.at[1]) # "Switch"
<1>1. CASE packets' = {}
  BY <1>1 DEF PhaseInv
<1>2. ASSUME Same, \A q \in packets' : Phase(q)
      PROVE  PhaseInv'
  <2>1. Ruby' <=> Ruby
    BY <1>2 DEF Same, Ruby
  <2> QED
    BY <1>2, <2>1, PhaseSame DEF PhaseInv
<1>3. CASE Same /\ packets' = packets
  <2>1. \A q \in packets : Phase(q)
    BY DEF PhaseInv
  <2> QED
    BY <1>2, <1>3, <2>1
<1>4. CASE Simulating /\ Same /\ (Started \/ Sent \/ Travelled)
  <2>1. SUFFICES ASSUME NEW q \in packets'
                 PROVE  Phase(q)
    BY <1>2, <1>4
  <2>2. CASE Started
    <3>1. PICK w, a : /\ w \in wires /\ q = Access(w[1], a, w[2])
                      /\ ClassOf(w[1][1]) \in Sources
      BY <2>1, <2>2 DEF Started
    <3> QED
      BY <3>1, PhaseStarts
  <2>3. CASE Sent
    <3>1. PICK b, o, d, r :
            /\ b \in Buffers(build.caches)
            /\ o \in {m.obj : m \in made} /\ d \in {m.obj : m \in made}
            /\ b.way = "To" /\ b.machine = ClassOf(o)
            /\ d # o /\ ClassOf(d) \in SendsTo(b.buffer)
            /\ <<o, r>> \in links /\ ClassOf(r) = "Switch"
            /\ packets' = {[origin |-> <<o, b.buffer>>, addr |-> KB(0),
                            dest |-> MachineID(d), vnet |-> b.vnet,
                            at |-> <<r, "network">>, crossed |-> {}]}
      BY <2>3 DEF Sent
    <3>2. Exists(o) /\ Exists(d)
      BY <3>1 DEF Exists
    <3>3. q = [origin |-> <<o, b.buffer>>, addr |-> KB(0), dest |-> MachineID(d),
               vnet |-> b.vnet, at |-> <<r, "network">>, crossed |-> {}]
      BY <2>1, <3>1, Zenon
    <3> QED
      BY <1>4, <3>1, <3>2, <3>3, PhaseSends
  <2>4. CASE Travelled
    <3>1. PICK p \in packets : \/ AlongWire(p, q) \/ ToController(p, q)
                               \/ FromController(p, q) \/ OverSwitch(p, q)
      BY <2>1, <2>4 DEF Travelled
    <3>2. CASE Ruby
      BY <1>4, <3>1, <3>2, PhaseGoesOn DEF PhaseInv
    <3>3. CASE ~Ruby
      <4>1. AlongWire(p, q)
        BY <3>1, <3>3, ClassicTravels
      <4>2. PICK w \in wires : /\ q.at = w[2] /\ q.origin = p.origin
                               /\ q.crossed = p.crossed \cup {p.at[1]}
        BY <4>1 DEF AlongWire, MovedTo
      <4>3. KindOf(q.at[1]) # "Switch"
        BY <4>2, WiresGood DEF GoodWire
      <4> QED
        BY <3>3, <4>2, <4>3 DEF PhaseInv, Message, Passed
    <3> QED
      BY <3>2, <3>3
  <2> QED
    BY <1>4, <2>2, <2>3, <2>4
<1> QED
  BY <1>1, <1>3, <1>4, PacketSteps

(* What is within a pair has at most two elements.                         *)
LEMMA TwoAtMost ==
  ASSUME NEW S, NEW r, NEW s, S \subseteq {r, s}
  PROVE  Cardinality(S) <= 2
<1>1. IsFiniteSet({r, s}) /\ Cardinality({r, s}) <= 2
  <2>1. IsFiniteSet({r}) /\ Cardinality({r}) = 1
    BY FS_Singleton
  <2>2. /\ IsFiniteSet({r} \cup {s})
        /\ Cardinality({r} \cup {s}) \in {Cardinality({r}), Cardinality({r}) + 1}
    BY <2>1, FS_AddElement
  <2>3. {r} \cup {s} = {r, s}
    OBVIOUS
  <2> QED
    BY <2>1, <2>2, <2>3
<1>2. Cardinality(S) \in Nat /\ Cardinality({r, s}) \in Nat /\ Cardinality(S) <= Cardinality({r, s})
  BY <1>1, FS_Subset, FS_CardinalityType
<1> QED
  BY <1>1, <1>2

(* A message that is off the network is at the one controller it is        *)
(* addressed to, in the buffer of its network; none passes three switches. *)
LEMMA MessagesHold ==
  ASSUME ConfigInv, PacketInv, PhaseInv
  PROVE  MessagesArrive
<1>1. SUFFICES ASSUME NEW p \in packets
               PROVE  /\ Cardinality({o \in p.crossed : ClassOf(o) = "Switch"}) <= 2
                      /\ Arrived(p) /\ IsMessage(p) =>
                           /\ NodesOf(p.dest) = {p.at[1]}
                           /\ p.at[1] # p.origin[1]
                           /\ \E b \in Buffers(build.caches) :
                                /\ b.machine = ClassOf(p.at[1]) /\ b.buffer = p.at[2]
                                /\ b.way = "From" /\ b.vnet = p.vnet
  BY DEF MessagesArrive
<1>2. /\ \A o \in p.crossed : ClassOf(o) = KindOf(o)
      /\ ClassOf(p.at[1]) = KindOf(p.at[1])
      /\ IsMessage(p) <=> Message(p)
  BY Classes DEF ConfigInv, PacketInv, IsMessage, Message, Controllers
<1>3. {o \in p.crossed : ClassOf(o) = "Switch"} = Passed(p)
  BY <1>2 DEF Passed
<1>4. \E r, s : Passed(p) \subseteq {r, s}
  <2>1. CASE Ruby
    <3>1. BeforeNetwork(p) => Passed(p) = {}
      BY DEF BeforeNetwork, Passed
    <3>2. InNetwork(p) => \E r : Passed(p) \subseteq {r}
      BY DEF InNetwork
    <3> QED
      BY <2>1, <3>1, <3>2 DEF PhaseInv, Delivered
  <2>2. CASE ~Ruby
    BY <2>2 DEF PhaseInv
  <2> QED
    BY <2>1, <2>2
<1>5. Cardinality(Passed(p)) <= 2
  BY <1>4, TwoAtMost
<1>6. ASSUME Arrived(p), IsMessage(p)
      PROVE  /\ NodesOf(p.dest) = {p.at[1]}
             /\ p.at[1] # p.origin[1]
             /\ \E b \in Buffers(build.caches) :
                  /\ b.machine = ClassOf(p.at[1]) /\ b.buffer = p.at[2]
                  /\ b.way = "From" /\ b.vnet = p.vnet
  <2>1. Ruby /\ Message(p) /\ Addressed(p)
    BY <1>2, <1>6 DEF PhaseInv
  <2>2. Delivered(p)
    BY <1>2, <1>6, <2>1 DEF PhaseInv, Arrived, BeforeNetwork, InNetwork
  <2> QED
    BY <2>1, <2>2 DEF Addressed, Delivered
<1> QED
  BY <1>3, <1>5, <1>6

(* In every configuration, for every number of CPUs, each message of the   *)
(* protocol arrives over at most two switches in the right buffer of its   *)
(* destination.                                                            *)
THEOREM ConfigsMessagesArrive == Spec => []MessagesArrive
<1>1. Init => ConfigInv /\ PacketInv /\ PhaseInv
  BY ConfigInit, PacketInvInit DEF Init, PhaseInv
<1>2. (ConfigInv /\ PacketInv /\ PhaseInv) /\ [Next]_vars
        => (ConfigInv /\ PacketInv /\ PhaseInv)'
  BY ConfigStep, PacketInvStep, PhaseInvStep
<1>3. ConfigInv /\ PacketInv /\ PhaseInv => MessagesArrive
  BY MessagesHold
<1> QED
  BY <1>1, <1>2, <1>3, PTL DEF Spec

-----------------------------------------------------------------------------
(* No request goes round (NoRoundTrip).                                    *)

(* An address is a pair of numbers: its space, and its place there.        *)
IsAddress(a) == a = <<a[1], a[2]>> /\ a[1] \in Nat /\ a[2] \in Nat

(* Every request is for an address that is asked for at its origin.        *)
AddrInv ==
  \A p \in packets :
    \/ Message(p) /\ p.addr = KB(0)
    \/ /\ ~Message(p) /\ p.addr \in AddressesFrom(p.origin)
       /\ \E w \in wires : w[1] = p.origin /\ KindOf(w[1][1]) \in Sources

(* What a wire of a full system connects.                                  *)
LEMMA FullSystemWires ==
  ASSUME ConfigInv, FullSystem, NEW w \in wires
  PROVE  \/ w \in PlatformWires
         \/ \E i \in 0..(build.cpus - 1) :
              w \in CommonWires(i) \cup L1Wires(i) \cup HierarchyWires(i)
<1>1. PICK b : b = build
  OBVIOUS
<1>2. w \in WiresOf(b) /\ b.script \in {"x86", "x86_mp"}
  BY <1>1, WireTable DEF FullSystem
<1>3. w \in MySystemWires(b.cpus)
  BY <1>2 DEF WiresOf
<1> QED
  BY <1>1, <1>3 DEF MySystemWires

(* The instruction and data ports are CPUs' ports.                         *)
LEMMA CPUPorts ==
  ASSUME ConfigInv, FullSystem, NEW w \in wires, w[1][2] \in {"icache_port", "dcache_port"}
  PROVE  \E i \in 0..(build.cpus - 1) : w[1][1] = cpu(i)
<1> USE DEF wire
<1>1. w \notin PlatformWires
  BY DEF PlatformWires
<1>2. ASSUME NEW i, w \in CommonWires(i) \cup L1Wires(i) \cup HierarchyWires(i)
      PROVE  w[1][1] = cpu(i)
  BY <1>2 DEF CommonWires, L1Wires, HierarchyWires
<1> QED
  BY <1>1, <1>2, FullSystemWires

(* What is asked for is an address.                                        *)
LEMMA AreAddresses ==
  ASSUME ConfigInv, NEW w \in wires, NEW a \in AddressesFrom(w[1])
  PROVE  IsAddress(a)
<1>1. PICK n, m : n = build.cpus /\ m = build.mem /\ n \in Nat \ {0} /\ m \in Nat /\ m > 1024
  BY BuildsAreRecords DEF MB, ConfigInv
<1>2. \A x, y \in Nat : IsAddress(<<x, y>>)
  BY DEF IsAddress
<1>3. \A i \in 0..(n - 1) : 4 * i \in Nat
  OBVIOUS
<1>4. \A x \in MemoryAddresses : IsAddress(x)
  BY <1>1, <1>2 DEF MemoryAddresses, KB
<1>5. \A x \in InterruptAddresses : IsAddress(x)
  BY <1>1, <1>2, <1>3 DEF InterruptAddresses, InterruptTo, Plus, Space, APICPage
<1>6. \A x \in PlatformAddresses : IsAddress(x)
  BY <1>1, <1>2
  DEF PlatformAddresses, KB, IOGap, MB, GB, IOAPICAddress, M5Ops, IO_address_space_base,
      LastKB, Space, pci_config_address_space_base, AddrMax
<1>7. ASSUME FullSystem, w[1][2] \in {"icache_port", "dcache_port"}
      PROVE  IsAddress(LocalAPIC(w[1][1][2]))
  <2>1. PICK i \in 0..(n - 1) : w[1][1][2] = i
    BY <1>1, <1>7, CPUPorts DEF cpu
  <2> QED
    BY <1>2, <1>3, <2>1 DEF LocalAPIC, Plus, Space, APICPage
<1> QED
  BY <1>4, <1>5, <1>6, <1>7 DEF AddressesFrom

(* A request keeps the address with which its source started it.           *)
LEMMA AddrInvStep ==
  ASSUME ConfigInv, PacketInv, AddrInv, [Next]_vars
  PROVE  AddrInv'
<1>1. CASE packets' = {}
  BY <1>1 DEF AddrInv
<1>2. ASSUME Same
      PROVE  \A e : AddressesFrom(e)' = AddressesFrom(e)
  BY <1>2 DEF Same, AddressesFrom, ClassOf, Ruby, FullSystem, InterruptAddresses,
              MemoryAddresses, PlatformAddresses
<1>3. ASSUME Same, \A q \in packets' :
                     \/ Message(q) /\ q.addr = KB(0)
                     \/ /\ ~Message(q) /\ q.addr \in AddressesFrom(q.origin)
                        /\ \E w \in wires : w[1] = q.origin /\ KindOf(w[1][1]) \in Sources
      PROVE  AddrInv'
  BY <1>2, <1>3 DEF AddrInv, Same, Message
<1>4. CASE Same /\ packets' = packets
  BY <1>3, <1>4 DEF AddrInv
<1>5. CASE Simulating /\ Same /\ (Started \/ Sent \/ Travelled)
  <2>1. SUFFICES ASSUME NEW q \in packets'
                 PROVE  \/ Message(q) /\ q.addr = KB(0)
                        \/ /\ ~Message(q) /\ q.addr \in AddressesFrom(q.origin)
                           /\ \E w \in wires : w[1] = q.origin /\ KindOf(w[1][1]) \in Sources
    BY <1>3, <1>5
  <2>2. CASE Started
    <3>1. PICK w, a : /\ w \in wires /\ a \in AddressesFrom(w[1])
                      /\ packets' = {Access(w[1], a, w[2])}
                      /\ ClassOf(w[1][1]) \in Sources
      BY <2>2 DEF Started
    <3>2. KindOf(w[1][1]) \in Sources
      BY <3>1, Classes DEF ConfigInv, WiresKnown
    <3>3. q.origin = w[1] /\ q.addr = a
      BY <2>1, <3>1 DEF Access
    <3>4. ~Message(q)
      BY <3>2, <3>3 DEF Message, Sources, Controllers
    <3> QED
      BY <3>1, <3>2, <3>3, <3>4
  <2>3. CASE Sent
    <3>1. PICK b, o : /\ b \in Buffers(build.caches) /\ b.machine = ClassOf(o) /\ Exists(o)
                      /\ q.origin = <<o, b.buffer>> /\ q.addr = KB(0)
      BY <2>1, <2>3 DEF Sent, Exists
    <3>2. KindOf(o) \in Controllers
      BY <3>1, Classes, BufferKinds DEF ConfigInv
    <3> QED
      BY <3>1, <3>2 DEF Message
  <2>4. CASE Travelled
    <3>1. PICK p \in packets : \/ AlongWire(p, q) \/ ToController(p, q)
                               \/ FromController(p, q) \/ OverSwitch(p, q)
      BY <2>1, <2>4 DEF Travelled
    <3>2. q.origin = p.origin /\ q.addr = p.addr
      BY <3>1 DEF AlongWire, ToController, FromController, OverSwitch, MovedTo
    <3> QED
      BY <3>2 DEF AddrInv, Message
  <2> QED
    BY <1>5, <2>2, <2>3, <2>4
<1> QED
  BY <1>1, <1>4, <1>5, PacketSteps

(* So it is an address that some source asks for.                          *)
LEMMA PacketAddress ==
  ASSUME ConfigInv, AddrInv, NEW p \in packets
  PROVE  IsAddress(p.addr)
<1>1. CASE Message(p) /\ p.addr = KB(0)
  BY <1>1 DEF IsAddress, KB
<1>2. CASE \E w \in wires : w[1] = p.origin /\ p.addr \in AddressesFrom(p.origin)
  BY <1>2, AreAddresses
<1> QED
  BY <1>1, <1>2 DEF AddrInv

(* What goes over the bridge to the I/O bus.                               *)
Bridged(a) == InSome(a, bridge_ranges)

(* Objects in the order in which a request for address a passes them: what *)
(* is for the I/O bus passes membus first, everything else last.           *)
RankBridged ==
  [memobj |-> 0, cache |-> 0, icache |-> 0, dcache |-> 0, apicbridge |-> 0, iocache |-> 0,
   l2bus |-> 1, l2cache |-> 2, membus |-> 3, bridge |-> 4, iobus |-> 5,
   mem_ctrl |-> 6, interrupts |-> 6, pc |-> 6, badaddr_responder |-> 6]
RankOther ==
  [memobj |-> 0, cache |-> 0, icache |-> 0, dcache |-> 0, bridge |-> 0, l2bus |-> 1,
   iobus |-> 1, l2cache |-> 2, apicbridge |-> 2, iocache |-> 2, membus |-> 3,
   mem_ctrl |-> 6, interrupts |-> 6, pc |-> 6, badaddr_responder |-> 6]
Rank(a, o) == IF Bridged(a) THEN RankBridged[o[1]] ELSE RankOther[o[1]]

(* What the two bridges and the I/O cache take has nothing in common but   *)
(* the hole.                                                               *)
LEMMA RangesApart ==
  ASSUME build \in Builds, NEW a, IsAddress(a), Bridged(a), ~IOHole(a)
  PROVE  ~InSome(a, iocache_ranges(build.mem)) /\ ~InSome(a, ApicBridgeRanges)
<1>1. PICK x, y, m, n : /\ x = a[1] /\ y = a[2] /\ m = build.mem /\ n = build.cpus
                        /\ x \in Nat /\ y \in Nat /\ m \in Nat /\ n \in Nat /\ m <= 3145728
  BY BuildsAreRecords DEF IsAddress, IOGap, GB, MB
<1> USE DEF InRange, AddrRange, AddrRangeTo, Before, KB, Space, Plus, IOGap, GB, MB
<1>2. \/ x = 0 /\ y >= 3145728
      \/ x = 8 \/ x = 9 \/ x >= 12
  BY <1>1 DEF Bridged, InSome, bridge_ranges, IO_address_space_base,
              interrupts_address_space_base, pci_config_address_space_base
<1>3. ~(x = 0 /\ y >= 3145728 /\ y < 3146752)
  BY <1>1 DEF IOHole
<1>4. \A r \in iocache_ranges(m) :
        r \in {AddrRangeTo(KB(0), KB(m)), AddrRangeTo(KB(3145728), KB(3146752))}
  BY DEF iocache_ranges, mem_ranges
<1>5. ~InSome(a, iocache_ranges(build.mem))
  BY <1>1, <1>2, <1>3, <1>4 DEF InSome
<1>6. ~InSome(a, ApicBridgeRanges)
  BY <1>1, <1>2, SMTT(30)
  DEF InSome, ApicBridgeRanges, x86_apicbridge_ranges, apicbridge_ranges,
      interrupts_address_space_base, APIC_range_size
<1> QED
  BY <1>5, <1>6

(* A wire over which requests for a may go leads on.                       *)
Rises(w, a) ==
  KindOf(w[1][1]) \in Forwards =>
    \/ Rank(a, w[1][1]) \in Nat /\ Rank(a, w[2][1]) \in Nat /\ Rank(a, w[1][1]) < Rank(a, w[2][1])
    \/ /\ KindOf(w[1][1]) \in XBar /\ w[1][2] = "master"
       /\ \/ w[2][1] = bridge /\ ~Bridged(a)
          \/ w[2][1] \in {iocache, apicbridge} /\ Bridged(a)

(* Every connection of the tables leads to an object of higher rank, but   *)
(* those into the bridge of the other direction,                           *)
LEMMA WiresRise ==
  ASSUME ConfigInv, ~Ruby, NEW w \in wires, NEW a
  PROVE  Rises(w, a)
<1>1. PICK b : b = build
  OBVIOUS
<1>2. w \in WiresOf(b) /\ b \in Builds /\ b.script \notin {"simple_ruby", "ruby_test"}
  BY <1>1, WireTable DEF ConfigInv, Ruby
<1>3. \/ \E i : w \in CommonWires(i) \cup L1Wires(i) \cup HierarchyWires(i)
      \/ w \in UncachedWires \cup TwoLevelWires \cup PlatformWires
  BY <1>2, AllScripts DEF WiresOf, UncachedScriptWires, TwoLevelScriptWires, MySystemWires
<1> USE DEF wire, KindOf, KindNamed, Forwards, XBar, CoherentXBar, Rises, Rank, RankBridged,
            RankOther
<1>4. ASSUME NEW i, w \in CommonWires(i)
      PROVE  Rises(w, a)
  BY <1>4 DEF CommonWires, interrupts, membus, mem_ctrl, system
<1>5. ASSUME NEW i, w \in L1Wires(i)
      PROVE  Rises(w, a)
  BY <1>5 DEF L1Wires, icache, dcache, cpu
<1>6. ASSUME NEW i, w \in HierarchyWires(i)
      PROVE  Rises(w, a)
  BY <1>6 DEF HierarchyWires, icache, dcache, cpu, membus
<1>7. ASSUME w \in UncachedWires
      PROVE  Rises(w, a)
  BY <1>7 DEF UncachedWires, membus, memobj, simplecache, cpu
<1>8. ASSUME w \in TwoLevelWires
      PROVE  Rises(w, a)
  BY <1>8 DEF TwoLevelWires, icache, dcache, l2bus, l2cache, membus
<1>9. ASSUME w \in PlatformWires
      PROVE  Rises(w, a)
  BY <1>9 DEF PlatformWires, membus, badaddr_responder, iobus, bridge, apicbridge, pc, iocache
<1> QED
  BY <1>3, <1>4, <1>5, <1>6, <1>7, <1>8, <1>9

(* which a request of this address does not take: a bus asks the bridges   *)
(* for what is in their ranges only.                                       *)
LEMMA HopsRise ==
  ASSUME ConfigInv, PacketInv, ~Ruby, NEW p \in packets, IsAddress(p.addr), ~IOHole(p.addr),
         NEW port, NEW e, <<<<p.at[1], port>>, e>> \in wires, OnFrom(p, e, port)
  PROVE  /\ Rank(p.addr, p.at[1]) \in Nat /\ Rank(p.addr, e[1]) \in Nat
         /\ Rank(p.addr, p.at[1]) < Rank(p.addr, e[1])
<1>1. PICK w, a : w = <<<<p.at[1], port>>, e>> /\ a = p.addr
  OBVIOUS
<1>2. w \in wires /\ w[1] = <<p.at[1], port>> /\ w[1][1] = p.at[1] /\ w[1][2] = port /\ w[2] = e
  BY <1>1
<1>3. KindOf(w[1][1]) \in Forwards /\ Rises(w, a) /\ Exists(e[1])
  BY <1>2, WiresRise DEF OnFrom, Forwards, ConfigInv, WiresKnown
<1>4. ClassOf(e[1]) = KindOf(e[1])
  BY <1>3, Classes DEF ConfigInv
<1>5. ASSUME port = "master", KindOf(e[1]) \in {"Cache", "Bridge"},
             KindOf(p.at[1]) \in XBar
      PROVE  Accepts(e, a)
  BY <1>1, <1>5 DEF OnFrom, Responders, XBar, CoherentXBar
<1>6. ASSUME Accepts(e, a), e[1] = bridge
      PROVE  Bridged(a)
  <2>1. KindOf(e[1]) = "Bridge"
    BY <1>6 DEF bridge, KindOf, KindNamed
  <2>2. ClassOf(e[1]) = "Bridge" /\ e[1] # apicbridge
    BY <1>4, <1>6, <2>1 DEF bridge, apicbridge
  <2> QED
    BY <1>6, <2>2 DEF Accepts, Bridged
<1>7. ASSUME Accepts(e, a), e[1] \in {iocache, apicbridge}, Bridged(a)
      PROVE  FALSE
  <2>1. ~InSome(a, iocache_ranges(build.mem)) /\ ~InSome(a, ApicBridgeRanges)
    BY <1>1, <1>7, RangesApart DEF ConfigInv
  <2>2. CASE e[1] = iocache
    <3>1. ClassOf(e[1]) = "Cache"
      BY <1>4, <2>2 DEF iocache, KindOf, KindNamed
    <3> QED
      BY <1>7, <2>1, <2>2, <3>1 DEF Accepts
  <2>3. CASE e[1] = apicbridge
    <3>1. ClassOf(e[1]) = "Bridge" /\ e[1] # bridge
      BY <1>4, <2>3 DEF apicbridge, bridge, KindOf, KindNamed
    <3> QED
      BY <1>7, <2>1, <3>1 DEF Accepts
  <2> QED
    BY <1>7, <2>2, <2>3
<1>8. ~( /\ KindOf(p.at[1]) \in XBar /\ port = "master"
         /\ \/ e[1] = bridge /\ ~Bridged(a)
            \/ e[1] \in {iocache, apicbridge} /\ Bridged(a))
  <2>1. ASSUME e[1] \in {bridge, iocache, apicbridge}
        PROVE  KindOf(e[1]) \in {"Cache", "Bridge"}
    BY <2>1 DEF bridge, iocache, apicbridge, KindOf, KindNamed
  <2> QED
    BY <1>5, <1>6, <1>7, <2>1
<1> QED
  BY <1>1, <1>2, <1>3, <1>8 DEF Rises

(* Outside a Ruby system a request has only passed objects of lower rank.  *)
RankInv ==
  ~Ruby => \A p \in packets : ~IOHole(p.addr) =>
             \A o \in p.crossed : /\ Rank(p.addr, o) \in Nat /\ Rank(p.addr, p.at[1]) \in Nat
                                  /\ Rank(p.addr, o) < Rank(p.addr, p.at[1])

(* So the rank rises with every hop,                                       *)
LEMMA RankInvStep ==
  ASSUME ConfigInv, PacketInv, AddrInv, RankInv, [Next]_vars
  PROVE  RankInv'
<1>1. CASE packets' = {}
  BY <1>1 DEF RankInv
<1>2. CASE Same /\ packets' = packets
  BY <1>2 DEF Same, RankInv, Ruby
<1>3. CASE Simulating /\ Same /\ (Started \/ Sent \/ Travelled)
  <2>1. Ruby' <=> Ruby
    BY <1>3 DEF Same, Ruby
  <2>2. SUFFICES ASSUME ~Ruby, NEW q \in packets', ~IOHole(q.addr), NEW o \in q.crossed
                 PROVE  /\ Rank(q.addr, o) \in Nat /\ Rank(q.addr, q.at[1]) \in Nat
                        /\ Rank(q.addr, o) < Rank(q.addr, q.at[1])
    BY <2>1 DEF RankInv
  <2>3. CASE Started
    <3>1. PICK w, a : packets' = {Access(w[1], a, w[2])}
      BY <2>3 DEF Started
    <3> QED
      BY <2>2, <3>1 DEF Access
  <2>4. CASE Sent
    <3>1. PICK r \in {{}} : q.crossed = r
      BY <2>2, <2>4 DEF Sent
    <3> QED
      BY <2>2, <3>1
  <2>5. CASE Travelled
    <3>1. PICK p \in packets : \/ AlongWire(p, q) \/ ToController(p, q)
                               \/ FromController(p, q) \/ OverSwitch(p, q)
      BY <2>2, <2>5 DEF Travelled
    <3>2. links = {}
      BY <2>2, LinkTable
    <3>3. AlongWire(p, q)
      BY <3>1, <3>2 DEF ToController, FromController, OverSwitch
    <3>4. PICK port, e : /\ <<<<p.at[1], port>>, e>> \in wires /\ OnFrom(p, e, port)
                         /\ MovedTo(p, q, e)
      BY <3>3 DEF AlongWire
    <3>5. q.addr = p.addr /\ q.at = e /\ q.crossed = p.crossed \cup {p.at[1]}
      BY <3>4 DEF MovedTo
    <3>6. IsAddress(p.addr) /\ ~IOHole(p.addr)
      BY <2>2, <3>5, PacketAddress
    <3>7. /\ Rank(p.addr, p.at[1]) \in Nat /\ Rank(p.addr, e[1]) \in Nat
          /\ Rank(p.addr, p.at[1]) < Rank(p.addr, e[1])
      BY <2>2, <3>4, <3>6, HopsRise
    <3>8. o \in p.crossed => Rank(p.addr, o) \in Nat /\ Rank(p.addr, o) < Rank(p.addr, p.at[1])
      BY <2>2, <3>6 DEF RankInv
    <3>9. PICK x, y, z : x = Rank(p.addr, o) /\ y = Rank(p.addr, p.at[1]) /\ z = Rank(p.addr, e[1])
      OBVIOUS
    <3>10. y \in Nat /\ z \in Nat /\ y < z /\ (x = y \/ (x \in Nat /\ x < y))
      <4>1. o = p.at[1] \/ o \in p.crossed
        BY <2>2, <3>5
      <4>2. CASE o = p.at[1]
        <5>1. x = y
          BY <3>9, <4>2, Zenon
        <5> QED
          BY <3>7, <3>9, <5>1
      <4>3. CASE o \in p.crossed
        BY <3>7, <3>8, <3>9, <4>3
      <4> QED
        BY <4>1, <4>2, <4>3
    <3>11. x \in Nat /\ z \in Nat /\ x < z
      BY <3>10
    <3> QED
      BY <3>5, <3>9, <3>11
  <2> QED
    BY <1>3, <2>3, <2>4, <2>5
<1> QED
  BY <1>1, <1>2, <1>3, PacketSteps

(* and a request never comes to an object that it has passed.              *)
LEMMA NoneTwice ==
  ASSUME PhaseInv, RankInv
  PROVE  NoRoundTrip
<1>1. SUFFICES ASSUME NEW p \in packets, p.at[1] \in p.crossed, ~IOHole(p.addr)
               PROVE  FALSE
  BY DEF NoRoundTrip
<1>2. CASE Ruby
  <2>1. CASE BeforeNetwork(p)
    BY <1>1, <2>1 DEF BeforeNetwork
  <2>2. CASE InNetwork(p)
    BY <1>1, <2>2 DEF InNetwork
  <2>3. CASE Delivered(p) /\ Message(p)
    BY <1>1, <1>2, <2>3 DEF PhaseInv, Addressed, Delivered, Controllers
  <2>4. CASE Delivered(p) /\ ~Message(p)
    BY <1>1, <2>4 DEF Delivered
  <2> QED
    BY <1>2, <2>1, <2>2, <2>3, <2>4 DEF PhaseInv
<1>3. CASE ~Ruby
  <2>1. PICK r : r = Rank(p.addr, p.at[1])
    OBVIOUS
  <2>2. r \in Nat /\ r < r
    BY <1>1, <1>3, <2>1 DEF RankInv
  <2> QED
    BY <2>2
<1> QED
  BY <1>2, <1>3

(* In every configuration no request goes round between the buses: but for *)
(* the hole in the I/O gap, none is twice at one object.                   *)
THEOREM ConfigsNoRoundTrip == Spec => []NoRoundTrip
<1>1. Init => ConfigInv /\ PacketInv /\ PhaseInv /\ AddrInv /\ RankInv
  BY ConfigInit, PacketInvInit DEF Init, PhaseInv, AddrInv, RankInv
<1>2. ConfigInv /\ PacketInv /\ PhaseInv /\ AddrInv /\ RankInv /\ [Next]_vars
        => (ConfigInv /\ PacketInv /\ PhaseInv /\ AddrInv /\ RankInv)'
  BY ConfigStep, PacketInvStep, PhaseInvStep, AddrInvStep, RankInvStep
<1>3. ConfigInv /\ PacketInv /\ PhaseInv /\ AddrInv /\ RankInv => NoRoundTrip
  BY NoneTwice
<1> QED
  BY <1>1, <1>2, <1>3, PTL DEF Spec

-----------------------------------------------------------------------------
(* A request comes to who is to take it (RightTarget).                     *)

(* Who takes requests, outside the controllers of a Ruby system.           *)
Terminals == {"MemCtrl", "X86LocalApic", "Pc", "BadAddr", "RubyPortProxy"}

(* The address of a register or an interrupt of the local APIC of CPU i.   *)
ForAPIC(a, i) == a \in {LocalAPIC(i), InterruptTo(i)}
(* The addresses that are asked for and are nobody's.                      *)
Unowned(a) == a \in {KB(build.mem), KB(M5Ops + 1)} \ {KB(IOGap)}
CPUs == 0..(build.cpus - 1)

(* An address is in one page of one APIC, or in memory, or goes over the   *)
(* bridge, or is nobody's.                                                 *)
LEMMA OwnersApart ==
  ASSUME build \in Builds, NEW a, IsAddress(a)
  PROVE  /\ \A i \in CPUs : ForAPIC(a, i) => ~Memory(a) /\ ~Bridged(a)
         /\ \A i, j \in CPUs : ForAPIC(a, i) /\ ForAPIC(a, j) => i = j
         /\ Memory(a) => ~Bridged(a)
         /\ Unowned(a) => ~Memory(a) /\ ~Bridged(a) /\ \A i \in CPUs : ~ForAPIC(a, i)
         /\ InSome(a, pc_ranges) => ~Memory(a) /\ ~Unowned(a) /\ \A i \in CPUs : ~ForAPIC(a, i)
<1>1. PICK x, y, m, n : /\ x = a[1] /\ y = a[2] /\ m = build.mem /\ n = build.cpus
                        /\ a = <<x, y>> /\ x \in Nat /\ y \in Nat
                        /\ m \in Nat /\ n \in Nat \ {0} /\ m > 1024 /\ m <= 3145728
  BY BuildsAreRecords DEF IsAddress, IOGap, GB, MB
<1> USE DEF InRange, AddrRange, AddrRangeTo, Before, KB, Space, Plus, IOGap, GB, MB
<1>2. Memory(a) <=> x = 0 /\ y < m
  BY <1>1 DEF Memory
<1>3. Bridged(a) => \/ x = 0 /\ y >= 3145728 /\ y <= 4194240
                    \/ x = 8 \/ x = 9 \/ x >= 12
  BY <1>1 DEF Bridged, InSome, bridge_ranges, IO_address_space_base, M5Ops,
              interrupts_address_space_base, pci_config_address_space_base
<1>4. \A i \in CPUs : ForAPIC(a, i) <=> x \in {2, 10} /\ y = 4 * i
  BY <1>1 DEF ForAPIC, LocalAPIC, InterruptTo, APICPage, CPUs
<1>5. Unowned(a) => x = 0 /\ y >= m /\ (y < 3145728 \/ y = 4194241)
  BY <1>1 DEF Unowned, M5Ops
<1>6. InSome(a, pc_ranges) => \/ x = 0 /\ y >= 4173824 /\ y < 4173828
                              \/ x = 8 \/ x >= 12
  BY <1>1 DEF InSome, pc_ranges, IOAPICAddress, IO_address_space_base,
              pci_config_address_space_base
<1>7. \A i \in CPUs : i \in Nat
  BY <1>1 DEF CPUs
<1> QED
  BY <1>1, <1>2, <1>3, <1>4, <1>5, <1>6, <1>7

(* Who is to take a request of a classic system.                           *)
LEMMA Targets ==
  ASSUME build \in Builds, ~Ruby, NEW p, IsAddress(p.addr)
  PROVE  /\ Memory(p.addr) => Target(p) = mem_ctrl(0)
         /\ \A i \in CPUs : ForAPIC(p.addr, i) => Target(p) = interrupts(i)
         /\ Unowned(p.addr) => Target(p) = badaddr_responder
         /\ ~Memory(p.addr) /\ ~Unowned(p.addr) /\ (\A i \in CPUs : ~ForAPIC(p.addr, i))
              => Target(p) = pc
<1>1. PICK a : a = p.addr
  OBVIOUS
<1>2. Memory(a) => Target(p) = mem_ctrl(0)
  BY <1>1 DEF Target
<1>3. ASSUME ~Memory(a)
      PROVE  Target(p) = IF \E i \in CPUs : ForAPIC(a, i)
                         THEN interrupts(CHOOSE i \in CPUs : ForAPIC(a, i))
                         ELSE IF Unowned(a) THEN badaddr_responder ELSE pc
  BY <1>1, <1>3, Zenon DEF Target, ForAPIC, CPUs, Unowned
<1>4. ASSUME NEW i \in CPUs, ForAPIC(a, i)
      PROVE  Target(p) = interrupts(i)
  <2>1. ~Memory(a) /\ \A j \in CPUs : ForAPIC(a, j) => j = i
    BY <1>1, <1>4, OwnersApart
  <2>2. (CHOOSE j \in CPUs : ForAPIC(a, j)) = i
    BY <1>4, <2>1
  <2>3. Target(p) = interrupts(CHOOSE j \in CPUs : ForAPIC(a, j))
    BY <1>3, <1>4, <2>1
  <2> QED
    BY <2>2, <2>3
<1>5. Unowned(a) => Target(p) = badaddr_responder
  BY <1>1, <1>3, OwnersApart
<1> QED
  BY <1>1, <1>2, <1>3, <1>4, <1>5

(* The wires of a classic system that lead to who answers, to the bridge   *)
(* to the I/O bus, and to the I/O bus.                                     *)
Answerers(i) ==
  {wire(membus, "master", mem_ctrl(0), "port"),
   wire(membus, "master", interrupts(i), "pio"),
   wire(membus, "master", interrupts(i), "int_slave")}
PlatformAnswerers ==
  {wire(membus, "default", badaddr_responder, "pio"),
   wire(iobus, "master", pc, "pio"), wire(iobus, "default", pc, "pci_host")}

Leads(w, I) ==
  /\ KindOf(w[2][1]) \in Terminals =>
       \/ w \in PlatformAnswerers /\ FullSystem
       \/ \E i \in I : w \in Answerers(i)
  /\ w[2][1] = bridge => w = wire(membus, "master", bridge, "slave")
  /\ w[2][1] = iobus => \/ w = wire(bridge, "master", iobus, "slave")
                        \/ w[1] \in {<<pc, "dma">>, <<pc, "int_master">>}

(* All connections that lead to who answers are of these.                  *)
LEMMA WiresLead ==
  ASSUME ConfigInv, ~Ruby, NEW w \in wires
  PROVE  Leads(w, CPUs)
<1>1. PICK b, I : b = build /\ I = CPUs
  OBVIOUS
<1>2. w \in WiresOf(b) /\ b \in Builds /\ b.script \notin {"simple_ruby", "ruby_test"}
  BY <1>1, WireTable DEF ConfigInv, Ruby
<1>3. 0 \in I
  BY <1>1, BuildsAreRecords DEF ConfigInv, CPUs
<1>4. \/ \E i \in I : w \in CommonWires(i) \cup L1Wires(i) \cup HierarchyWires(i)
      \/ w \in UncachedWires \cup TwoLevelWires
      \/ w \in PlatformWires /\ FullSystem
  BY <1>1, <1>2, <1>3, AllScripts
  DEF WiresOf, UncachedScriptWires, TwoLevelScriptWires, MySystemWires, FullSystem, CPUs
<1> USE DEF wire, KindOf, KindNamed, Terminals, Leads, Answerers, PlatformAnswerers
<1>5. ASSUME NEW i \in I, w \in CommonWires(i)
      PROVE  Leads(w, I)
  BY <1>5 DEF CommonWires, interrupts, membus, mem_ctrl, system, bridge, iobus
<1>6. ASSUME NEW i \in I, w \in L1Wires(i) \cup HierarchyWires(i)
      PROVE  Leads(w, I)
  BY <1>6 DEF L1Wires, HierarchyWires, icache, dcache, cpu, membus, bridge, iobus
<1>7. ASSUME w \in UncachedWires
      PROVE  Leads(w, I)
  BY <1>7 DEF UncachedWires, membus, memobj, simplecache, cpu, bridge, iobus
<1>8. ASSUME w \in TwoLevelWires
      PROVE  Leads(w, I)
  BY <1>8 DEF TwoLevelWires, icache, dcache, l2bus, l2cache, membus, bridge, iobus
<1>9. ASSUME w \in PlatformWires, FullSystem
      PROVE  Leads(w, I)
  BY <1>9 DEF PlatformWires, membus, badaddr_responder, iobus, bridge, apicbridge, pc, iocache
<1>10. Leads(w, I)
  BY <1>4, <1>5, <1>6, <1>7, <1>8, <1>9
<1> QED
  BY <1>1, <1>10

(* What of a full system is on its buses once it simulates.                *)
LEMMA BusWires ==
  ASSUME ConfigInv, Simulating, FullSystem
  PROVE  /\ wire(membus, "master", mem_ctrl(0), "port") \in wires
         /\ wire(membus, "master", bridge, "slave") \in wires
         /\ wire(iobus, "master", iocache, "cpu_side") \in wires
         /\ wire(iobus, "master", apicbridge, "slave") \in wires
         /\ \A i \in CPUs : /\ wire(membus, "master", interrupts(i), "pio") \in wires
                            /\ wire(membus, "master", interrupts(i), "int_slave") \in wires
<1>1. PICK b, S, n : /\ b = build /\ S = StatementsOf(b) /\ n = b.cpus
                     /\ b.script \in {"x86", "x86_mp"}
  BY DEF FullSystem
<1>2. S = mySystemSet(n)
  BY <1>1 DEF StatementsOf
<1>3. memorySet \subseteq S /\ initFsSet \subseteq S /\ cpuInterruptsSet(n) \subseteq S
  BY <1>2 DEF mySystemSet
<1>4. /\ bind(mem_ctrl(0), "port", membus, "master") \subseteq S
      /\ bind(bridge, "slave", membus, "master") \subseteq S
      /\ bind(iocache, "cpu_side", iobus, "master") \subseteq S
      /\ bind(apicbridge, "slave", iobus, "master") \subseteq S
  BY <1>3 DEF memorySet, initFsSet
<1>5. \A i \in 0..(n - 1) : /\ bind(interrupts(i), "pio", membus, "master") \subseteq S
                            /\ bind(interrupts(i), "int_slave", membus, "master") \subseteq S
  <2>1. \A i \in 0..(n - 1) : interruptsSet(i) \subseteq S
    BY <1>3 DEF cpuInterruptsSet
  <2> QED
    BY <2>1 DEF interruptsSet
<1>6. ASSUME NEW o, NEW p, NEW q, NEW r, bind(o, p, q, r) \subseteq S,
             Role(o, p) = "slave", Role(q, r) = "master"
      PROVE  wire(q, r, o, p) \in wires
  BY <1>1, <1>6, WireMade, BindBothWays
<1>7. /\ wire(membus, "master", mem_ctrl(0), "port") \in wires
      /\ wire(membus, "master", bridge, "slave") \in wires
      /\ wire(iobus, "master", iocache, "cpu_side") \in wires
      /\ wire(iobus, "master", apicbridge, "slave") \in wires
  BY <1>4, <1>6, PortRoles
<1>8. \A i \in 0..(n - 1) : /\ wire(membus, "master", interrupts(i), "pio") \in wires
                            /\ wire(membus, "master", interrupts(i), "int_slave") \in wires
  BY <1>5, <1>6, PortRoles
<1> QED
  BY <1>1, <1>7, <1>8 DEF CPUs

(* An address for which nobody answers on a bus is neither memory, nor an  *)
(* interrupt's, nor of what else is behind the bus.                        *)
LEMMA Unanswered ==
  ASSUME ConfigInv, Simulating, FullSystem, NEW a
  PROVE  /\ Responders(membus, a) = {} =>
              ~Memory(a) /\ ~Bridged(a) /\ \A i \in CPUs : ~ForAPIC(a, i)
         /\ Responders(iobus, a) = {} => ~Memory(a) /\ a \notin InterruptAddresses
<1>1. \A o, p, q, r : wire(o, p, q, r) \in wires =>
        /\ ClassOf(q) = KindOf(q)
        /\ p = "master" /\ Accepts(<<q, r>>, a) => Responders(o, a) # {}
  <2>1. SUFFICES ASSUME NEW o, NEW p, NEW q, NEW r, wire(o, p, q, r) \in wires
                 PROVE  /\ ClassOf(q) = KindOf(q)
                        /\ p = "master" /\ Accepts(<<q, r>>, a) => Responders(o, a) # {}
    OBVIOUS
  <2>2. ClassOf(q) = KindOf(q)
    BY <2>1, Classes DEF ConfigInv, WiresKnown, wire
  <2>3. p = "master" => <<q, r>> \in PeersOf(<<o, "master">>)
    BY <2>1 DEF PeersOf, wire
  <2> QED
    BY <2>2, <2>3 DEF Responders
<1>2. ASSUME Memory(a)
      PROVE  Responders(membus, a) # {} /\ Responders(iobus, a) # {}
  <2>1. ClassOf(mem_ctrl(0)) = "MemCtrl" /\ ClassOf(iocache) = "Cache"
    <3>1. ClassOf(mem_ctrl(0)) = KindOf(mem_ctrl(0)) /\ ClassOf(iocache) = KindOf(iocache)
      BY <1>1, BusWires
    <3> QED
      BY <3>1 DEF KindOf, KindNamed, mem_ctrl, iocache
  <2>2. /\ mem_ranges(build.mem)[1] = AddrRangeTo(KB(0), KB(build.mem))
        /\ mem_ranges(build.mem)[1] \in iocache_ranges(build.mem)
    BY DEF mem_ranges, iocache_ranges
  <2>3. Accepts(<<mem_ctrl(0), "port">>, a) /\ Accepts(<<iocache, "cpu_side">>, a)
    BY <1>2, <2>1, <2>2 DEF Accepts, Memory, InSome
  <2> QED
    BY <1>1, <2>3, BusWires
<1>3. ASSUME Bridged(a)
      PROVE  Responders(membus, a) # {}
  <2>1. ClassOf(bridge) = "Bridge"
    <3>1. ClassOf(bridge) = KindOf(bridge)
      BY <1>1, BusWires
    <3> QED
      BY <3>1 DEF KindOf, KindNamed, bridge
  <2>2. Accepts(<<bridge, "slave">>, a)
    BY <1>3, <2>1 DEF Accepts, Bridged
  <2> QED
    BY <1>1, <2>2, BusWires
<1>4. ASSUME NEW i \in CPUs, ForAPIC(a, i)
      PROVE  Responders(membus, a) # {}
  <2>1. ClassOf(interrupts(i)) = "X86LocalApic" /\ interrupts(i)[2] = i
    <3>1. ClassOf(interrupts(i)) = KindOf(interrupts(i))
      BY <1>1, BusWires
    <3> QED
      BY <3>1 DEF KindOf, KindNamed, interrupts
  <2>2. i \in Nat
    BY BuildsAreRecords DEF ConfigInv, CPUs
  <2>3. InRange(LocalAPIC(i), APICRange(LocalAPIC(i)))
        /\ InRange(InterruptTo(i), APICRange(InterruptTo(i)))
    BY <2>2 DEF InRange, APICRange, AddrRangeTo, Before, LocalAPIC, InterruptTo, Plus, Space,
                APICPage
  <2>4. \/ Accepts(<<interrupts(i), "pio">>, a)
        \/ Accepts(<<interrupts(i), "int_slave">>, a)
    BY <1>4, <2>1, <2>3 DEF Accepts, ForAPIC
  <2> QED
    BY <1>1, <2>4, BusWires
<1>5. ASSUME a \in InterruptAddresses
      PROVE  Responders(iobus, a) # {}
  <2>1. ClassOf(apicbridge) = "Bridge" /\ apicbridge # bridge
    <3>1. ClassOf(apicbridge) = KindOf(apicbridge)
      BY <1>1, BusWires
    <3> QED
      BY <3>1 DEF KindOf, KindNamed, apicbridge, bridge
  <2>2. PICK n : n = build.cpus /\ n \in Nat \ {0} /\ (build.script = "x86" => n = 1)
    BY BuildsAreRecords DEF ConfigInv, OneCPUScripts
  <2>3. PICK i \in 0..(n - 1) : a = <<10, 4 * i>>
    BY <1>5, <2>2 DEF InterruptAddresses, InterruptTo, Plus, Space, APICPage
  <2>4. InSome(a, ApicBridgeRanges)
    <3>1. PICK j : j = 4 * i /\ a = <<10, j>> /\ j \in Nat /\ j < 4 * n
      BY <2>2, <2>3
    <3>2. PICK r : r = AddrRangeTo(<<10, 0>>, <<10, 4 * n>>)
      OBVIOUS
    <3>3. InRange(a, r)
      BY <3>1, <3>2 DEF InRange, AddrRangeTo, Before
    <3>4. CASE build.script = "x86"
      BY <2>2, <3>2, <3>3, <3>4
      DEF InSome, ApicBridgeRanges, x86_apicbridge_ranges, interrupts_address_space_base, Plus,
          Space, APIC_range_size
    <3>5. CASE build.script # "x86"
      <4>1. apicbridge_ranges(build.cpus) = {r}
        BY <2>2, <3>2
        DEF apicbridge_ranges, interrupts_address_space_base, Plus, Space, APIC_range_size
      <4> QED
        BY <3>3, <3>5, <4>1 DEF InSome, ApicBridgeRanges
    <3> QED
      BY <3>4, <3>5
  <2>5. Accepts(<<apicbridge, "slave">>, a)
    BY <2>1, <2>4 DEF Accepts
  <2> QED
    BY <1>1, <2>5, BusWires
<1> QED
  BY <1>2, <1>3, <1>4, <1>5

(* A request is with who is to answer it, if with anyone who answers; what *)
(* is at the bridge goes over it, and what is at the I/O bus came over it  *)
(* or from the devices.                                                    *)
ClassicPlace(p) ==
  /\ KindOf(p.at[1]) \in Terminals => p.at[1] = Target(p)
  /\ p.at[1] = bridge => Bridged(p.addr)
  /\ p.at[1] = iobus => Bridged(p.addr) \/ Memory(p.addr) \/ p.addr \in InterruptAddresses

(* In a Ruby system what the system's port asks stays with the port proxy. *)
RubyPlace(p) ==
  /\ KindOf(p.at[1]) = "MemCtrl" => p.at[1] = mem_ctrl(0)
  /\ KindOf(p.at[1]) = "RubyPortProxy" => p.origin[1] = system
  /\ p.origin[1] = system => p.at[1] = sys_port_proxy

TargetInv == \A p \in packets : IF Ruby THEN RubyPlace(p) ELSE ClassicPlace(p)

(* What the sources of a classic system ask for.                           *)
LEMMA ClassicAddresses ==
  ASSUME ConfigInv, ~Ruby, NEW w \in wires, KindOf(w[1][1]) \in Sources,
         NEW a \in AddressesFrom(w[1])
  PROVE  /\ \/ Memory(a) \/ \E i \in CPUs : ForAPIC(a, i)
            \/ FullSystem /\ (Bridged(a) \/ Unowned(a))
         /\ w[1][1] = pc => Memory(a) \/ a \in InterruptAddresses
<1>1. PICK m, n : /\ n = build.cpus /\ m = build.mem /\ n \in Nat \ {0} /\ m \in Nat
                  /\ m > 1024 /\ m <= 3145728
  BY BuildsAreRecords DEF MB, GB, IOGap, ConfigInv
<1>2. \A x \in MemoryAddresses : Memory(x)
  BY <1>1 DEF MemoryAddresses, Memory, KB, InRange, AddrRangeTo, Before
<1>3. \A x \in InterruptAddresses : \E i \in CPUs : ForAPIC(x, i)
  BY DEF InterruptAddresses, ForAPIC, CPUs
<1>4. \A x \in PlatformAddresses : Bridged(x) \/ Unowned(x)
  BY <1>1
  DEF PlatformAddresses, Bridged, Unowned, InSome, bridge_ranges, InRange, AddrRange, AddrRangeTo,
      Before, KB, IOGap, MB, GB, IOAPICAddress, M5Ops, IO_address_space_base, LastKB, Space,
      interrupts_address_space_base, pci_config_address_space_base, AddrMax
<1>5. ASSUME FullSystem, w[1][2] \in {"icache_port", "dcache_port"}
      PROVE  w[1][1] # pc /\ \E i \in CPUs : ForAPIC(LocalAPIC(w[1][1][2]), i)
  <2>1. PICK i \in CPUs : w[1][1] = cpu(i)
    BY <1>5, CPUPorts DEF CPUs
  <2> QED
    BY <2>1 DEF cpu, pc, ForAPIC
<1>6. \/ a \in MemoryAddresses \/ a \in InterruptAddresses
      \/ /\ FullSystem /\ w[1][2] \in {"icache_port", "dcache_port"}
         /\ a \in PlatformAddresses \cup {LocalAPIC(w[1][1][2])}
  BY Zenon DEF AddressesFrom
<1> QED
  BY <1>2, <1>3, <1>4, <1>5, <1>6

(* A request of a classic system starts where no one answers it.           *)
LEMMA ClassicStarts ==
  ASSUME ConfigInv, ~Ruby, NEW w \in wires, KindOf(w[1][1]) \in Sources,
         NEW a \in AddressesFrom(w[1]), NEW q, q = Access(w[1], a, w[2])
  PROVE  ClassicPlace(q)
<1>1. q.at = w[2] /\ q.addr = a
  BY DEF Access
<1>2. Leads(w, CPUs)
  BY WiresLead
<1>3. KindOf(w[2][1]) \notin Terminals /\ w[2][1] # bridge
  BY <1>2 DEF Leads, PlatformAnswerers, Answerers, wire, KindOf, KindNamed, Sources, membus, iobus
<1>4. w[2][1] = iobus => w[1][1] = pc
  BY <1>2 DEF Leads, wire, KindOf, KindNamed, Sources, bridge
<1> QED
  BY <1>1, <1>3, <1>4, ClassicAddresses DEF ClassicPlace

(* What is in the page of an APIC and is asked for is that APIC's.         *)
LEMMA OwnPage ==
  ASSUME build \in Builds, NEW a, IsAddress(a), NEW i \in CPUs,
         \/ Memory(a) \/ \E j \in CPUs : ForAPIC(a, j)
         \/ FullSystem /\ (Bridged(a) \/ Unowned(a)),
         \/ InRange(a, APICRange(LocalAPIC(i))) \/ InRange(a, APICRange(InterruptTo(i)))
  PROVE  ForAPIC(a, i)
<1>1. PICK x, y : a = <<x, y>> /\ x \in Nat /\ y \in Nat
  BY DEF IsAddress
<1>2. PICK m : m = build.mem /\ m \in Nat /\ m <= 3145728
  BY BuildsAreRecords DEF IOGap, GB, MB
<1>3. i \in Nat /\ \A j \in CPUs : j \in Nat
  BY BuildsAreRecords DEF CPUs
<1>4. x \in {2, 10} /\ y >= 4 * i /\ y < 4 * i + 4
  BY <1>1, <1>3
  DEF InRange, APICRange, AddrRangeTo, Before, LocalAPIC, InterruptTo, Plus, Space, APICPage
<1>5. ~Memory(a) /\ ~Bridged(a) /\ ~Unowned(a)
  BY <1>1, <1>2, <1>4
  DEF Memory, Bridged, Unowned, InSome, bridge_ranges, InRange, AddrRange, AddrRangeTo, Before, KB,
      IOGap, MB, GB, M5Ops, IO_address_space_base, Space, interrupts_address_space_base,
      pci_config_address_space_base
<1>6. PICK j \in CPUs : x \in {2, 10} /\ y = 4 * j
  BY <1>1, <1>3, <1>5 DEF ForAPIC, LocalAPIC, InterruptTo, APICPage, Plus, Space
<1>7. i = j
  BY <1>3, <1>4, <1>6
<1> QED
  BY <1>1, <1>3, <1>6, <1>7 DEF ForAPIC, LocalAPIC, InterruptTo, APICPage, Plus, Space

(* Who is asked on membus or the I/O bus.                                  *)
LEMMA ClassicHop ==
  ASSUME ConfigInv, PacketInv, Simulating, ~Ruby, NEW p \in packets, ClassicPlace(p),
         IsAddress(p.addr),
         \/ Memory(p.addr) \/ \E i \in CPUs : ForAPIC(p.addr, i)
         \/ FullSystem /\ (Bridged(p.addr) \/ Unowned(p.addr)),
         NEW port, NEW e, <<<<p.at[1], port>>, e>> \in wires, OnFrom(p, e, port),
         NEW q, q.at = e, q.addr = p.addr, q.origin = p.origin
  PROVE  ClassicPlace(q)
<1>1. PICK w, a : w = <<<<p.at[1], port>>, e>> /\ a = p.addr
  OBVIOUS
<1>2. /\ w \in wires /\ w[1] = <<p.at[1], port>> /\ w[1][1] = p.at[1] /\ w[1][2] = port
      /\ w[2] = e
  BY <1>1
<1>3. Leads(w, CPUs) /\ build \in Builds
  BY <1>2, WiresLead DEF ConfigInv
<1>4. ClassOf(e[1]) = KindOf(e[1])
  BY <1>2, Classes DEF ConfigInv, WiresKnown
<1>5. KindOf(membus) \in XBar /\ KindOf(iobus) \in XBar /\ KindOf(bridge) = "Bridge"
  BY DEF KindOf, KindNamed, membus, iobus, bridge, XBar, CoherentXBar
<1>6. /\ p.at[1] \in {membus, iobus} /\ port = "master" => Accepts(e, a)
      /\ p.at[1] \in {membus, iobus} /\ port = "default" => Responders(p.at[1], a) = {}
  BY <1>1, <1>5 DEF OnFrom, Responders, XBar, CoherentXBar
<1>7. Target(q) = Target(p)
  BY DEF Target
<1>8. ASSUME KindOf(e[1]) \in Terminals
      PROVE  e[1] = Target(p)
  <2>1. CASE w = wire(membus, "master", mem_ctrl(0), "port")
    <3>1. e[1] = mem_ctrl(0) /\ p.at[1] = membus /\ port = "master"
      BY <1>2, <2>1 DEF wire
    <3>2. ClassOf(e[1]) = "MemCtrl"
      BY <1>4, <3>1 DEF KindOf, KindNamed, mem_ctrl
    <3>3. Memory(a)
      BY <1>6, <3>1, <3>2 DEF Accepts, Memory, mem_ranges
    <3> QED
      BY <1>1, <1>3, <3>1, <3>3, Targets
  <2>2. ASSUME NEW i \in CPUs, \/ w = wire(membus, "master", interrupts(i), "pio")
                               \/ w = wire(membus, "master", interrupts(i), "int_slave")
        PROVE  e[1] = Target(p)
    <3>1. /\ e[1] = interrupts(i) /\ p.at[1] = membus /\ port = "master"
          /\ e[2] \in {"pio", "int_slave"}
      BY <1>2, <2>2 DEF wire
    <3>2. ClassOf(e[1]) = "X86LocalApic" /\ e[1][2] = i
      BY <1>4, <3>1 DEF KindOf, KindNamed, interrupts
    <3>3. InRange(a, APICRange(IF e[2] = "pio" THEN LocalAPIC(i) ELSE InterruptTo(i)))
      BY <1>6, <3>1, <3>2 DEF Accepts
    <3>4. ForAPIC(a, i)
      BY <1>1, <1>3, <3>3, OwnPage
    <3> QED
      BY <1>1, <1>3, <3>1, <3>4, Targets
  <2>3. CASE w = wire(membus, "default", badaddr_responder, "pio") /\ FullSystem
    <3>1. e[1] = badaddr_responder /\ p.at[1] = membus /\ port = "default"
      BY <1>2, <2>3 DEF wire
    <3>2. ~Memory(a) /\ ~Bridged(a) /\ \A i \in CPUs : ~ForAPIC(a, i)
      BY <1>6, <2>3, <3>1, Unanswered
    <3>3. Unowned(a)
      BY <1>1, <3>2
    <3> QED
      BY <1>1, <1>3, <3>1, <3>3, Targets
  <2>4. CASE w = wire(iobus, "master", pc, "pio")
    <3>1. e[1] = pc /\ p.at[1] = iobus /\ port = "master"
      BY <1>2, <2>4 DEF wire
    <3>2. ClassOf(e[1]) = "Pc"
      BY <1>4, <3>1 DEF KindOf, KindNamed, pc
    <3>3. InSome(a, pc_ranges)
      BY <1>6, <3>1, <3>2 DEF Accepts
    <3>4. ~Memory(a) /\ ~Unowned(a) /\ \A i \in CPUs : ~ForAPIC(a, i)
      BY <1>1, <1>3, <3>3, OwnersApart
    <3> QED
      BY <1>1, <1>3, <3>1, <3>4, Targets
  <2>5. CASE w = wire(iobus, "default", pc, "pci_host") /\ FullSystem
    <3>1. e[1] = pc /\ p.at[1] = iobus /\ port = "default"
      BY <1>2, <2>5 DEF wire
    <3>2. ~Memory(a) /\ a \notin InterruptAddresses
      BY <1>6, <2>5, <3>1, Unanswered
    <3>3. Bridged(a)
      BY <1>1, <3>1, <3>2 DEF ClassicPlace
    <3>4. ~Memory(a) /\ ~Unowned(a) /\ \A i \in CPUs : ~ForAPIC(a, i)
      BY <1>1, <1>3, <3>3, OwnersApart
    <3> QED
      BY <1>1, <1>3, <3>1, <3>4, Targets
  <2> QED
    BY <1>2, <1>3, <1>8, <2>1, <2>2, <2>3, <2>4, <2>5 DEF Leads, PlatformAnswerers, Answerers
<1>9. ASSUME e[1] = bridge
      PROVE  Bridged(a)
  <2>1. p.at[1] = membus /\ port = "master"
    BY <1>2, <1>3, <1>9 DEF Leads, wire
  <2>2. ClassOf(e[1]) = "Bridge"
    BY <1>4, <1>5, <1>9
  <2> QED
    BY <1>6, <1>9, <2>1, <2>2 DEF Accepts, Bridged
<1>10. ASSUME e[1] = iobus
       PROVE  Bridged(a) \/ Memory(a) \/ a \in InterruptAddresses
  <2>1. p.at[1] = bridge \/ p.at[1] = pc
    BY <1>2, <1>3, <1>10 DEF Leads, wire
  <2>2. p.at[1] # pc
    BY DEF OnFrom, KindOf, KindNamed, pc, XBar, CoherentXBar
  <2> QED
    BY <1>1, <2>1, <2>2 DEF ClassicPlace
<1> QED
  BY <1>1, <1>7, <1>8, <1>9, <1>10 DEF ClassicPlace

(* The wires of a Ruby system, by who is at their ends.                    *)
RubyLeads(w) ==
  /\ KindOf(w[1][1]) \in Sources => IF w[1][1] = system THEN w[2][1] = sys_port_proxy
                                    ELSE KindOf(w[2][1]) \in {"RubySequencer"}
  /\ w[1][2] = "memory" => w[2][1] = mem_ctrl(0)
  /\ KindOf(w[1][1]) \notin Forwards \ {"Directory"}

(* All connections of a Ruby system are of these.                          *)
LEMMA RubyWiresLead ==
  ASSUME ConfigInv, Ruby, NEW w \in wires
  PROVE  RubyLeads(w)
<1>1. PICK b : b = build
  OBVIOUS
<1>2. w \in WiresOf(b) /\ b.script \in {"simple_ruby", "ruby_test"}
  BY <1>1, WireTable DEF Ruby
<1>3. w \in RubyScriptWires(b.cpus)
  BY <1>2 DEF WiresOf
<1> USE DEF wire, KindOf, KindNamed, Sources, Forwards, XBar, CoherentXBar
<1>4. ASSUME NEW i, w \in RubyWires(i)
      PROVE  RubyLeads(w)
  <2> USE <1>4 DEF RubyWires, sequencer, cpu, interrupts, tester, system, sys_port_proxy, dir
  <2>1. KindOf(w[1][1]) \in Sources => IF w[1][1] = system THEN w[2][1] = sys_port_proxy
                                       ELSE KindOf(w[2][1]) \in {"RubySequencer"}
    <3>1. CASE w = wire(system, "system_port", sys_port_proxy, "slave")
      BY <3>1
    <3>2. ASSUME w # wire(system, "system_port", sys_port_proxy, "slave"),
                 KindOf(w[1][1]) \in Sources
          PROVE  w[1][1] # system /\ w[2][1] = sequencer(i)
      BY <3>2
    <3> QED
      BY <3>1, <3>2
  <2>2. w[1][2] = "memory" => w[2][1] = mem_ctrl(0)
    OBVIOUS
  <2>3. KindOf(w[1][1]) \notin Forwards \ {"Directory"}
    OBVIOUS
  <2> QED
    BY <2>1, <2>2, <2>3 DEF RubyLeads
<1>5. ASSUME NEW o \in {"dir", "l1"}, NEW i, w \in NetworkWires(<<o, i>>)
      PROVE  RubyLeads(w)
  <2>1. \E u \in BufferNames : \/ w = <<<<<<o, i>>, u>>, <<network, "slave">>>>
                              \/ w = <<<<network, "master">>, <<<<o, i>>, u>>>>
    BY <1>5 DEF NetworkWires
  <2>2. "memory" \notin BufferNames
    BY DEF BufferNames
  <2>3. PICK x : x = <<o, i>>
    OBVIOUS
  <2>4. \/ w[1][1] = x /\ w[1][2] # "memory"
        \/ w[1][1] = network /\ w[1][2] # "memory"
    BY <2>1, <2>2, <2>3
  <2>5. KindOf(w[1][1]) \in {"L1Cache", "Directory", "Network"}
    BY <1>5, <2>3, <2>4, <<o, i>>[1] = o DEF network
  <2> QED
    BY <2>4, <2>5 DEF RubyLeads
<1> QED
  BY <1>3, <1>4, <1>5 DEF RubyScriptWires, dir, l1

(* Links are between switches, controllers and sequencers.                 *)
LEMMA RubyLinkKinds ==
  ASSUME ConfigInv, NEW a, NEW b, <<a, b>> \in links
  PROVE  /\ KindOf(a) \in {"Switch", "L1Cache", "Directory", "RubySequencer"}
         /\ KindOf(b) \in {"Switch", "L1Cache", "Directory", "RubySequencer"}
<1>1. PICK l : l = <<a, b>> /\ l \in RubyLinks(build.cpus)
  BY LinkTable
<1>2. \A n, i : KindOf(node(n, i)) \in {"L1Cache", "Directory"} /\ KindOf(router(i)) = "Switch"
  BY DEF node, l1, dir, router, KindOf, KindNamed
<1>3. \A i : KindOf(sequencer(i)) = "RubySequencer" /\ KindOf(l1(i)) = "L1Cache"
  BY DEF sequencer, l1, KindOf, KindNamed
<1> QED
  BY <1>1, <1>2, <1>3 DEF RubyLinks

(* Every step leaves a request with who should take it, or on its way.     *)
LEMMA TargetInvStep ==
  ASSUME ConfigInv, PacketInv, AddrInv, TargetInv, [Next]_vars
  PROVE  TargetInv'
<1>1. CASE packets' = {}
  BY <1>1 DEF TargetInv
<1>2. ASSUME Same
      PROVE  /\ Ruby' <=> Ruby
             /\ \A q : ClassicPlace(q)' <=> ClassicPlace(q)
             /\ \A q : RubyPlace(q)' <=> RubyPlace(q)
  BY <1>2 DEF Same, Ruby, ClassicPlace, RubyPlace, Target, Memory, InterruptAddresses
<1>3. CASE Same /\ packets' = packets
  BY <1>2, <1>3 DEF TargetInv
<1>4. CASE Simulating /\ Same /\ (Started \/ Sent \/ Travelled)
  <2>1. SUFFICES ASSUME NEW q \in packets'
                 PROVE  IF Ruby THEN RubyPlace(q) ELSE ClassicPlace(q)
    BY <1>2, <1>4 DEF TargetInv
  <2>2. CASE Started
    <3>1. PICK w, a : /\ w \in wires /\ a \in AddressesFrom(w[1]) /\ ClassOf(w[1][1]) \in Sources
                      /\ q = Access(w[1], a, w[2])
      BY <2>1, <2>2 DEF Started
    <3>2. KindOf(w[1][1]) \in Sources
      BY <3>1, Classes DEF ConfigInv, WiresKnown
    <3>3. CASE ~Ruby
      BY <3>1, <3>2, <3>3, ClassicStarts
    <3>4. CASE Ruby
      <4>1. q.at = w[2] /\ q.origin = w[1]
        BY <3>1 DEF Access
      <4>2. RubyLeads(w)
        BY <3>1, <3>4, RubyWiresLead
      <4>3. KindOf(sys_port_proxy) = "RubyPortProxy"
        BY DEF KindOf, KindNamed, sys_port_proxy
      <4> QED
        BY <3>2, <3>4, <4>1, <4>2, <4>3 DEF RubyLeads, RubyPlace
    <3> QED
      BY <3>3, <3>4
  <2>3. CASE Sent
    <3>1. PICK b, o, r : /\ b \in Buffers(build.caches) /\ b.machine = ClassOf(o) /\ Exists(o)
                         /\ <<o, r>> \in links
                         /\ q.origin = <<o, b.buffer>> /\ q.at = <<r, "network">>
      BY <2>1, <2>3 DEF Sent, Exists
    <3>2. Ruby /\ KindOf(o) \in {"Switch", "L1Cache", "Directory", "RubySequencer"}
          /\ KindOf(r) \in {"Switch", "L1Cache", "Directory", "RubySequencer"}
      BY <3>1, RubyLinkKinds, LinkTable
    <3>3. KindOf(system) = "System"
      BY DEF KindOf, KindNamed, system
    <3> QED
      BY <3>1, <3>2, <3>3 DEF RubyPlace
  <2>4. CASE Travelled
    <3>1. PICK p \in packets : \/ AlongWire(p, q) \/ ToController(p, q)
                               \/ FromController(p, q) \/ OverSwitch(p, q)
      BY <2>1, <2>4 DEF Travelled
    <3>2. q.origin = p.origin /\ q.addr = p.addr
      BY <3>1 DEF AlongWire, ToController, FromController, OverSwitch, MovedTo
    <3>3. CASE AlongWire(p, q)
      <4>1. PICK port, e : /\ <<<<p.at[1], port>>, e>> \in wires /\ OnFrom(p, e, port)
                           /\ q.at = e
        BY <3>3 DEF AlongWire, MovedTo
      <4>2. CASE ~Ruby
        <5>1. ClassicPlace(p)
          BY <4>2 DEF TargetInv
        <5>2. IsAddress(p.addr)
          BY PacketAddress
        <5>3. \/ Memory(p.addr) \/ \E i \in CPUs : ForAPIC(p.addr, i)
              \/ FullSystem /\ (Bridged(p.addr) \/ Unowned(p.addr))
          <6>1. CASE Message(p) /\ p.addr = KB(0)
            <7>1. build.mem \in Nat /\ build.mem > 1024
              BY BuildsAreRecords DEF ConfigInv, MB
            <7> QED
              BY <6>1, <7>1 DEF Memory, KB, InRange, AddrRangeTo, Before
          <6>2. CASE ~Message(p)
            <7>1. PICK w \in wires : /\ w[1] = p.origin /\ p.addr \in AddressesFrom(w[1])
                                     /\ KindOf(w[1][1]) \in Sources
              BY <6>2 DEF AddrInv
            <7> QED
              BY <4>2, <7>1, ClassicAddresses
          <6> QED
            BY <6>1, <6>2 DEF AddrInv
        <5> QED
          BY <1>4, <3>2, <4>1, <4>2, <5>1, <5>2, <5>3, ClassicHop
      <4>3. CASE Ruby
        <5>1. PICK w \in wires : w = <<<<p.at[1], port>>, e>>
          BY <4>1
        <5>2. RubyLeads(w) /\ w[1][1] = p.at[1] /\ w[1][2] = port /\ w[2] = e
          BY <4>3, <5>1, RubyWiresLead
        <5>3. KindOf(p.at[1]) = "Directory" /\ port = "memory"
          BY <4>1, <5>2 DEF OnFrom, RubyLeads, Forwards, XBar, CoherentXBar
        <5>4. e[1] = mem_ctrl(0)
          BY <5>2, <5>3 DEF RubyLeads
        <5>5. /\ KindOf(mem_ctrl(0)) = "MemCtrl" /\ KindOf(sys_port_proxy) = "RubyPortProxy"
          BY DEF KindOf, KindNamed, mem_ctrl, sys_port_proxy
        <5>6. p.origin[1] # system
          BY <4>3, <5>3, <5>5 DEF TargetInv, RubyPlace
        <5> QED
          BY <3>2, <4>1, <4>3, <5>4, <5>5, <5>6 DEF RubyPlace
      <4> QED
        BY <4>2, <4>3
    <3>4. CASE ToController(p, q) \/ FromController(p, q) \/ OverSwitch(p, q)
      <4>1. <<p.at[1], q.at[1]>> \in links
        <5>1. CASE ToController(p, q)
          <6>1. PICK l \in links : l[1] = p.at[1] /\ q.at = <<l[2], "mandatoryQueue">>
            BY <5>1 DEF ToController, MovedTo
          <6>2. l = <<l[1], l[2]>>
            BY DEF ConfigInv, LinksKnown
          <6> QED
            BY <6>1, <6>2
        <5>2. CASE FromController(p, q)
          BY <5>2 DEF FromController, MovedTo
        <5>3. CASE OverSwitch(p, q)
          <6>1. PICK d, t : <<p.at[1], d>> \in links /\ MovedTo(p, q, <<d, t>>)
            BY <5>3, Zenon DEF OverSwitch
          <6> QED
            BY <6>1 DEF MovedTo
        <5> QED
          BY <3>4, <5>1, <5>2, <5>3
      <4>2. /\ Ruby
            /\ KindOf(p.at[1]) \in {"Switch", "L1Cache", "Directory", "RubySequencer"}
            /\ KindOf(q.at[1]) \in {"Switch", "L1Cache", "Directory", "RubySequencer"}
        BY <4>1, RubyLinkKinds, LinkTable
      <4>3. KindOf(sys_port_proxy) = "RubyPortProxy"
        BY DEF KindOf, KindNamed, sys_port_proxy
      <4>4. p.origin[1] # system
        BY <4>2, <4>3 DEF TargetInv, RubyPlace
      <4> QED
        BY <3>2, <4>2, <4>4 DEF RubyPlace
    <3> QED
      BY <3>1, <3>3, <3>4
  <2> QED
    BY <1>4, <2>2, <2>3, <2>4
<1> QED
  BY <1>1, <1>3, <1>4, PacketSteps

(* So who takes a request is its target.                                   *)
LEMMA TargetHolds ==
  ASSUME ConfigInv, PacketInv, PhaseInv, AddrInv, TargetInv
  PROVE  RightTarget
<1>1. SUFFICES ASSUME NEW p \in packets, Arrived(p), ~IsMessage(p)
               PROVE  p.at[1] = Target(p)
  BY DEF RightTarget
<1>2. ClassOf(p.at[1]) = KindOf(p.at[1]) /\ ~Message(p)
  BY <1>1, Classes DEF ConfigInv, PacketInv, IsMessage, Message, Controllers
<1>3. KindOf(p.at[1]) \in Terminals
  BY <1>1, <1>2 DEF Arrived, Terminals
<1>4. CASE ~Ruby
  BY <1>3, <1>4 DEF TargetInv, ClassicPlace
<1>5. CASE Ruby
  <2>1. RubyPlace(p)
    BY <1>5 DEF TargetInv
  <2>2. CASE p.origin[1] = system
    <3>1. Target(p) = sys_port_proxy
      BY <1>5, <2>2 DEF Target
    <3> QED
      BY <2>1, <2>2, <3>1 DEF RubyPlace
  <2>3. CASE p.origin[1] # system
    <3>1. KindOf(p.at[1]) \in {"MemCtrl", "RubyPortProxy"}
      BY <1>2, <1>3, <1>5 DEF PhaseInv, BeforeNetwork, InNetwork, Delivered, Terminals
    <3>2. p.at[1] = mem_ctrl(0)
      BY <2>1, <2>3, <3>1 DEF RubyPlace
    <3>3. p.addr \in MemoryAddresses
      <4>1. p.addr \in AddressesFrom(p.origin) /\ ~FullSystem
        BY <1>2, <1>5 DEF AddrInv, Ruby, FullSystem
      <4> QED
        BY <1>5, <4>1, Zenon DEF AddressesFrom
    <3>4. Memory(p.addr)
      <4>1. PICK m : m = build.mem /\ m \in Nat /\ m > 1024
        BY BuildsAreRecords DEF ConfigInv, MB
      <4> QED
        BY <3>3, <4>1 DEF MemoryAddresses, Memory, KB, InRange, AddrRangeTo, Before
    <3>5. Target(p) = mem_ctrl(0)
      BY <2>3, <3>4, Zenon DEF Target
    <3> QED
      BY <3>2, <3>5
  <2> QED
    BY <2>2, <2>3
<1> QED
  BY <1>4, <1>5

(* In every configuration, for every size of memory and number of CPUs,    *)
(* whoever takes a request is the one whose address it is: memory, a local *)
(* APIC, a device, or the responder to bad addresses.                      *)
THEOREM ConfigsRightTarget == Spec => []RightTarget
<1>1. Init => ConfigInv /\ PacketInv /\ PhaseInv /\ AddrInv /\ TargetInv
  BY ConfigInit, PacketInvInit DEF Init, PhaseInv, AddrInv, TargetInv
<1>2. ConfigInv /\ PacketInv /\ PhaseInv /\ AddrInv /\ TargetInv /\ [Next]_vars
        => (ConfigInv /\ PacketInv /\ PhaseInv /\ AddrInv /\ TargetInv)'
  BY ConfigStep, PacketInvStep, PhaseInvStep, AddrInvStep, TargetInvStep
<1>3. ConfigInv /\ PacketInv /\ PhaseInv /\ AddrInv /\ TargetInv => RightTarget
  BY TargetHolds
<1> QED
  BY <1>1, <1>2, <1>3, PTL DEF Spec

-----------------------------------------------------------------------------
(* What cannot work is refused.                                            *)

(* The statements of S make no memory controller.                          *)
MakesNoMemory(S) == \A st \in S : Makes(st) => KindOf(st.obj) # "MemCtrl"

(* Only createMemoryControllers makes memory controllers,                  *)
LEMMA NoMemoryMade ==
  ASSUME NEW p, NEW n
  PROVE  /\ MakesNoMemory(msiSetupSet(p)) /\ MakesNoMemory(miSetupSet(p))
         /\ MakesNoMemory(testSetupSet(p)) /\ MakesNoMemory(cpusSet(n))
         /\ MakesNoMemory(allInterruptsSet(n)) /\ MakesNoMemory(instantiate)
         /\ MakesNoMemory(new(system, "System")) /\ MakesNoMemory(new(tester, "RubyTester"))
         /\ \A ok : MakesNoMemory(check(ok))
<1> USE DEF MakesNoMemory
<1>1. /\ \A o, c : KindOf(o) # "MemCtrl" =>
           MakesNoMemory(new(o, c)) /\ MakesNoMemory(controller(o, c))
      /\ \A o, q, r, s : MakesNoMemory(bind(o, q, r, s))
      /\ \A ok : MakesNoMemory(check(ok))
      /\ \A a, b : MakesNoMemory(link(a, b))
      /\ MakesNoMemory(instantiate)
  BY DEF new, controller, bind, check, link, instantiate, Makes
<1>2. \A i : /\ KindOf(system) # "MemCtrl" /\ KindOf(tester) # "MemCtrl"
             /\ KindOf(cpu(i)) # "MemCtrl"
             /\ KindOf(interrupts(i)) # "MemCtrl" /\ KindOf(network) # "MemCtrl"
             /\ KindOf(l1(i)) # "MemCtrl" /\ KindOf(dir) # "MemCtrl"
             /\ KindOf(router(i)) # "MemCtrl"
             /\ KindOf(sequencer(i)) # "MemCtrl" /\ KindOf(sys_port_proxy) # "MemCtrl"
  BY DEF KindOf, KindNamed, system, tester, cpu, interrupts, network, l1, dir, router, sequencer,
         sys_port_proxy
<1>3. \A o, b : MakesNoMemory(toNetwork(o, b)) /\ MakesNoMemory(fromNetwork(o, b))
  BY <1>1 DEF toNetwork, fromNetwork
<1>4. MakesNoMemory(msiL1sSet(p)) /\ MakesNoMemory(miL1sSet(p))
  <2>1. \A i : MakesNoMemory(msiL1Set(p, i)) /\ MakesNoMemory(miL1Set(p, i))
    BY <1>1, <1>2, <1>3 DEF msiL1Set, miL1Set
  <2> QED
    BY <2>1 DEF msiL1sSet, miL1sSet
<1>5. MakesNoMemory(msiDirSet(p)) /\ MakesNoMemory(miDirSet(p))
  BY <1>1, <1>2, <1>3 DEF msiDirSet, miDirSet
<1>6. \A m : MakesNoMemory(networkSet(m)) /\ MakesNoMemory(sequencersSet(m))
  BY <1>1, <1>2 DEF networkSet, routersSet, extLinksSet, intLinksSet, linksFromSet,
                    sequencersSet, newSequencersSet, pointersSet
<1>7. MakesNoMemory(proxySet)
  BY <1>1, <1>2 DEF proxySet
<1>8. MakesNoMemory(allCPUPortsSet(p)) /\ MakesNoMemory(allTesterPortsSet(p))
  <2>1. \A i : MakesNoMemory(cpuPortsSet(p, i)) /\ MakesNoMemory(testerSet(i))
    BY <1>1 DEF cpuPortsSet, interruptPortsSet, walkersSet, testerSet
  <2> QED
    BY <2>1 DEF allCPUPortsSet, allTesterPortsSet
<1>9. MakesNoMemory(cpusSet(n)) /\ MakesNoMemory(allInterruptsSet(n))
  BY <1>1, <1>2 DEF cpusSet, allInterruptsSet
<1>10. /\ MakesNoMemory(msiSetupSet(p)) /\ MakesNoMemory(miSetupSet(p))
       /\ MakesNoMemory(testSetupSet(p))
  BY <1>1, <1>2, <1>4, <1>5, <1>6, <1>7, <1>8 DEF msiSetupSet, miSetupSet, testSetupSet
<1> QED
  BY <1>1, <1>2, <1>9, <1>10

(* so a Ruby script that has passed its checks is of a supported build.    *)
LEMMA RefusesUnsupported ==
  ASSUME ConfigInv, Simulating, Ruby
  PROVE  Supported(build)
<1>1. PICK b, S : /\ b = build /\ S = StatementsOf(b) /\ b \in Builds
                  /\ b.script \in {"simple_ruby", "ruby_test"}
  BY DEF ConfigInv, Ruby
<1>2. /\ b.cpus \in Nat \ {0} /\ b.memCtrls \in Nat /\ b.caches \in {"MSI", "MI_example"}
      /\ (b.script = "ruby_test" => b.caches = "MSI")
  BY <1>1, BuildsAreRecords
<1>3. ASSUME NEW st \in S, st.op = "check"
      PROVE  st.ok
  BY <1>1, <1>3, AllExecuted DEF Executed
<1>4. \/ b.caches = "MSI" /\ msiSetupSet(b) \subseteq S
      \/ b.caches = "MI_example" /\ miSetupSet(b) \subseteq S
      \/ b.caches = "MSI" /\ testSetupSet(b) \subseteq S
  BY <1>1, <1>2 DEF StatementsOf, simpleRubySet, rubyTestSet
<1>5. \E i : msiL1Set(b, i) \subseteq S \/ miL1Set(b, i) \subseteq S
  <2>1. 0 \in 0..(b.cpus - 1)
    BY <1>2
  <2>2. msiL1Set(b, 0) \subseteq msiL1sSet(b) /\ miL1Set(b, 0) \subseteq miL1sSet(b)
    BY <2>1 DEF msiL1sSet, miL1sSet
  <2>3. msiL1sSet(b) \subseteq S \/ miL1sSet(b) \subseteq S
    BY <1>4 DEF msiSetupSet, miSetupSet, testSetupSet
  <2> QED
    BY <2>2, <2>3
<1>6. msiDirSet(b) \subseteq S \/ miDirSet(b) \subseteq S
  BY <1>4 DEF msiSetupSet, miSetupSet, testSetupSet
<1>7. check(b.built = b.caches) \subseteq S
  BY <1>4 DEF msiSetupSet, miSetupSet, testSetupSet
<1>8. check(PowerOfTwo(b.lineSize)) \subseteq S
  BY <1>5 DEF msiL1Set, miL1Set
<1>9. check(b.memCtrls <= 1) \subseteq S /\ bind(dir, "memory", mem_ctrl(0), "port") \subseteq S
  BY <1>6 DEF msiDirSet, miDirSet
<1>10. b.memCtrls # 0
  <2>1. PICK st \in S : st.op = "bind" /\ st.ends = {<<dir, "memory">>, <<mem_ctrl(0), "port">>}
    BY <1>9 DEF bind
  <2>2. PICK w \in wires : w \in st.ends \X st.ends
    BY <1>1, <2>1, AllExecuted DEF Executed
  <2>3. IsPort(w[1], "master") /\ IsPort(w[2], "slave") /\ Exists(w[2][1])
    BY <2>2 DEF ConfigInv, WiresKnown
  <2>4. w[2][1] = mem_ctrl(0)
    <3>1. Role(dir, "memory") = "master"
      BY PortRoles
    <3>2. Role(w[2][1], w[2][2]) = "slave"
      BY <1>1, <2>3, Roles
    <3> QED
      BY <2>1, <2>2, <3>1, <3>2
  <2>5. PICK s \in S : Makes(s) /\ s.obj = mem_ctrl(0)
    BY <1>1, <2>3, <2>4 DEF ConfigInv, MadeKnown, Exists
  <2>6. KindOf(s.obj) = "MemCtrl"
    BY <2>5 DEF KindOf, KindNamed, mem_ctrl
  <2>7. s \in memCtrlsSet(b)
    <3>1. S \subseteq memCtrlsSet(b) \cup new(system, "System") \cup cpusSet(b.cpus)
                        \cup allInterruptsSet(b.cpus) \cup msiSetupSet(b) \cup miSetupSet(b)
                        \cup testSetupSet(b) \cup instantiate \cup new(tester, "RubyTester")
                        \cup check(b.ruby_caches)
      BY <1>1 DEF StatementsOf, simpleRubySet, rubyTestSet
    <3> QED
      BY <2>5, <2>6, <3>1, NoMemoryMade DEF MakesNoMemory
  <2>8. \E i : i \in 0..(b.memCtrls - 1)
    BY <2>7 DEF memCtrlsSet
  <2> QED
    BY <1>2, <2>8
<1>11. (b.built = b.caches) /\ PowerOfTwo(b.lineSize) /\ b.memCtrls <= 1
  <2>1. b.built = b.caches
    <3>1. PICK st \in S : st.op = "check" /\ st.ok = (b.built = b.caches)
      BY <1>7 DEF check
    <3> QED
      BY <1>3, <3>1
  <2>2. PowerOfTwo(b.lineSize)
    <3>1. PICK st \in S : st.op = "check" /\ st.ok = (PowerOfTwo(b.lineSize))
      BY <1>8 DEF check
    <3> QED
      BY <1>3, <3>1
  <2>3. b.memCtrls <= 1
    <3>1. PICK st \in S : st.op = "check" /\ st.ok = (b.memCtrls <= 1)
      BY <1>9 DEF check
    <3> QED
      BY <1>3, <3>1
  <2> QED
    BY <2>1, <2>2, <2>3
<1>12. b.script = "ruby_test" => b.ruby_caches
  <2>1. SUFFICES ASSUME b.script = "ruby_test" PROVE b.ruby_caches
    OBVIOUS
  <2>2. check(b.ruby_caches) \subseteq S
    BY <1>1, <2>1 DEF StatementsOf, rubyTestSet
  <2>3. PICK st \in S : st.op = "check" /\ st.ok = b.ruby_caches
    BY <2>2 DEF check
  <2> QED
    BY <1>3, <2>3
<1> QED
  BY <1>1, <1>2, <1>10, <1>11, <1>12 DEF Supported

(* A system that comes to simulate is a supported one: the scripts refuse  *)
(* every Ruby system whose protocol was not compiled in, whose line size   *)
(* is no power of two or that has more than one memory controller, and     *)
(* ruby_test never gets there without the module that it imports.          *)
THEOREM ConfigsRefuse == Spec => [](Simulating => Supported(build))
<1>1. Init => ConfigInv
  BY ConfigInit
<1>2. ConfigInv /\ [Next]_vars => ConfigInv'
  BY ConfigStep
<1>3. ConfigInv => (Simulating => Supported(build))
  BY RefusesUnsupported DEF Supported, Ruby
<1> QED
  BY <1>1, <1>2, <1>3, PTL DEF Spec

-----------------------------------------------------------------------------
(* The tables of a full system (TablesDescribeSystem).                     *)

(* The entry for the 8259 that goes with one for the I/O APIC.             *)
Paired(x) == [x EXCEPT !.type = "ExtInt", !.dest_io_apic_intin = 0]

(* The pair of an ISA interrupt's entry.                                   *)
LEMMA PairOf ==
  ASSUME NEW n, NEW irq, NEW pin
  PROVE  Paired(IntAssignment(n, "INT", 1, irq, pin)) = IntAssignment(n, "ExtInt", 1, irq, 0)
<1>1. PICK x, y : /\ x = IntAssignment(n, "INT", 1, irq, pin)
                  /\ y = IntAssignment(n, "ExtInt", 1, irq, 0)
  OBVIOUS
<1>2. DOMAIN x = DOMAIN y /\ DOMAIN x = {"type", "source_bus_id", "source_bus_irq",
                                         "dest_io_apic_id", "dest_io_apic_intin"}
  BY <1>1 DEF IntAssignment
<1>3. PICK u : u = [x EXCEPT !.type = "ExtInt"]
  OBVIOUS
<1>4. PICK v : v = [u EXCEPT !.dest_io_apic_intin = 0]
  OBVIOUS
<1>5. v = Paired(x)
  BY <1>3, <1>4 DEF Paired
<1>6. u = IntAssignment(n, "ExtInt", 1, irq, pin)
  BY <1>1, <1>3 DEF IntAssignment
<1>7. v = y
  BY <1>1, <1>4, <1>6 DEF IntAssignment
<1> QED
  BY <1>1, <1>5, <1>7

(* A list of interrupts for the I/O APIC n: each at a pin of its own of P, *)
(* from a bus that there is, and the ISA bus's both ways.                  *)
INT(s, k) == s[k].type = "INT"
AssignsPins(s, P, n) ==
  /\ \E R : s \in Seq(R)
  /\ \A k \in 1..Len(s) :
       /\ s[k].dest_io_apic_id = n /\ s[k].source_bus_id \in {0, 1}
       /\ INT(s, k) => s[k].dest_io_apic_intin \in P
       /\ INT(s, k) /\ s[k].source_bus_id = 1 => \E j \in 1..Len(s) : s[j] = Paired(s[k])
  /\ \A j, k \in 1..Len(s) :
       INT(s, j) /\ INT(s, k) /\ j # k => s[j].dest_io_apic_intin # s[k].dest_io_apic_intin

(* Two lists of interrupts with pins apart, one after the other.           *)
LEMMA AssignsThen ==
  ASSUME NEW s, NEW t, NEW P, NEW Q, NEW n, AssignsPins(s, P, n), AssignsPins(t, Q, n),
         P \cap Q = {}
  PROVE  AssignsPins(s \o t, P \cup Q, n)
<1>1. PICK R, T : s \in Seq(R) /\ t \in Seq(T)
  BY DEF AssignsPins
<1>2. PICK x, y, u : x = Len(s) /\ y = Len(t) /\ u = s \o t
  OBVIOUS
<1>3. s \in Seq(R \cup T) /\ t \in Seq(R \cup T) /\ x \in Nat /\ y \in Nat
  BY <1>1, <1>2
<1>4. /\ u \in Seq(R \cup T) /\ Len(u) = x + y
      /\ \A k \in 1..(x + y) : u[k] = IF k <= x THEN s[k] ELSE t[k - x]
  BY <1>2, <1>3
<1>5. /\ \A k \in 1..x : k \in 1..(x + y) /\ u[k] = s[k]
      /\ \A k \in 1..y : k + x \in 1..(x + y) /\ u[k + x] = t[k]
  BY <1>3, <1>4
<1>6. ASSUME NEW k \in 1..(x + y)
      PROVE  \/ k \in 1..x /\ u[k] = s[k]
             \/ \E j \in 1..y : k = j + x /\ u[k] = t[j]
  <2>1. CASE k <= x
    BY <1>3, <1>5, <2>1
  <2>2. CASE k > x
    <3>1. PICK j : j = k - x
      OBVIOUS
    <3>2. j \in 1..y /\ k = j + x
      BY <1>3, <2>2, <3>1
    <3> QED
      BY <1>5, <3>2
  <2> QED
    BY <1>3, <2>1, <2>2
<1>7. ASSUME NEW k \in 1..(x + y)
      PROVE  /\ u[k].dest_io_apic_id = n /\ u[k].source_bus_id \in {0, 1}
             /\ INT(u, k) => u[k].dest_io_apic_intin \in P \cup Q
             /\ INT(u, k) /\ u[k].source_bus_id = 1 => \E j \in 1..(x + y) : u[j] = Paired(u[k])
  <2>1. CASE k \in 1..x /\ u[k] = s[k]
    BY <1>2, <1>5, <2>1 DEF AssignsPins, INT
  <2>2. CASE \E j \in 1..y : k = j + x /\ u[k] = t[j]
    <3>1. PICK j \in 1..y : k = j + x /\ u[k] = t[j]
      BY <2>2
    <3>2. /\ u[k].dest_io_apic_id = n /\ u[k].source_bus_id \in {0, 1}
          /\ INT(u, k) => u[k].dest_io_apic_intin \in P \cup Q
      BY <1>2, <3>1 DEF AssignsPins, INT
    <3>3. ASSUME INT(u, k), u[k].source_bus_id = 1
          PROVE  \E i \in 1..(x + y) : u[i] = Paired(u[k])
      <4>1. PICK i \in 1..y : t[i] = Paired(t[j])
        BY <1>2, <3>1, <3>3 DEF AssignsPins, INT
      <4>2. i + x \in 1..(x + y) /\ u[i + x] = t[i]
        BY <1>5
      <4> QED
        BY <3>1, <4>1, <4>2
    <3> QED
      BY <3>2, <3>3
  <2> QED
    BY <1>6, <2>1, <2>2
<1>8. ASSUME NEW j \in 1..(x + y), NEW k \in 1..(x + y), INT(u, j), INT(u, k), j # k
      PROVE  u[j].dest_io_apic_intin # u[k].dest_io_apic_intin
  <2>1. CASE j \in 1..x /\ u[j] = s[j] /\ k \in 1..x /\ u[k] = s[k]
    BY <1>2, <1>8, <2>1 DEF AssignsPins, INT
  <2>2. ASSUME NEW i \in 1..(x + y), NEW l \in 1..(x + y), INT(u, i), INT(u, l),
               i \in 1..x, u[i] = s[i], \E m \in 1..y : l = m + x /\ u[l] = t[m]
        PROVE  u[i].dest_io_apic_intin # u[l].dest_io_apic_intin
    <3>1. u[i].dest_io_apic_intin \in P
      BY <1>2, <2>2 DEF AssignsPins, INT
    <3>2. u[l].dest_io_apic_intin \in Q
      BY <1>2, <2>2 DEF AssignsPins, INT
    <3> QED
      BY <3>1, <3>2
  <2>3. ASSUME NEW i \in 1..y, NEW l \in 1..y, j = i + x, u[j] = t[i], k = l + x, u[k] = t[l]
        PROVE  u[j].dest_io_apic_intin # u[k].dest_io_apic_intin
    BY <1>2, <1>8, <2>3 DEF AssignsPins, INT
  <2> QED
    BY <1>6, <1>8, <2>1, <2>2, <2>3
<1>9. \E X : u \in Seq(X)
  BY <1>4
<1>10. \A k \in 1..Len(u) :
         /\ u[k].dest_io_apic_id = n /\ u[k].source_bus_id \in {0, 1}
         /\ INT(u, k) => u[k].dest_io_apic_intin \in P \cup Q
         /\ INT(u, k) /\ u[k].source_bus_id = 1 => \E j \in 1..Len(u) : u[j] = Paired(u[k])
  BY <1>4, <1>7, Zenon
<1>11. \A j, k \in 1..Len(u) :
         INT(u, j) /\ INT(u, k) /\ j # k => u[j].dest_io_apic_intin # u[k].dest_io_apic_intin
  BY <1>4, <1>8, Zenon
<1>12. AssignsPins(u, P \cup Q, n)
  BY <1>9, <1>10, <1>11, Zenon DEF AssignsPins
<1> QED
  BY <1>2, <1>12

(* The two entries for an ISA interrupt.                                   *)
LEMMA AssignsISA ==
  ASSUME NEW n, NEW irq, NEW pin
  PROVE  AssignsPins(assignISAInt(n, irq, pin), {pin}, n)
<1>1. PICK x, y, s : /\ x = IntAssignment(n, "ExtInt", 1, irq, 0)
                     /\ y = IntAssignment(n, "INT", 1, irq, pin)
                     /\ s = <<x, y>>
  OBVIOUS
<1>2. s \in Seq({x, y}) /\ Len(s) = 2 /\ s[1] = x /\ s[2] = y
  BY <1>1
<1>3. /\ x.type = "ExtInt" /\ x.dest_io_apic_id = n /\ x.source_bus_id = 1
      /\ y.type = "INT" /\ y.dest_io_apic_id = n /\ y.source_bus_id = 1
      /\ y.dest_io_apic_intin = pin
  BY <1>1 DEF IntAssignment, io_apic_id
<1>4. Paired(y) = x
  BY <1>1, PairOf
<1>5. \A k \in 1..2 : k = 1 \/ k = 2
  OBVIOUS
<1>6. AssignsPins(s, {pin}, n)
  BY <1>2, <1>3, <1>4, <1>5 DEF AssignsPins, INT
<1> QED
  BY <1>1, <1>6 DEF assignISAInt

(* The entry for the PCI interrupt.                                        *)
LEMMA AssignsPCI ==
  ASSUME NEW n
  PROVE  AssignsPins(<<IntAssignment(n, "INT", 0, 16, 16)>>, {16}, n)
<1>1. PICK x, s : x = IntAssignment(n, "INT", 0, 16, 16) /\ s = <<x>>
  OBVIOUS
<1>2. s \in Seq({x}) /\ Len(s) = 1 /\ s[1] = x
  BY <1>1
<1>3. /\ x.type = "INT" /\ x.dest_io_apic_id = n /\ x.source_bus_id = 0
      /\ x.dest_io_apic_intin = 16
  BY <1>1 DEF IntAssignment, io_apic_id
<1>4. \A k \in 1..1 : k = 1
  OBVIOUS
<1>5. AssignsPins(s, {16}, n)
  BY <1>2, <1>3, <1>4 DEF AssignsPins, INT
<1> QED
  BY <1>1, <1>5

(* A loop's entries, the i-th for pin i + 2: induction over the loop.      *)
LEMMA AssignsEach ==
  ASSUME NEW n \in Nat, n > 0, NEW ss, NEW id, ss = [i \in 1..n |-> ss[i]],
         \A i \in 1..n : AssignsPins(ss[i], {i + 2}, id)
  PROVE  AssignsPins(FlattenSeq(ss), 3..(n + 2), id)
<1>1. Len(ss) = n
  <2>1. PICK f : f = [i \in 1..n |-> ss[i]]
    OBVIOUS
  <2>2. Len(f) = n
    BY <2>1
  <2> QED
    BY <2>1, <2>2
<1>2. PICK f : /\ f = [i \in 1..n |-> IF i = 1 THEN ss[i] ELSE f[i - 1] \o ss[i]]
               /\ FlattenSeq(ss) = f[n]
  BY <1>1, Flattened
<1>3. PICK S : S = {m \in Nat : m + 1 <= n => AssignsPins(f[m + 1], 3..(m + 3), id)}
  OBVIOUS
<1>4. \A k \in 1..n : f[k] = IF k = 1 THEN ss[k] ELSE f[k - 1] \o ss[k]
  BY <1>2, Zenon
<1>5. 0 \in S
  <2>1. f[1] = ss[1] /\ 1 \in 1..n
    BY <1>4
  <2>2. AssignsPins(f[1], {1 + 2}, id)
    BY <2>1
  <2>3. 3..(0 + 3) = {1 + 2} /\ 0 + 1 = 1
    OBVIOUS
  <2> QED
    BY <1>3, <2>2, <2>3
<1>6. ASSUME NEW m \in S
      PROVE  m + 1 \in S
  <2>1. PICK j, k : j = m + 1 /\ k = j + 1 /\ m \in Nat
    BY <1>3
  <2>2. SUFFICES ASSUME k <= n
                 PROVE  AssignsPins(f[k], 3..(j + 3), id)
    BY <1>3, <2>1
  <2>3. AssignsPins(f[j], 3..(m + 3), id) /\ k \in 1..n /\ k # 1 /\ k - 1 = j
    BY <1>3, <2>1, <2>2
  <2>4. f[k] = f[j] \o ss[k]
    <3>1. f[k] = f[k - 1] \o ss[k]
      BY <1>4, <2>3, Zenon
    <3> QED
      BY <2>3, <3>1
  <2>5. AssignsPins(ss[k], {k + 2}, id)
    BY <2>3
  <2>6. 3..(m + 3) \cap {k + 2} = {} /\ 3..(m + 3) \cup {k + 2} = 3..(j + 3)
    BY <2>1
  <2>7. AssignsPins(f[j] \o ss[k], 3..(m + 3) \cup {k + 2}, id)
    BY <2>3, <2>5, <2>6, AssignsThen
  <2> QED
    BY <2>4, <2>6, <2>7
<1>7. S = Nat
  BY <1>3, <1>5, <1>6, AllNumbers
<1>8. PICK j : j = n - 1
  OBVIOUS
<1>9. j \in S /\ j + 1 = n /\ j + 3 = n + 2
  BY <1>7, <1>8
<1>10. AssignsPins(f[j + 1], 3..(j + 3), id)
  BY <1>3, <1>9
<1> QED
  BY <1>2, <1>9, <1>10

(* The interrupts of the MP table each have their pin.                     *)
LEMMA MPInterrupts ==
  ASSUME NEW n
  PROVE  AssignsPins(int_assignments(n), {16} \cup {2} \cup {1} \cup 3..14, n)
<1>1. PICK ss : ss = [i \in 1..12 |-> assignISAInt(n, (i - 1) + 3, (i - 1) + 3)]
  OBVIOUS
<1>2. ss = [i \in 1..12 |-> ss[i]]
  BY <1>1
<1>3. \A i \in 1..12 : AssignsPins(ss[i], {i + 2}, n)
  <2>1. ASSUME NEW i \in 1..12
        PROVE  AssignsPins(ss[i], {i + 2}, n)
    <3>1. PICK pin : pin = i + 2
      OBVIOUS
    <3>2. ss[i] = assignISAInt(n, pin, pin)
      BY <1>1, <3>1
    <3> QED
      BY <3>1, <3>2, AssignsISA
  <2> QED
    BY <2>1
<1>4. AssignsPins(FlattenSeq(ss), 3..(12 + 2), n)
  <2>1. PICK m \in Nat : m = 12
    OBVIOUS
  <2>2. AssignsPins(FlattenSeq(ss), 3..(m + 2), n)
    <3>1. ss = [i \in 1..m |-> ss[i]] /\ m > 0
      BY <1>2, <2>1
    <3>2. \A i \in 1..m : AssignsPins(ss[i], {i + 2}, n)
      BY <1>3, <2>1
    <3> QED
      BY <3>1, <3>2, AssignsEach
  <2> QED
    BY <2>1, <2>2
<1>5. PICK each : each = ForEach(12, LAMBDA i : assignISAInt(n, i + 3, i + 3))
  OBVIOUS
<1>6. AssignsPins(each, 3..14, n)
  <2>1. each = FlattenSeq(ss)
    BY <1>1, <1>5 DEF ForEach
  <2> QED
    BY <1>4, <2>1
<1>7. PICK a, b, c : /\ a = <<IntAssignment(n, "INT", 0, 16, 16)>>
                     /\ b = assignISAInt(n, 0, 2) /\ c = assignISAInt(n, 1, 1)
  OBVIOUS
<1>8. AssignsPins(a \o b, {16} \cup {2}, n)
  <2>1. AssignsPins(a, {16}, n) /\ AssignsPins(b, {2}, n) /\ {16} \cap {2} = {}
    BY <1>7, AssignsPCI, AssignsISA
  <2> QED
    BY <2>1, AssignsThen
<1>9. AssignsPins(a \o b \o c, {16} \cup {2} \cup {1}, n)
  <2>1. AssignsPins(c, {1}, n) /\ ({16} \cup {2}) \cap {1} = {}
    BY <1>7, AssignsISA
  <2> QED
    BY <1>8, <2>1, AssignsThen
<1>10. AssignsPins(a \o b \o c \o each, {16} \cup {2} \cup {1} \cup 3..14, n)
  <2>1. ({16} \cup {2} \cup {1}) \cap 3..14 = {}
    OBVIOUS
  <2> QED
    BY <1>6, <1>9, <2>1, AssignsThen
<1>11. int_assignments(n) = a \o b \o c \o each
  BY <1>5, <1>7, Zenon DEF int_assignments
<1> QED
  BY <1>10, <1>11

(* A full system has a local APIC for each CPU and no other.               *)
MakesAPICs(S, M) == \A st \in S : Makes(st) /\ KindOf(st.obj) = "X86LocalApic" => st.obj \in M

(* The script of a full system makes a local APIC for each CPU and no      *)
(* other,                                                                  *)
LEMMA FullSystemAPICs ==
  ASSUME NEW n
  PROVE  MakesAPICs(mySystemSet(n), {interrupts(i) : i \in 0..(n - 1)})
<1>1. PICK M : M = {interrupts(i) : i \in 0..(n - 1)}
  OBVIOUS
<1>2. \A o, c : KindOf(o) # "X86LocalApic" \/ o \in M => MakesAPICs(new(o, c), M)
  BY DEF MakesAPICs, new
<1>3. \A o, p, q, r : MakesAPICs(bind(o, p, q, r), M)
  BY DEF MakesAPICs, bind, Makes
<1>4. MakesAPICs(instantiate, M)
  BY DEF MakesAPICs, instantiate, Makes
<1>5. \A i : /\ KindOf(system) # "X86LocalApic" /\ KindOf(cpu(i)) # "X86LocalApic"
             /\ KindOf(membus) # "X86LocalApic" /\ KindOf(mem_ctrl(i)) # "X86LocalApic"
             /\ KindOf(icache(i)) # "X86LocalApic" /\ KindOf(dcache(i)) # "X86LocalApic"
             /\ KindOf(badaddr_responder) # "X86LocalApic" /\ KindOf(pc) # "X86LocalApic"
             /\ KindOf(iobus) # "X86LocalApic" /\ KindOf(bridge) # "X86LocalApic"
             /\ KindOf(apicbridge) # "X86LocalApic" /\ KindOf(iocache) # "X86LocalApic"
  BY DEF KindOf, KindNamed, system, cpu, membus, mem_ctrl, icache, dcache, badaddr_responder, pc,
         iobus, bridge, apicbridge, iocache
<1>6. MakesAPICs(cpuInterruptsSet(n), M)
  <2>1. ASSUME NEW i \in 0..(n - 1)
        PROVE  MakesAPICs(interruptsSet(i), M)
    <3>1. interrupts(i) \in M
      BY <1>1
    <3> QED
      BY <1>2, <1>3, <3>1 DEF MakesAPICs, interruptsSet
  <2> QED
    BY <2>1 DEF MakesAPICs, cpuInterruptsSet
<1>7. MakesAPICs(hierarchiesSet(n), M)
  <2>1. \A i : MakesAPICs(cachesSet(i), M)
    BY <1>2, <1>3, <1>5 DEF MakesAPICs, cachesSet
  <2>2. \A i : MakesAPICs(hierarchySet(i), M)
    BY <1>3, <2>1 DEF MakesAPICs, hierarchySet
  <2> QED
    BY <2>2 DEF MakesAPICs, hierarchiesSet
<1>8. MakesAPICs(memorySet, M) /\ MakesAPICs(cpusSet(n), M)
  BY <1>2, <1>3, <1>5 DEF MakesAPICs, memorySet, cpusSet
<1>9. MakesAPICs(initFsSet, M)
  BY <1>2, <1>3, <1>5 DEF MakesAPICs, initFsSet, attachSet
<1>10. MakesAPICs(mySystemSet(n), M)
  BY <1>2, <1>3, <1>4, <1>5, <1>6, <1>7, <1>8, <1>9 DEF MakesAPICs, mySystemSet
<1> QED
  BY <1>1, <1>10

(* and they are there once it simulates.                                   *)
LEMMA APICsMade ==
  ASSUME ConfigInv, Simulating, FullSystem
  PROVE  {interrupts(i) : i \in CPUs} = {m.obj : m \in {n \in made : n.class = "X86LocalApic"}}
<1>1. PICK b, S, n : /\ b = build /\ S = StatementsOf(b) /\ n = b.cpus
                     /\ b.script \in {"x86", "x86_mp"}
  BY DEF FullSystem
<1>2. S = mySystemSet(n)
  BY <1>1 DEF StatementsOf
<1>3. ASSUME NEW m \in made, m.class = "X86LocalApic"
      PROVE  m.obj \in {interrupts(i) : i \in CPUs}
  <2>1. PICK st \in S : Makes(st) /\ st.obj = m.obj
    BY <1>1 DEF ConfigInv, MadeKnown
  <2>2. KindOf(st.obj) = "X86LocalApic"
    BY <1>3, <2>1 DEF ConfigInv, MadeKnown
  <2>3. st.obj \in {interrupts(i) : i \in 0..(n - 1)}
    BY <1>2, <2>1, <2>2, FullSystemAPICs DEF MakesAPICs
  <2> QED
    BY <1>1, <2>1, <2>3 DEF CPUs
<1>4. ASSUME NEW i \in CPUs
      PROVE  \E m \in made : m.class = "X86LocalApic" /\ m.obj = interrupts(i)
  <2>1. Exists(interrupts(i))
    <3>1. wire(membus, "master", interrupts(i), "pio") \in wires
      BY BusWires
    <3> QED
      BY <3>1 DEF ConfigInv, WiresKnown, wire
  <2>2. PICK m \in made : m.obj = interrupts(i)
    BY <2>1 DEF Exists
  <2>3. m.class = "X86LocalApic"
    BY <2>2 DEF ConfigInv, MadeKnown, KindOf, KindNamed, interrupts
  <2> QED
    BY <2>2, <2>3
<1> QED
  BY <1>3, <1>4

(* What an MP table for n CPUs says of n local APICs.                      *)
LEMMA MPTableRight ==
  ASSUME ConfigInv, Simulating, FullSystem, NEW n, n = build.cpus
  PROVE  MPTableDescribes(MPTable(n))
<1>1. PICK table, procs, ints, ids :
        /\ table = MPTable(n) /\ procs = processors(n) /\ ints = int_assignments(n)
        /\ ids = {procs[i].local_apic_id : i \in DOMAIN procs}
  OBVIOUS
<1>2. /\ table.processors = procs /\ table.int_assignments = ints /\ table.buses = buses
      /\ table.io_apic_id = n
  BY <1>1 DEF MPTable, io_apic_id
<1>3. n \in Nat \ {0}
  BY BuildsAreRecords DEF ConfigInv
<1>4. procs \in [1..n -> [local_apic_id : Nat, bootstrap : BOOLEAN]]
      /\ \A i \in 1..n : procs[i].local_apic_id = i - 1 /\ procs[i].bootstrap = (i = 1)
  BY <1>1, <1>3 DEF processors
<1>5. DOMAIN procs = 1..n /\ Len(procs) = n
  BY <1>3, <1>4
<1>6. ids = 0..(n - 1)
  <2>1. \A i \in 1..n : procs[i].local_apic_id \in 0..(n - 1)
    BY <1>3, <1>4
  <2>2. ASSUME NEW k \in 0..(n - 1)
        PROVE  \E i \in 1..n : procs[i].local_apic_id = k
    <3>1. PICK i : i = k + 1
      OBVIOUS
    <3>2. i \in 1..n /\ i - 1 = k
      BY <1>3, <3>1
    <3> QED
      BY <1>4, <3>2
  <2> QED
    BY <1>1, <1>5, <2>1, <2>2
<1>7. Cardinality(ids) = Len(procs)
  <2>1. Cardinality(0..(n - 1)) = n
    BY <1>3, FS_Interval
  <2> QED
    BY <1>5, <1>6, <2>1
<1>8. {interrupts(i) : i \in ids} = {m.obj : m \in {k \in made : k.class = "X86LocalApic"}}
  <2>1. ids = CPUs
    BY <1>6 DEF CPUs
  <2> QED
    BY <2>1, APICsMade
<1>9. Cardinality({i \in DOMAIN procs : procs[i].bootstrap}) = 1
  <2>1. {i \in DOMAIN procs : procs[i].bootstrap} = {1}
    BY <1>3, <1>4, <1>5
  <2> QED
    BY <2>1, FS_Singleton
<1>10. AssignsPins(ints, {16} \cup {2} \cup {1} \cup 3..14, n)
  BY <1>1, MPInterrupts
<1>11. DOMAIN ints = 1..Len(ints)
  BY <1>10 DEF AssignsPins
<1>12. \A k \in DOMAIN ints :
         /\ ints[k].dest_io_apic_id = n
         /\ \E b \in DOMAIN buses : buses[b].bus_id = ints[k].source_bus_id
  <2>1. \A k \in DOMAIN ints : ints[k].dest_io_apic_id = n /\ ints[k].source_bus_id \in {0, 1}
    BY <1>10, <1>11 DEF AssignsPins
  <2>2. DOMAIN buses = 1..2 /\ buses[1].bus_id = 0 /\ buses[2].bus_id = 1
    BY DEF buses, PCIBus, ISABus
  <2> QED
    BY <2>1, <2>2
<1>13. \A j, k \in {l \in DOMAIN ints : ints[l].type = "INT"} :
         j # k => ints[j].dest_io_apic_intin # ints[k].dest_io_apic_intin
  BY <1>10, <1>11 DEF AssignsPins, INT
<1>14. \A k \in {l \in DOMAIN ints : ints[l].type = "INT"} :
         ints[k].source_bus_id = ISABus.bus_id =>
           [ints[k] EXCEPT !.type = "ExtInt", !.dest_io_apic_intin = 0]
             \in {ints[l] : l \in DOMAIN ints}
  <2>1. ISABus.bus_id = 1
    BY DEF ISABus
  <2>2. \A k \in {l \in DOMAIN ints : ints[l].type = "INT"} :
          ints[k].source_bus_id = ISABus.bus_id => Paired(ints[k]) \in {ints[l] : l \in DOMAIN ints}
    BY <1>10, <1>11, <2>1 DEF AssignsPins, INT
  <2> QED
    BY <2>2 DEF Paired
<1>15. n \notin ids
  BY <1>3, <1>6
<1>16. {table.processors[i].local_apic_id : i \in DOMAIN table.processors} = ids
  BY <1>1, <1>2, Zenon
<1>17. {interrupts(i) : i \in {table.processors[l].local_apic_id : l \in DOMAIN table.processors}}
         = {m.obj : m \in {k \in made : k.class = "X86LocalApic"}}
  BY <1>8, <1>16, Zenon
<1>18. /\ Cardinality({table.processors[l].local_apic_id : l \in DOMAIN table.processors})
            = Len(table.processors)
       /\ table.io_apic_id
            \notin {table.processors[l].local_apic_id : l \in DOMAIN table.processors}
  BY <1>2, <1>7, <1>15, <1>16, Zenon
<1>19. Cardinality({i \in DOMAIN table.processors : table.processors[i].bootstrap}) = 1
  BY <1>2, <1>9, Zenon
<1>20. \A k \in DOMAIN table.int_assignments :
         /\ table.int_assignments[k].dest_io_apic_id = table.io_apic_id
         /\ \E b \in DOMAIN table.buses :
              table.buses[b].bus_id = table.int_assignments[k].source_bus_id
  BY <1>2, <1>12, Zenon
<1>21. \A j, k \in {l \in DOMAIN table.int_assignments : table.int_assignments[l].type = "INT"} :
         j # k => table.int_assignments[j].dest_io_apic_intin
                    # table.int_assignments[k].dest_io_apic_intin
  BY <1>2, <1>13, Zenon
<1>22. \A k \in {l \in DOMAIN table.int_assignments : table.int_assignments[l].type = "INT"} :
         table.int_assignments[k].source_bus_id = ISABus.bus_id =>
           [table.int_assignments[k] EXCEPT !.type = "ExtInt", !.dest_io_apic_intin = 0]
             \in {table.int_assignments[l] : l \in DOMAIN table.int_assignments}
  <2>1. ASSUME NEW k \in {l \in DOMAIN ints : ints[l].type = "INT"},
               ints[k].source_bus_id = ISABus.bus_id
        PROVE  Paired(table.int_assignments[k])
                 \in {table.int_assignments[l] : l \in DOMAIN table.int_assignments}
    <3>1. Paired(ints[k]) \in {ints[l] : l \in DOMAIN ints}
      BY <1>14, <2>1, Zenon DEF Paired
    <3> QED
      BY <1>2, <3>1, Zenon
  <2> QED
    BY <1>2, <2>1, Zenon DEF Paired
<1>23. MPTableDescribes(table)
  BY <1>17, <1>18, <1>19, <1>20, <1>21, <1>22, Zenon DEF MPTableDescribes
<1> QED
  BY <1>1, <1>23

(* The E820 table has memory where memory answers.                         *)
LEMMA E820Right ==
  ASSUME ConfigInv, Simulating, FullSystem, NEW m, m = build.mem
  PROVE  E820Describes(e820_entries(m))
<1>1. m \in Nat /\ m > 1024 /\ m <= 3145728
  BY BuildsAreRecords DEF ConfigInv, IOGap, GB, MB
<1>2. PICK e : e = e820_entries(m)
  OBVIOUS
<1>3. /\ DOMAIN e = 1..5
      /\ e[1] = Entry(0, 639, 1) /\ e[2] = Entry(639, 385, 2)
      /\ e[3] = Entry(1024, m - 1024, 1) /\ e[4] = Entry(m, 3145728 - m, 2)
      /\ e[5] = Entry(4194240, 64, 2)
  BY <1>2 DEF e820_entries, IOGap, GB, MB, M5Ops
<1>4. /\ e[1].addr = 0 /\ EntryEnd(e[1]) = 639 /\ e[1].range_type = 1
      /\ e[2].addr = 639 /\ EntryEnd(e[2]) = 1024 /\ e[2].range_type = 2
      /\ e[3].addr = 1024 /\ EntryEnd(e[3]) = m /\ e[3].range_type = 1
      /\ e[4].addr = m /\ EntryEnd(e[4]) = 3145728 /\ e[4].range_type = 2
      /\ e[5].addr = 4194240 /\ EntryEnd(e[5]) = 4194304 /\ e[5].range_type = 2
  BY <1>1, <1>3 DEF Entry, EntryEnd
<1>5. \A i \in 1..5 : i = 1 \/ i = 2 \/ i = 3 \/ i = 4 \/ i = 5
  OBVIOUS
<1>6. \A i, j \in 1..5 : i # j => EntryEnd(e[i]) <= e[j].addr \/ EntryEnd(e[j]) <= e[i].addr
  BY <1>1, <1>4, <1>5
<1>7. \A i \in 1..5 : \/ EntryEnd(e[i]) \in {IOGap, 4 * GB}
                      \/ \E j \in 1..5 : e[j].addr = EntryEnd(e[i])
  BY <1>4, <1>5 DEF IOGap, GB, MB
<1>8. ASSUME NEW i \in 1..5, e[i].range_type = 1,
             NEW a \in {KB(e[i].addr), KB(EntryEnd(e[i]) - 1)}
      PROVE  <<mem_ctrl(0), "port">> \in Responders(membus, a)
  <2>1. i = 1 \/ i = 3
    BY <1>4, <1>5, <1>8
  <2>2. Memory(a)
    BY <1>1, <1>4, <1>8, <2>1 DEF Memory, KB, InRange, AddrRangeTo, Before
  <2>3. wire(membus, "master", mem_ctrl(0), "port") \in wires
    BY BusWires
  <2>4. ClassOf(mem_ctrl(0)) = "MemCtrl"
    <3>1. ClassOf(mem_ctrl(0)) = KindOf(mem_ctrl(0))
      BY <2>3, Classes DEF ConfigInv, WiresKnown, wire
    <3> QED
      BY <3>1 DEF KindOf, KindNamed, mem_ctrl
  <2>5. Accepts(<<mem_ctrl(0), "port">>, a)
    BY <2>2, <2>4 DEF Accepts, Memory, mem_ranges
  <2>6. <<mem_ctrl(0), "port">> \in PeersOf(<<membus, "master">>)
    BY <2>3 DEF PeersOf, wire
  <2> QED
    BY <2>5, <2>6 DEF Responders
<1> QED
  BY <1>2, <1>3, <1>6, <1>7, <1>8 DEF E820Describes

(* Both tables say what the system is.                                     *)
LEMMA TablesRight ==
  ASSUME ConfigInv
  PROVE  TablesDescribeSystem
<1>1. SUFFICES ASSUME Simulating, FullSystem
               PROVE  /\ E820Describes(e820_entries(build.mem))
                      /\ MPTableDescribes(MPTable(build.cpus))
                      /\ build.script = "x86" => build.cpus = 1
  BY DEF TablesDescribeSystem, mp_e820_entries, x86_MPTable
<1>2. build.script = "x86" => build.cpus = 1
  BY BuildsAreRecords DEF ConfigInv, OneCPUScripts
<1> QED
  BY <1>1, <1>2, E820Right, MPTableRight

(* In every full system, for every number of CPUs and every size of memory *)
(* up to the I/O gap, the E820 map and the MP table describe the system    *)
(* that the script has wired.                                              *)
THEOREM ConfigsTables == Spec => []TablesDescribeSystem
<1>1. Init => ConfigInv
  BY ConfigInit
<1>2. ConfigInv /\ [Next]_vars => ConfigInv'
  BY ConfigStep
<1>3. ConfigInv => TablesDescribeSystem
  BY TablesRight
<1> QED
  BY <1>1, <1>2, <1>3, PTL DEF Spec
=============================================================================
