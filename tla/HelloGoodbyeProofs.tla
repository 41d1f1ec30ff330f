------------------------- MODULE HelloGoodbyeProofs -------------------------
(***************************************************************************)
(* Theorems of HelloObject and GoodbyeObject, for any objects, parameters, *)
(* length of the message and number of bits in a float.                    *)
(***************************************************************************)
EXTENDS HelloGoodbye, FiniteSetTheorems, SequenceTheorems,
        WellFoundedInduction, TLAPS

-----------------------------------------------------------------------------
(* Numbers.                                                                *)

(* A set of naturals that is not empty has a least one.                    *)
LEMMA LeastNumber ==
  ASSUME NEW S, S \subseteq Nat, S # {}
  PROVE  \E n \in S : \A m \in S : n <= m
<1> DEFINE Less == OpToRel(<, Nat)
<1>1. IsWellFoundedOn(Less, Nat)
  BY NatLessThanWellFounded
<1>2. \E n \in S : \A m \in S : <<m, n>> \notin Less
  <2> HIDE DEF Less
  <2> QED
    BY <1>1, WFMin, Zenon
<1>3. PICK n \in S : \A m \in S : <<m, n>> \notin Less
  BY <1>2
<1>4. ASSUME NEW m \in S
      PROVE  n <= m
  <2>1. <<m, n>> \notin {p \in Nat \X Nat : p[1] < p[2]}
    BY <1>3 DEF OpToRel
  <2> QED
    BY <2>1
<1> QED
  BY <1>4

(* Induction: a set that has 0, and with each number the next.             *)
LEMMA AllNumbers ==
  ASSUME NEW S, S \subseteq Nat, 0 \in S, \A n \in S : n + 1 \in S
  PROVE  S = Nat
<1>1. SUFFICES ASSUME Nat \ S # {}
               PROVE  FALSE
  OBVIOUS
<1>2. PICK n \in Nat \ S : \A m \in Nat \ S : n <= m
  BY <1>1, LeastNumber
<1>3. n - 1 \in S
  BY <1>2
<1> QED
  BY <1>2, <1>3

(* Powers of two are numbers of subsets.                                   *)
LEMMA Subsets ==
  ASSUME NEW n \in Nat
  PROVE  /\ IsFiniteSet(SUBSET (1..n))
         /\ Cardinality(SUBSET (1..n)) = 2^n
         /\ 2^n \in Nat
<1>1. IsFiniteSet(1..n) /\ Cardinality(1..n) = n
  BY FS_Interval, n >= 0
<1>2. IsFiniteSet(SUBSET (1..n)) /\ Cardinality(SUBSET (1..n)) = 2^n
  BY <1>1, FS_SUBSET
<1> QED
  BY <1>2, FS_CardinalityType

(* Half of the subsets of 1..n+1 have n + 1.                               *)
LEMMA Doubled ==
  ASSUME NEW n \in Nat
  PROVE  2^(n + 1) = 2 * 2^n
<1> DEFINE S == SUBSET (1..n)
           T == {X \cup {n + 1} : X \in S}
           f == [X \in S |-> X \cup {n + 1}]
<1>1. f \in Bijection(S, T)
  <2>1. f \in [S -> T]
    OBVIOUS
  <2>2. ASSUME NEW X \in S, NEW Y \in S, f[X] = f[Y]
        PROVE  X = Y
    <3>1. X \cup {n + 1} = Y \cup {n + 1}
      BY <2>2
    <3>2. n + 1 \notin X /\ n + 1 \notin Y
      OBVIOUS
    <3> QED
      BY <3>1, <3>2
  <2>3. \A Y \in T : \E X \in S : f[X] = Y
    OBVIOUS
  <2> HIDE DEF S, T, f
  <2> QED
    BY <2>1, <2>2, <2>3 DEF Bijection, Injection, Surjection, IsInjective
<1>2. IsFiniteSet(S) /\ Cardinality(S) = 2^n /\ 2^n \in Nat
  BY Subsets
<1>3. IsFiniteSet(T) /\ Cardinality(T) = 2^n
  <2> HIDE DEF S, T, f
  <2>1. ExistsBijection(S, T)
    BY <1>1 DEF ExistsBijection
  <2> QED
    BY <1>2, <2>1, FS_Bijection
<1>4. S \cap T = {}
  <2>1. \A X \in S : n + 1 \notin X
    OBVIOUS
  <2>2. \A X \in T : n + 1 \in X
    OBVIOUS
  <2> HIDE DEF S, T
  <2> QED
    BY <2>1, <2>2
<1>5. S \cup T = SUBSET (1..(n + 1))
  <2>1. ASSUME NEW X \in SUBSET (1..(n + 1)), n + 1 \notin X
        PROVE  X \in S
    BY <2>1
  <2>2. ASSUME NEW X \in SUBSET (1..(n + 1)), n + 1 \in X
        PROVE  X \in T
    <3>1. X \ {n + 1} \in S /\ X = (X \ {n + 1}) \cup {n + 1}
      BY <2>2
    <3> QED
      BY <3>1
  <2>3. 1..n \subseteq 1..(n + 1) /\ n + 1 \in 1..(n + 1)
    OBVIOUS
  <2>4. S \subseteq SUBSET (1..(n + 1)) /\ T \subseteq SUBSET (1..(n + 1))
    BY <2>3, Zenon
  <2> HIDE DEF S, T
  <2> QED
    BY <2>1, <2>2, <2>4
<1>6. Cardinality({}) = 0
  BY FS_EmptySet
<1>7. Cardinality(S \cup T) = 2^n + 2^n - 0
  <2> HIDE DEF S, T
  <2> QED
    BY <1>2, <1>3, <1>4, <1>6, FS_Union
<1>8. Cardinality(SUBSET (1..(n + 1))) = 2^(n + 1)
  BY Subsets, n + 1 \in Nat
<1>9. 2^(n + 1) = 2^n + 2^n - 0
  <2> HIDE DEF S, T
  <2> QED
    BY <1>5, <1>7, <1>8, Zenon
<1> QED
  BY <1>2, <1>9

(* Powers of two are positive, and each is more than its exponent.         *)
LEMMA Powers ==
  \A n \in Nat : 2^n \in Nat /\ n < 2^n /\ 2^(n + 1) = 2 * 2^n
<1> DEFINE S == {n \in Nat : n < 2^n}
<1>1. \A n \in Nat : 2^n \in Nat /\ 2^(n + 1) = 2 * 2^n
  BY Subsets, Doubled
<1>2. 0 \in S
  BY 2^0 = 1
<1>3. ASSUME NEW n \in S
      PROVE  n + 1 \in S
  <2>1. n \in Nat /\ n < 2^n /\ 2^n \in Nat /\ 2^(n + 1) = 2 * 2^n
    BY <1>1
  <2>2. n + 1 < 2^(n + 1)
    BY <2>1
  <2> QED
    BY <2>1, <2>2
<1>4. S = Nat
  <2>1. S \subseteq Nat
    OBVIOUS
  <2> HIDE DEF S
  <2> QED
    BY <1>2, <1>3, <2>1, AllNumbers
<1> QED
  BY <1>1, <1>4

(* Powers of two multiply as they should.                                  *)
LEMMA PowersMultiply ==
  ASSUME NEW m \in Nat, NEW n \in Nat
  PROVE  2^(m + n) = 2^m * 2^n
<1> DEFINE S == {k \in Nat : 2^(m + k) = 2^m * 2^k}
<1>1. 0 \in S
  <2>1. m + 0 = m /\ 2^0 = 1 /\ 2^m \in Nat
    BY Powers
  <2>2. 2^(m + 0) = 2^m * 2^0
    <3>1. 2^m * 1 = 2^m
      BY <2>1
    <3> QED
      BY <2>1, <3>1, Zenon
  <2> QED
    BY <2>2
<1>2. ASSUME NEW k \in S
      PROVE  k + 1 \in S
  <2>1. k \in Nat /\ 2^(m + k) = 2^m * 2^k
    OBVIOUS
  <2>2. PICK a, b, c : a = 2^m /\ b = 2^k /\ c = 2^(m + k)
    OBVIOUS
  <2>3. a \in Nat /\ b \in Nat /\ c = a * b
    BY <2>1, <2>2, Powers
  <2>4. 2 * c = a * (2 * b)
    BY <2>3
  <2>5. 2^(k + 1) = 2 * b
    BY <2>1, <2>2, Powers, Zenon
  <2>6. 2^((m + k) + 1) = 2 * c
    BY <2>1, <2>2, Powers, m + k \in Nat, Zenon
  <2>7. m + (k + 1) = (m + k) + 1
    BY <2>1
  <2>8. 2^(m + (k + 1)) = 2^m * 2^(k + 1)
    BY <2>2, <2>4, <2>5, <2>6, <2>7, Zenon
  <2> QED
    BY <2>1, <2>8
<1>3. S = Nat
  <2>1. S \subseteq Nat
    OBVIOUS
  <2> HIDE DEF S
  <2> QED
    BY <1>1, <1>2, <2>1, AllNumbers
<1> QED
  BY <1>3

(* They grow with their exponents.                                         *)
LEMMA PowersGrow ==
  ASSUME NEW m \in Nat, NEW n \in Nat, m <= n
  PROVE  2^m <= 2^n
<1>1. PICK k \in Nat : n = m + k
  <2>1. n - m \in Nat /\ n = m + (n - m)
    OBVIOUS
  <2> QED
    BY <2>1, Zenon
<1>2. 2^n = 2^m * 2^k
  BY <1>1, PowersMultiply
<1>3. 2^m \in Nat /\ 2^k \in Nat /\ 1 <= 2^k
  BY Powers
<1>4. ASSUME NEW a \in Nat, NEW b \in Nat, 1 <= b
      PROVE  a <= a * b
  BY <1>4
<1> QED
  BY <1>2, <1>3, <1>4

-----------------------------------------------------------------------------
(* Floats.                                                                 *)

(* Whole numbers below this one are floats.                                *)
Exact == 2^FloatBits

(* That is a number.                                                       *)
LEMMA ExactType == Exact \in Nat
<1>1. FloatBits \in Nat
  BY HelloAssumption
<1> QED
  BY <1>1, Powers DEF Exact

(* That the last of the bits that a float keeps of n has the place 2^k.    *)
LastPlace(n, k) ==
  /\ n < 2^(FloatBits + k)
  /\ k = 0 \/ n >= 2^(FloatBits + k - 1)

(* A number has such a place, and Float chooses it.                        *)
LEMMA PlaceExists ==
  ASSUME NEW n \in Nat
  PROVE  \E k \in 0..n : LastPlace(n, k)
<1> DEFINE S == {k \in 0..n : n < 2^(FloatBits + k)}
<1>1. FloatBits \in Nat
  BY HelloAssumption
<1>2. n \in S
  <2>1. FloatBits + n \in Nat /\ n <= FloatBits + n
    BY <1>1
  <2>2. n < 2^n /\ 2^n <= 2^(FloatBits + n) /\ 2^n \in Nat /\ 2^(FloatBits + n) \in Nat
    BY <2>1, Powers, PowersGrow
  <2> QED
    BY <2>2
<1>3. PICK k \in S : \A j \in S : k <= j
  <2>1. S \subseteq Nat /\ S # {}
    BY <1>2
  <2> HIDE DEF S
  <2> QED
    BY <2>1, LeastNumber
<1>4. ASSUME k # 0
      PROVE  n >= 2^(FloatBits + k - 1)
  <2>1. k - 1 \in 0..n /\ k - 1 \notin S
    BY <1>3, <1>4
  <2>2. ~(n < 2^(FloatBits + (k - 1)))
    BY <2>1
  <2>3. FloatBits + (k - 1) = FloatBits + k - 1 /\ FloatBits + k - 1 \in Nat
    BY <1>1, <1>3, <1>4
  <2> QED
    BY <2>2, <2>3, Powers
<1> QED
  BY <1>3, <1>4 DEF LastPlace

(* The value of Float, by that place.                                      *)
LEMMA FloatValue ==
  ASSUME NEW n \in Nat
  PROVE  \E e \in 0..n, up \in {0, 1} :
           /\ LastPlace(n, e)
           /\ Float(n) = 2^e * ((n \div 2^e) + up)
           /\ e = 0 => up = 0
<1> DEFINE e == CHOOSE k \in 0..n : LastPlace(n, k)
           up == \/ 2 * (n % 2^e) > 2^e
                 \/ 2 * (n % 2^e) = 2^e /\ (n \div 2^e) % 2 = 1
<1>1. e \in 0..n /\ LastPlace(n, e)
  BY PlaceExists
<1>2. Float(n) = 2^e * ((n \div 2^e) + IF up THEN 1 ELSE 0)
  BY DEF Float, LastPlace
<1>3. ASSUME e = 0
      PROVE  ~up
  <2>1. 2^e = 1
    BY <1>3, 2^0 = 1
  <2>2. n % 1 = 0
    OBVIOUS
  <2> HIDE DEF e
  <2> QED
    BY <2>1, <2>2
<1> HIDE DEF e, up
<1>4. PICK u \in {0, 1} : u = IF up THEN 1 ELSE 0
  OBVIOUS
<1>5. e = 0 => u = 0
  BY <1>3, <1>4
<1> QED
  BY <1>1, <1>2, <1>4, <1>5

(* Numbers of few bits are floats.                                         *)
LEMMA FloatExact ==
  ASSUME NEW n \in Nat, n < Exact
  PROVE  Float(n) = n
<1>1. PICK e \in 0..n, up \in {0, 1} :
           /\ LastPlace(n, e)
           /\ Float(n) = 2^e * ((n \div 2^e) + up)
           /\ e = 0 => up = 0
  BY FloatValue
<1>2. e = 0
  <2>1. SUFFICES ASSUME e # 0
                 PROVE  FALSE
    OBVIOUS
  <2>2. FloatBits \in Nat /\ FloatBits + e - 1 \in Nat /\ FloatBits <= FloatBits + e - 1
    BY <2>1, HelloAssumption
  <2>3. 2^FloatBits <= 2^(FloatBits + e - 1)
    BY <2>2, PowersGrow
  <2>4. n >= 2^(FloatBits + e - 1)
    BY <1>1, <2>1 DEF LastPlace
  <2>5. 2^FloatBits \in Nat /\ 2^(FloatBits + e - 1) \in Nat
    BY <2>2, Powers
  <2> QED
    BY <2>3, <2>4, <2>5 DEF Exact
<1>3. Float(n) = 1 * ((n \div 1) + 0)
  BY <1>1, <1>2, 2^0 = 1, Zenon
<1>4. n \div 1 = n
  OBVIOUS
<1> QED
  BY <1>3, <1>4

(* A number with a bit more is rounded to one that has a bit more too.     *)
LEMMA FloatLarge ==
  ASSUME NEW n \in Nat, n >= Exact
  PROVE  Float(n) \in Nat /\ Float(n) >= Exact
<1>1. PICK e \in 0..n, up \in {0, 1} :
           /\ LastPlace(n, e)
           /\ Float(n) = 2^e * ((n \div 2^e) + up)
           /\ e = 0 => up = 0
  BY FloatValue
<1>2. FloatBits \in Nat \ {0}
  BY HelloAssumption
<1>3. e # 0
  <2>1. SUFFICES ASSUME e = 0
                 PROVE  FALSE
    OBVIOUS
  <2>2. n < 2^FloatBits
    BY <1>1, <1>2, <2>1, FloatBits + 0 = FloatBits DEF LastPlace
  <2> QED
    BY <2>2, ExactType DEF Exact
<1>4. PICK half, unit : half = 2^(FloatBits - 1) /\ unit = 2^e
  OBVIOUS
<1>5. half \in Nat /\ unit \in Nat /\ unit > 0
  BY <1>2, <1>4, Powers
<1>6. FloatBits + e - 1 = (FloatBits - 1) + e /\ FloatBits <= FloatBits + e - 1
  BY <1>2, <1>3
<1>7. 2^(FloatBits + e - 1) = half * unit
  BY <1>2, <1>4, <1>6, PowersMultiply
<1>8. Exact <= half * unit
  BY <1>2, <1>3, <1>6, <1>7, PowersGrow DEF Exact
<1>9. n >= half * unit
  BY <1>1, <1>3, <1>7 DEF LastPlace
<1>10. PICK below : below = n \div unit
  OBVIOUS
<1>11. below \in Nat /\ below >= half
  BY <1>5, <1>9, <1>10
<1>12. unit * (below + up) \in Nat /\ unit * (below + up) >= half * unit
  BY <1>5, <1>11
<1> QED
  BY <1>1, <1>4, <1>5, <1>8, <1>10, <1>12, ExactType

(* That tick is t as sums of floats have it: exact while it has few bits,  *)
(* and after that some tick with more.                                     *)
Matches(tick, t) ==
  IF t < Exact THEN tick = t ELSE tick >= Exact

(* The sum of a tick and a wait, as fillBuffer computes it.                *)
LEMMA FloatSum ==
  ASSUME NEW c \in Nat, NEW w \in Nat,
         NEW t, t = Float(Float(c) + Float(w))
  PROVE  /\ t \in Nat
         /\ Matches(t, c + w)
         /\ t < c => c >= Exact
<1>1. Exact \in Nat
  BY ExactType
<1>2. PICK fc, fw : fc = Float(c) /\ fw = Float(w)
  OBVIOUS
<1>3. /\ fc \in Nat /\ (c < Exact => fc = c) /\ (c >= Exact => fc >= Exact)
      /\ fw \in Nat /\ (w < Exact => fw = w) /\ (w >= Exact => fw >= Exact)
  BY <1>1, <1>2, FloatExact, FloatLarge
<1>4. PICK s \in Nat : s = fc + fw
  BY <1>3
<1>5. t \in Nat /\ (s < Exact => t = s) /\ (s >= Exact => t >= Exact)
  BY <1>1, <1>2, <1>4, FloatExact, FloatLarge
<1>6. CASE c + w < Exact
  <2>1. c < Exact /\ w < Exact
    BY <1>1, <1>6
  <2>2. t = c + w
    BY <1>1, <1>3, <1>4, <1>5, <1>6, <2>1
  <2> QED
    BY <1>5, <1>6, <2>2 DEF Matches
<1>7. CASE ~(c + w < Exact)
  <2>1. s >= Exact
    BY <1>1, <1>3, <1>4, <1>7
  <2>2. t >= Exact
    BY <1>1, <1>4, <1>5, <2>1
  <2> QED
    BY <1>1, <1>5, <1>7, <2>2 DEF Matches
<1> QED
  BY <1>6, <1>7

(* A tick that matches more than t does is no less.                        *)
LEMMA MatchesGrow ==
  ASSUME NEW t \in Nat, NEW w \in Nat, NEW c \in Nat, NEW tick,
         Matches(c, t), Matches(tick, c + w)
  PROVE  Matches(tick, t + w)
<1>1. Exact \in Nat
  BY ExactType
<1>2. CASE t < Exact
  BY <1>2 DEF Matches
<1>3. CASE ~(t < Exact)
  <2>1. c >= Exact /\ ~(c + w < Exact) /\ ~(t + w < Exact)
    BY <1>1, <1>3 DEF Matches
  <2> QED
    BY <2>1 DEF Matches
<1> QED
  BY <1>2, <1>3

-----------------------------------------------------------------------------
(* The message in the buffer.                                              *)

(* The first n bytes of h's message over and over.                         *)
Repeated(h, n) ==
  [k \in 1..n |-> Text(h)[((k - 1) % MessageLength) + 1]]

(* A number of whole messages and j bytes has j left over.                 *)
LEMMA Remainders ==
  ASSUME NEW m \in Nat \ {0}, NEW n \in Nat, n % m = 0, NEW j \in Nat, j <= m
  PROVE  /\ j < m => (n + j) % m = j
         /\ (n + m) % m = 0
<1>1. PICK q : q = n \div m
  OBVIOUS
<1>2. q \in Nat /\ n = m * q
  BY <1>1
<1>3. ASSUME j < m
      PROVE  (n + j) % m = j
  <2>1. PICK d, r : d = (n + j) \div m /\ r = (n + j) % m
    OBVIOUS
  <2>2. d \in Int /\ r \in 0..(m - 1) /\ m * q + j = m * d + r
    BY <1>2, <2>1
  <2>3. d = q
    <3>1. ASSUME d > q
          PROVE  FALSE
      <4>1. m * d >= m * q + m
        BY <1>2, <2>2, <3>1
      <4> QED
        BY <1>2, <1>3, <2>2, <4>1
    <3>2. ASSUME d < q
          PROVE  FALSE
      <4>1. m * q >= m * d + m
        BY <1>2, <2>2, <3>2
      <4> QED
        BY <1>2, <1>3, <2>2, <4>1
    <3> QED
      BY <1>2, <2>2, <3>1, <3>2
  <2> QED
    BY <1>2, <2>1, <2>2, <2>3
<1>4. (n + m) % m = 0
  BY <1>2
<1> QED
  BY <1>3, <1>4

(* As bytes in a row they are a sequence of that length.                   *)
LEMMA RepeatedLength ==
  ASSUME NEW h, NEW n \in Nat
  PROVE  Len(Repeated(h, n)) = n
  BY DEF Repeated

(* fillBuffer adds the message, or its first m bytes, to whole messages.   *)
LEMMA RepeatedGrows ==
  ASSUME NEW h, NEW n \in Nat, n % MessageLength = 0,
         NEW m \in Nat, m <= MessageLength
  PROVE  Repeated(h, n) \o SubSeq(Text(h), 1, m) = Repeated(h, n + m)
<1>1. MessageLength \in Nat \ {0}
  BY HelloAssumption
<1>2. PICK bytes : bytes = {<<h, k>> : k \in 1..MessageLength}
  OBVIOUS
<1>3. \A k \in 1..n : ((k - 1) % MessageLength) + 1 \in 1..MessageLength
  BY <1>1
<1>4. PICK f : f = [k \in 1..n |-> <<h, ((k - 1) % MessageLength) + 1>>]
  OBVIOUS
<1>5. Repeated(h, n) = f
  BY <1>1, <1>3, <1>4 DEF Repeated, Text
<1>6. /\ f \in Seq(bytes) /\ Len(f) = n
      /\ \A k \in 1..n : f[k] = <<h, ((k - 1) % MessageLength) + 1>>
  BY <1>2, <1>3, <1>4
<1>7. PICK part : part = SubSeq(Text(h), 1, m)
  OBVIOUS
<1>8. /\ part \in Seq(bytes) /\ Len(part) = m
      /\ \A k \in 1..m : part[k] = <<h, k>>
  <2>1. Text(h) \in Seq(bytes) /\ Len(Text(h)) = MessageLength
    BY <1>1, <1>2 DEF Text
  <2>2. \A k \in 1..MessageLength : Text(h)[k] = <<h, k>>
    BY DEF Text
  <2> QED
    BY <1>1, <1>7, <2>1, <2>2
<1>9. PICK r : r = f \o part
  OBVIOUS
<1>10. /\ r \in Seq(bytes) /\ Len(r) = n + m
       /\ \A k \in 1..n : r[k] = f[k]
       /\ \A k \in (n + 1)..(n + m) : r[k] = part[k - n]
  <2>1. /\ r \in Seq(bytes) /\ Len(r) = n + m
        /\ \A k \in 1..(n + m) : r[k] = IF k <= n THEN f[k] ELSE part[k - n]
    <3>1. /\ f \o part \in Seq(bytes)
          /\ Len(f \o part) = Len(f) + Len(part)
          /\ \A k \in 1..(Len(f) + Len(part)) :
               (f \o part)[k] = IF k <= Len(f) THEN f[k] ELSE part[k - Len(f)]
      BY <1>6, <1>8, ConcatProperties, Zenon
    <3> QED
      BY <1>6, <1>8, <1>9, <3>1, Zenon
  <2> QED
    BY <2>1
<1>11. ASSUME NEW k \in 1..(n + m)
       PROVE  r[k] = <<h, ((k - 1) % MessageLength) + 1>>
  <2>1. CASE k <= n
    BY <1>6, <1>10, <2>1
  <2>2. CASE k > n
    <3>1. k - n \in 1..m /\ r[k] = <<h, k - n>>
      BY <1>8, <1>10, <2>2
    <3>2. k - n - 1 \in Nat /\ k - n - 1 < MessageLength /\ n + (k - n - 1) = k - 1
      BY <1>1, <3>1
    <3>3. (n + (k - n - 1)) % MessageLength = k - n - 1
      BY <1>1, <3>2, Remainders
    <3>4. ((k - 1) % MessageLength) + 1 = k - n
      BY <3>1, <3>2, <3>3
    <3> QED
      BY <3>1, <3>4
  <2> QED
    BY <2>1, <2>2
<1>12. PICK t : t = [k \in 1..(n + m) |-> <<h, ((k - 1) % MessageLength) + 1>>]
  OBVIOUS
<1>13. \A k \in 1..(n + m) : ((k - 1) % MessageLength) + 1 \in 1..MessageLength
  BY <1>1
<1>14. /\ t \in Seq(bytes) /\ Len(t) = n + m
       /\ \A k \in 1..(n + m) : t[k] = r[k]
  BY <1>2, <1>11, <1>12, <1>13
<1>15. Repeated(h, n + m) = t
  BY <1>1, <1>12, <1>13 DEF Repeated, Text
<1>16. r = t
  BY <1>10, <1>14, SeqEqual
<1> QED
  BY <1>5, <1>7, <1>9, <1>15, <1>16

-----------------------------------------------------------------------------
(* The invariant.                                                          *)

(* A byte of a message: whose, and its place.                              *)
Bytes == (Hellos \cup {Nobody}) \X (1..MessageLength)

(* What a GoodbyeObject's buffer has room for: the last byte is kept.      *)
Capacity(g) == AtLeast(params.buffer_size[g] - 1, 0)

(* Types.                                                                  *)
HelloTypes ==
  /\ params \in Parameters
  /\ curTick \in Nat
  /\ events \subseteq [obj : Objects, tick : Nat]
  /\ exits \subseteq [tick : Nat, cause : Seq(Bytes)]
  /\ timesLeft \in [Hellos -> Int]
  /\ message \in [Goodbyes -> Hellos \cup {Nobody}]
  /\ buffer \in [Goodbyes -> Seq(Bytes)]
  /\ status \in {"running", "ended", "panic"}

(* No buffer has more than it has room for, and there is a message when a  *)
(* GoodbyeObject is to go on: `There better be a message'.                 *)
BuffersKept ==
  /\ \A g \in Goodbyes : bufferUsed(g) <= Capacity(g)
  /\ \A e \in events : e.obj \in Goodbyes => message[e.obj] \in Hellos

(* No event or exit is for a tick that has passed.                         *)
NothingPassed ==
  status = "running" => \A tick \in Pending : curTick <= tick

(* How often h has fired, how often it is to, and when it says goodbye.    *)
Fired(h) == params.number_of_fires[h] - timesLeft[h]
Total(h) == AtLeast(params.number_of_fires[h], 1)
GoodbyeTick(h) == params.time_to_wait[h] * Total(h)

(* A HelloObject's event is scheduled until it has fired as often as it is *)
(* to, always a whole number of waits after the start.                     *)
FiringOnTime(h) ==
  /\ 0 <= Fired(h) /\ Fired(h) <= Total(h)
  /\ Fired(h) < Total(h) => Scheduled(h)
  /\ Fired(h) = Total(h) => curTick >= GoodbyeTick(h)
  /\ \A e \in events : e.obj = h =>
       /\ Fired(h) < Total(h)
       /\ e.tick = params.time_to_wait[h] * (Fired(h) + 1)

(* This holds of every HelloObject, whoever shares what.                   *)
AllFiringOnTime == \A h \in Hellos : FiringOnTime(h)

(* Those that have somebody to say goodbye to, and to whom.                *)
Polite == {h \in Hellos : params.goodbye_object[h] # NoGoodbye}
GoodbyeOf(h) == params.goodbye_object[h]

(* A GoodbyeObject has an event only if some HelloObject names it.         *)
OnlyNamed ==
  \A e \in events : e.obj \in Goodbyes => \E h \in Polite : GoodbyeOf(h) = e.obj

(* Where a HelloObject and the GoodbyeObject that is its own stand: it has *)
(* not said goodbye yet; or some whole messages are written, and the next  *)
(* is due when they are; or the exit is.                                   *)
Talking(h) ==
  /\ Fired(h) < Total(h)
  /\ ~Scheduled(GoodbyeOf(h))
  /\ buffer[GoodbyeOf(h)] = <<>>

(* When `used' bytes of h's goodbye are written, without rounding.         *)
WrittenAt(h, used) == GoodbyeTick(h) + params.write_bandwidth[GoodbyeOf(h)] * used

(* Whole messages are written, not all; the next event is when they are.   *)
Writing(h) ==
  LET g == GoodbyeOf(h)
      used == bufferUsed(g)
  IN  /\ Fired(h) = Total(h)
      /\ Scheduled(g) /\ message[g] = h
      /\ used < Capacity(g) /\ used % MessageLength = 0
      /\ buffer[g] = Repeated(h, used)
      /\ \A e \in events : e.obj = g => Matches(e.tick, WrittenAt(h, used))

(* x is the exit at the end of h's goodbye.                                *)
ExitOf(x, h) ==
  x.cause = Repeated(h, Written(h)) /\ Matches(x.tick, ExitTick(h))

(* The goodbye is written and its exit in the queue.                       *)
Said(h) ==
  /\ Fired(h) = Total(h)
  /\ ~Scheduled(GoodbyeOf(h))
  /\ \E x \in exits : ExitOf(x, h)

(* One of the three.                                                       *)
Stage(h) == Talking(h) \/ Writing(h) \/ Said(h)

(* Unless a GoodbyeObject is shared, each is in a stage, and each exit is  *)
(* of somebody's goodbye.                                                  *)
StagesKept ==
  ~Shared /\ status = "running" =>
    /\ \A h \in Polite : Stage(h)
    /\ \A x \in exits : \E h \in Polite : ExitOf(x, h)

(* What holds while events are processed.                                  *)
HelloInv ==
  /\ HelloTypes /\ BuffersKept /\ NothingPassed
  /\ AllFiringOnTime /\ OnlyNamed /\ StagesKept

-----------------------------------------------------------------------------
(* Parameters.                                                             *)

(* What the parameters of the objects may be, and what they come to.       *)
LEMMA HelloParameters ==
  ASSUME params \in Parameters, NEW h \in Hellos
  PROVE  /\ params.time_to_wait[h] \in Nat
         /\ params.number_of_fires[h] \in Int
         /\ Total(h) \in Nat /\ Total(h) > 0 /\ Total(h) >= params.number_of_fires[h]
         /\ GoodbyeTick(h) \in Nat
         /\ GoodbyeOf(h) \in Goodbyes \cup {NoGoodbye}
<1>1. /\ params.time_to_wait \in [Hellos -> Latencies]
      /\ params.number_of_fires \in [Hellos -> Fires]
      /\ params.goodbye_object \in [Hellos -> Goodbyes \cup {NoGoodbye}]
  BY DEF Parameters
<1>2. /\ params.time_to_wait[h] \in Nat
      /\ params.number_of_fires[h] \in Int
      /\ GoodbyeOf(h) \in Goodbyes \cup {NoGoodbye}
  BY <1>1, HelloAssumption DEF GoodbyeOf
<1>3. Total(h) \in Nat /\ Total(h) > 0 /\ Total(h) >= params.number_of_fires[h]
  BY <1>2 DEF Total, AtLeast
<1> QED
  BY <1>2, <1>3 DEF GoodbyeTick

(* The same of a GoodbyeObject.                                            *)
LEMMA GoodbyeParameters ==
  ASSUME params \in Parameters, NEW g \in Goodbyes
  PROVE  /\ params.buffer_size[g] \in Nat
         /\ params.write_bandwidth[g] \in Nat
         /\ Capacity(g) \in Nat
         /\ Capacity(g) = 0 \/ Capacity(g) = params.buffer_size[g] - 1
         /\ Capacity(g) >= params.buffer_size[g] - 1
<1>1. /\ params.buffer_size \in [Goodbyes -> BufferSizes]
      /\ params.write_bandwidth \in [Goodbyes -> Bandwidths]
  BY DEF Parameters
<1>2. params.buffer_size[g] \in Nat /\ params.write_bandwidth[g] \in Nat
  BY <1>1, HelloAssumption
<1> QED
  BY <1>2 DEF Capacity, AtLeast

(* They stay as they are, and so does what is computed from them.          *)
LEMMA ParametersStay ==
  ASSUME params' = params
  PROVE  /\ \A h : /\ Total(h)' = Total(h) /\ GoodbyeTick(h)' = GoodbyeTick(h)
                   /\ GoodbyeOf(h)' = GoodbyeOf(h)
                   /\ ExitTick(h)' = ExitTick(h) /\ Written(h)' = Written(h)
         /\ \A g : Capacity(g)' = Capacity(g)
         /\ \A x, h : ExitOf(x, h)' <=> ExitOf(x, h)
         /\ Polite' = Polite
         /\ Shared' <=> Shared
<1>1. /\ \A h : /\ Total(h)' = Total(h) /\ GoodbyeTick(h)' = GoodbyeTick(h)
                /\ GoodbyeOf(h)' = GoodbyeOf(h)
                /\ ExitTick(h)' = ExitTick(h) /\ Written(h)' = Written(h)
      /\ \A g : Capacity(g)' = Capacity(g)
  BY DEF Total, GoodbyeTick, GoodbyeOf, ExitTick, Written, Capacity
<1>2. Polite' = Polite /\ (Shared' <=> Shared)
  BY DEF Polite, Shared
<1>3. \A x, h : ExitOf(x, h)' <=> ExitOf(x, h)
  BY <1>1 DEF ExitOf
<1> QED
  BY <1>1, <1>2, <1>3

(* ExitTick and Written in the words of the invariant.                     *)
LEMMA ExitAt ==
  ASSUME params \in Parameters, NEW h \in Polite
  PROVE  /\ h \in Hellos /\ GoodbyeOf(h) \in Goodbyes
         /\ Written(h) = Capacity(GoodbyeOf(h))
         /\ Written(h) \in Nat
         /\ ExitTick(h) = WrittenAt(h, Written(h))
         /\ ExitTick(h) \in Nat
         /\ \A n \in Nat : n <= Written(h) =>
              WrittenAt(h, n) \in Nat /\ WrittenAt(h, n) <= ExitTick(h)
         /\ GoodbyeTick(h) <= ExitTick(h)
<1>1. h \in Hellos /\ GoodbyeOf(h) \in Goodbyes
  BY HelloParameters DEF Polite, GoodbyeOf
<1>2. Written(h) = Capacity(GoodbyeOf(h)) /\ ExitTick(h) = WrittenAt(h, Written(h))
  BY DEF Written, Capacity, GoodbyeOf, ExitTick, WrittenAt, GoodbyeTick, Total
<1>3. PICK t, bw, n : t = GoodbyeTick(h) /\ n = Written(h)
                        /\ bw = params.write_bandwidth[GoodbyeOf(h)]
  OBVIOUS
<1>4. t \in Nat /\ bw \in Nat /\ n \in Nat
  BY <1>1, <1>2, <1>3, HelloParameters, GoodbyeParameters
<1>5. \A m : WrittenAt(h, m) = t + bw * m
  BY <1>3 DEF WrittenAt
<1>6. \A m \in Nat : m <= n => t + bw * m \in Nat /\ t + bw * m <= t + bw * n /\ t <= t + bw * n
  BY <1>4
<1>7. t <= t + bw * n /\ t + bw * n \in Nat
  BY <1>4
<1> QED
  BY <1>1, <1>2, <1>3, <1>4, <1>5, <1>6, <1>7

-----------------------------------------------------------------------------
(* fillBuffer.                                                             *)

(* How many bytes it copies: the whole message if there is room for more.  *)
LEMMA BytesCopied ==
  ASSUME HelloTypes, BuffersKept, NEW g \in Goodbyes
  PROVE  /\ bytes_copied(g) \in Nat /\ bytes_copied(g) <= MessageLength
         /\ bufferUsed(g) \in Nat
         /\ bufferUsed(g) + bytes_copied(g) <= Capacity(g)
         /\ bufferUsed(g) + bytes_copied(g) < params.buffer_size[g] - 1 =>
              bytes_copied(g) = MessageLength
         /\ ~(bufferUsed(g) + bytes_copied(g) < params.buffer_size[g] - 1) =>
              bufferUsed(g) + bytes_copied(g) = Capacity(g)
<1>1. MessageLength \in Nat \ {0}
  BY HelloAssumption
<1>2. bufferUsed(g) \in Nat
  <2>1. buffer[g] \in Seq(Bytes)
    BY DEF HelloTypes
  <2> QED
    BY <2>1 DEF bufferUsed
<1>3. PICK size, used, room : /\ size = params.buffer_size[g]
                              /\ used = bufferUsed(g) /\ room = Capacity(g)
  OBVIOUS
<1>4. /\ size \in Nat /\ room \in Nat /\ room >= size - 1
      /\ room = 0 \/ room = size - 1
  BY <1>3, GoodbyeParameters DEF HelloTypes
<1>5. used \in Nat /\ used <= room
  BY <1>2, <1>3 DEF BuffersKept
<1>6. PICK n : n = bytes_copied(g)
  OBVIOUS
<1>7. n = IF size - 1 - used <= 0 THEN 0
          ELSE IF size - 1 - used < MessageLength THEN size - 1 - used
               ELSE MessageLength
  BY <1>3, <1>6 DEF bytes_copied, Free
<1> QED
  BY <1>1, <1>3, <1>4, <1>5, <1>6, <1>7

(* The buffer with n bytes of h's message added.                           *)
LEMMA Filled ==
  ASSUME NEW s \in Seq(Bytes), NEW h \in Hellos \cup {Nobody},
         NEW n \in Nat, n <= MessageLength
  PROVE  /\ s \o SubSeq(Text(h), 1, n) \in Seq(Bytes)
         /\ Len(s \o SubSeq(Text(h), 1, n)) = Len(s) + n
<1>1. MessageLength \in Nat \ {0}
  BY HelloAssumption
<1>2. PICK t : t = Text(h)
  OBVIOUS
<1>3. t \in Seq(Bytes) /\ Len(t) = MessageLength
  BY <1>1, <1>2 DEF Text, Bytes
<1>4. SubSeq(t, 1, n) \in Seq(Bytes) /\ Len(SubSeq(t, 1, n)) = n
  BY <1>1, <1>3
<1>5. PICK p : p = SubSeq(t, 1, n)
  OBVIOUS
<1>6. s \o p \in Seq(Bytes) /\ Len(s \o p) = Len(s) + Len(p)
  BY <1>4, <1>5, ConcatProperties, Zenon
<1> QED
  BY <1>2, <1>4, <1>5, <1>6, Zenon

(* What it does to the queue and the exits: it panics, or there is another *)
(* event, or the exit.                                                     *)
LEMMA FillBuffer ==
  ASSUME HelloTypes, BuffersKept, curTick' \in Nat,
         NEW g \in Goodbyes, NEW h \in Hellos \cup {Nobody}, NEW queue,
         fillBuffer(g, h, queue)
  PROVE  \E when \in Nat :
           /\ Matches(when, curTick' + params.write_bandwidth[g] * bytes_copied(g))
           /\ \/ /\ status' = "panic"
                 /\ events' = queue /\ exits' = exits
                 /\ curTick' >= Exact \/ \E e \in queue : e.obj = g
              \/ /\ status' = status /\ when >= curTick'
                 /\ events' = queue \cup {[obj |-> g, tick |-> when]}
                 /\ exits' = exits
                 /\ bytes_copied(g) = MessageLength
                 /\ bufferUsed(g) + bytes_copied(g) < Capacity(g)
              \/ /\ status' = status /\ when >= curTick'
                 /\ events' = queue
                 /\ exits' = exits \cup {[tick |-> when, cause |-> buffer'[g]]}
                 /\ bufferUsed(g) + bytes_copied(g) = Capacity(g)
<1>1. PICK n, when, filled :
         /\ n = bytes_copied(g) /\ when = CopiedAt(g)
         /\ filled = buffer[g] \o SubSeq(Text(h), 1, n)
  OBVIOUS
<1>2. n \in Nat /\ params.write_bandwidth[g] \in Nat
  BY <1>1, BytesCopied, GoodbyeParameters DEF HelloTypes
<1>3. PICK w : w = params.write_bandwidth[g] * n
  OBVIOUS
<1>4. w \in Nat
  BY <1>2, <1>3
<1>5. when = Float(Float(curTick') + Float(w))
  BY <1>1, <1>3 DEF CopiedAt
<1>6. when \in Nat /\ Matches(when, curTick' + w) /\ (when < curTick' => curTick' >= Exact)
  BY <1>4, <1>5, FloatSum
<1>7. /\ buffer[g] \in Seq(Bytes) /\ n <= MessageLength
      /\ bufferUsed(g) = Len(buffer[g]) /\ g \in DOMAIN buffer
  BY <1>1, BytesCopied DEF HelloTypes, bufferUsed
<1>8. filled \in Seq(Bytes) /\ Len(filled) = bufferUsed(g) + n
  BY <1>1, <1>2, <1>7, Filled, Zenon
<1>9. PICK more, panics :
         /\ more \in BOOLEAN /\ panics \in BOOLEAN
         /\ more <=> Len(filled) < params.buffer_size[g] - 1
         /\ panics <=> when < curTick' \/ (more /\ \E e \in queue : e.obj = g)
  <2> DEFINE more == Len(filled) < params.buffer_size[g] - 1
             panics == when < curTick' \/ (more /\ \E e \in queue : e.obj = g)
  <2>1. more \in BOOLEAN /\ panics \in BOOLEAN
    OBVIOUS
  <2> QED
    BY <2>1, Zenon
<1>10. /\ buffer' = [buffer EXCEPT ![g] = filled]
       /\ events' = queue \cup {e \in {[obj |-> g, tick |-> when]} : more /\ ~panics}
       /\ exits' = exits \cup
                     {x \in {[tick |-> when, cause |-> filled]} : ~more /\ ~panics}
       /\ status' = IF panics THEN "panic" ELSE status
  BY <1>1, <1>9, Zenon DEF fillBuffer
<1>11. buffer'[g] = filled
  BY <1>7, <1>10, Zenon
<1>12. /\ more => n = MessageLength /\ bufferUsed(g) + n < Capacity(g)
       /\ ~more => bufferUsed(g) + n = Capacity(g)
  <2>1. bufferUsed(g) + n < params.buffer_size[g] - 1 => bufferUsed(g) + n < Capacity(g)
    BY <1>1, <1>2, BytesCopied, GoodbyeParameters DEF HelloTypes
  <2> QED
    BY <1>1, <1>8, <1>9, <2>1, BytesCopied
<1>13. CASE panics
  <2>1. /\ status' = "panic" /\ events' = queue /\ exits' = exits
    BY <1>10, <1>13
  <2>2. curTick' >= Exact \/ \E e \in queue : e.obj = g
    BY <1>6, <1>9, <1>13
  <2> QED
    BY <1>1, <1>3, <1>6, <2>1, <2>2, Zenon
<1>14. CASE ~panics /\ more
  <2>1. /\ status' = status /\ exits' = exits
        /\ events' = queue \cup {[obj |-> g, tick |-> when]}
    BY <1>10, <1>14
  <2>2. when >= curTick'
    BY <1>6, <1>9, <1>14
  <2> QED
    BY <1>1, <1>3, <1>6, <1>12, <1>14, <2>1, <2>2, Zenon
<1>15. CASE ~panics /\ ~more
  <2>1. /\ status' = status /\ events' = queue
        /\ exits' = exits \cup {[tick |-> when, cause |-> filled]}
    BY <1>10, <1>15
  <2>2. when >= curTick'
    BY <1>6, <1>9, <1>15
  <2> QED
    BY <1>1, <1>3, <1>6, <1>11, <1>12, <1>15, <2>1, <2>2, Zenon
<1> QED
  BY <1>9, <1>13, <1>14, <1>15, Zenon

(* It keeps the types, room in the buffer and the events' ticks.           *)
LEMMA FillKeepsTypes ==
  ASSUME HelloTypes, BuffersKept, status = "running",
         params' = params, curTick' \in Nat, timesLeft' \in [Hellos -> Int],
         NEW g \in Goodbyes, NEW h \in Hellos, NEW queue, queue \subseteq events,
         fillBuffer(g, h, queue)
  PROVE  HelloTypes' /\ BuffersKept'
<1>1. PICK n : n = bytes_copied(g)
  OBVIOUS
<1>2. n \in Nat /\ n <= MessageLength
  BY <1>1, BytesCopied
<1>3. PICK filled : filled = buffer[g] \o SubSeq(Text(h), 1, n)
  OBVIOUS
<1>4. buffer \in [Goodbyes -> Seq(Bytes)] /\ message \in [Goodbyes -> Hellos \cup {Nobody}]
  BY DEF HelloTypes
<1>5. filled \in Seq(Bytes) /\ Len(filled) = bufferUsed(g) + n
  BY <1>2, <1>3, <1>4, Filled, Zenon DEF bufferUsed
<1>6. buffer' = [buffer EXCEPT ![g] = filled] /\ message' = [message EXCEPT ![g] = h]
  BY <1>1, <1>3, Zenon DEF fillBuffer
<1>7. buffer' \in [Goodbyes -> Seq(Bytes)] /\ buffer'[g] = filled
  BY <1>4, <1>5, <1>6
<1>8. message' \in [Goodbyes -> Hellos \cup {Nobody}] /\ message'[g] = h
  BY <1>4, <1>6
<1>9. PICK when \in Nat :
        /\ events' \subseteq events \cup {[obj |-> g, tick |-> when]}
        /\ exits' \subseteq exits \cup {[tick |-> when, cause |-> buffer'[g]]}
        /\ status' \in {"running", "panic"}
  BY FillBuffer
<1>10. events' \subseteq [obj : Objects, tick : Nat]
  BY <1>9 DEF HelloTypes, Objects
<1>11. exits' \subseteq [tick : Nat, cause : Seq(Bytes)]
  BY <1>5, <1>7, <1>9 DEF HelloTypes
<1>12. HelloTypes'
  BY <1>7, <1>8, <1>9, <1>10, <1>11 DEF HelloTypes
<1>13. ASSUME NEW k \in Goodbyes
       PROVE  bufferUsed(k)' <= Capacity(k)'
  <2>1. Capacity(k)' = Capacity(k)
    BY ParametersStay
  <2>2. CASE k = g
    BY <1>1, <1>5, <1>7, <2>1, <2>2, BytesCopied DEF bufferUsed
  <2>3. CASE k # g
    <3>1. bufferUsed(k)' = bufferUsed(k)
      BY <1>4, <1>6, <2>3 DEF bufferUsed
    <3> QED
      BY <2>1, <3>1 DEF BuffersKept
  <2> QED
    BY <2>2, <2>3
<1>14. ASSUME NEW e \in events', e.obj \in Goodbyes
       PROVE  message'[e.obj] \in Hellos
  <2>1. CASE e.obj = g
    BY <1>8, <2>1
  <2>2. CASE e.obj # g
    <3>1. e \in events
      BY <1>9, <2>2
    <3>2. message'[e.obj] = message[e.obj]
      BY <1>4, <1>6, <1>14, <2>2
    <3> QED
      BY <1>14, <3>1, <3>2 DEF BuffersKept
  <2> QED
    BY <2>1, <2>2
<1> QED
  BY <1>12, <1>13, <1>14 DEF BuffersKept

(* An event of o at the head of the queue.                                 *)
LEMMA NextEvent ==
  ASSUME HelloInv, NEW o, Fire(o)
  PROVE  /\ status = "running" /\ params' = params
         /\ curTick' \in Nat /\ curTick <= curTick'
         /\ \A t \in Pending : curTick' <= t
         /\ \E e \in events : e.obj = o /\ e.tick = curTick'
<1>1. PICK e \in events : e.obj = o /\ IsNext(e.tick) /\ curTick' = e.tick
  BY DEF Fire
<1>2. status = "running" /\ params' = params
  BY DEF Fire
<1>3. e.tick \in Nat /\ e.tick \in Pending
  BY DEF HelloInv, HelloTypes, Pending
<1>4. curTick <= e.tick
  BY <1>2, <1>3 DEF HelloInv, NothingPassed
<1> QED
  BY <1>1, <1>2, <1>3, <1>4 DEF IsNext

(* What was pending still has time, and what is new too.                   *)
LEMMA FillPassesNothing ==
  ASSUME HelloTypes, BuffersKept, curTick' \in Nat,
         \A t \in Pending : curTick' <= t,
         NEW g \in Goodbyes, NEW h \in Hellos, NEW queue, queue \subseteq events,
         fillBuffer(g, h, queue)
  PROVE  NothingPassed'
<1>1. PICK when \in Nat :
        /\ events' \subseteq events \cup {[obj |-> g, tick |-> when]}
        /\ exits' \subseteq exits \cup {[tick |-> when, cause |-> buffer'[g]]}
        /\ status' = "panic" \/ when >= curTick'
  BY FillBuffer
<1>2. SUFFICES ASSUME status' # "panic", NEW t \in Pending'
               PROVE  curTick' <= t
  BY DEF NothingPassed
<1>3. t \in Pending \/ t = when
  BY <1>1 DEF Pending
<1>4. CASE t \in Pending
  BY <1>4
<1>5. CASE t = when
  BY <1>1, <1>2, <1>5
<1> QED
  BY <1>3, <1>4, <1>5

-----------------------------------------------------------------------------
(* What a step does to the objects that it is not about.                   *)

(* What is scheduled of o.                                                 *)
EventsOf(o) == {e \in events : e.obj = o}

(* The events of the others stay, one of its own may come.                 *)
LEMMA EventsStay ==
  ASSUME NEW o, NEW new, NEW k, k # o, \A e \in new : e.obj = o,
         events' = Without(o) \cup new
  PROVE  EventsOf(k)' = EventsOf(k)
  BY DEF EventsOf, Without

(* A HelloObject whose count and event stay.                               *)
LEMMA FiringStays ==
  ASSUME HelloTypes, curTick' \in Nat, curTick <= curTick', params' = params,
         NEW h \in Hellos, FiringOnTime(h),
         timesLeft'[h] = timesLeft[h], EventsOf(h)' = EventsOf(h)
  PROVE  FiringOnTime(h)'
<1>1. /\ Fired(h)' = Fired(h) /\ Total(h)' = Total(h)
      /\ GoodbyeTick(h)' = GoodbyeTick(h)
  BY ParametersStay DEF Fired
<1>2. Scheduled(h)' <=> Scheduled(h)
  BY DEF Scheduled, EventsOf
<1>3. \A e \in events' : e.obj = h => e \in events
  BY DEF EventsOf
<1>4. GoodbyeTick(h) \in Nat /\ curTick \in Nat
  BY HelloParameters DEF HelloTypes
<1>5. Fired(h)' = Total(h)' => curTick' >= GoodbyeTick(h)'
  BY <1>1, <1>4 DEF FiringOnTime
<1>6. \A e \in events' : e.obj = h =>
        /\ Fired(h)' < Total(h)'
        /\ e.tick = params'.time_to_wait[h] * (Fired(h)' + 1)
  BY <1>1, <1>3 DEF FiringOnTime
<1> QED
  BY <1>1, <1>2, <1>5, <1>6 DEF FiringOnTime

(* A HelloObject that still talks, or whose count stays, and whose         *)
(* GoodbyeObject is left alone.                                            *)
LEMMA StageStays ==
  ASSUME params' = params, NEW h, Stage(h),
         EventsOf(GoodbyeOf(h))' = EventsOf(GoodbyeOf(h)),
         buffer'[GoodbyeOf(h)] = buffer[GoodbyeOf(h)],
         message'[GoodbyeOf(h)] = message[GoodbyeOf(h)],
         exits \subseteq exits',
         \/ Fired(h)' = Fired(h)
         \/ Fired(h) < Total(h) /\ ~(Fired(h) = Total(h)) /\ Fired(h)' < Total(h)
  PROVE  Stage(h)'
<1>1. PICK g : g = GoodbyeOf(h)
  OBVIOUS
<1>2. g = GoodbyeOf(h)'
  BY <1>1, ParametersStay
<1>3. Total(h)' = Total(h) /\ Capacity(g)' = Capacity(g)
  BY ParametersStay
<1>. EventsOf(g)' = EventsOf(g)
  BY <1>1, <1>2 DEF EventsOf
<1>4. (\E e \in events' : e.obj = g) <=> (\E e \in events : e.obj = g)
  BY DEF EventsOf
<1>5. \A e \in events' : e.obj = g => e \in events
  BY DEF EventsOf
<1>6. CASE Talking(h)
  <2>1. Fired(h)' < Total(h)'
    BY <1>3, <1>6 DEF Talking
  <2>2. Talking(h)'
    BY <1>1, <1>2, <1>4, <1>6, <2>1 DEF Talking, Scheduled
  <2> QED
    BY <2>2 DEF Stage
<1>7. CASE Said(h)
  <2>1. Fired(h)' = Total(h)'
    BY <1>3, <1>7 DEF Said
  <2>2. \A x : ExitOf(x, h)' <=> ExitOf(x, h)
    BY ParametersStay
  <2>3. \E x \in exits' : ExitOf(x, h)'
    BY <1>7, <2>2 DEF Said
  <2>4. Said(h)'
    BY <1>1, <1>2, <1>4, <1>7, <2>1, <2>3 DEF Said, Scheduled
  <2> QED
    BY <2>4 DEF Stage
<1>8. CASE Writing(h)
  <2>1. Fired(h)' = Total(h)'
    BY <1>3, <1>8 DEF Writing
  <2>2. \A n : WrittenAt(h, n)' = WrittenAt(h, n)
    BY ParametersStay DEF WrittenAt
  <2>3. bufferUsed(g)' = bufferUsed(g) /\ buffer[g]' = buffer[g]
    BY <1>1 DEF bufferUsed
  <2>4. /\ \E e \in events : e.obj = g
        /\ message[g] = h
        /\ bufferUsed(g) < Capacity(g) /\ bufferUsed(g) % MessageLength = 0
        /\ buffer[g] = Repeated(h, bufferUsed(g))
        /\ \A e \in events : e.obj = g => Matches(e.tick, WrittenAt(h, bufferUsed(g)))
    BY <1>1, <1>8 DEF Writing, Scheduled
  <2>5. message'[g] = h /\ bufferUsed(g)' < Capacity(g)'
    BY <1>1, <1>3, <2>3, <2>4
  <2>6. buffer[g]' = Repeated(h, bufferUsed(g)')
    BY <2>3, <2>4
  <2>7. \A e \in events' : e.obj = g => Matches(e.tick, WrittenAt(h, bufferUsed(g))')
    BY <1>5, <2>2, <2>3, <2>4
  <2>8. Writing(h)'
    BY <1>2, <1>4, <2>1, <2>3, <2>4, <2>5, <2>6, <2>7 DEF Writing, Scheduled
  <2> QED
    BY <2>8 DEF Stage
<1> QED
  BY <1>6, <1>7, <1>8 DEF Stage

-----------------------------------------------------------------------------
(* What fillBuffer does for the HelloObject whose message it is.           *)
LEMMA FillStage ==
  ASSUME HelloTypes, BuffersKept, params' = params, status = "running",
         curTick' \in Nat, NEW h \in Polite, NEW queue,
         \A e \in queue : e.obj # GoodbyeOf(h),
         Fired(h)' = Total(h),
         NEW used, used = bufferUsed(GoodbyeOf(h)), used % MessageLength = 0,
         buffer[GoodbyeOf(h)] = Repeated(h, used),
         Matches(curTick', WrittenAt(h, used)),
         fillBuffer(GoodbyeOf(h), h, queue)
  PROVE  /\ status' = "panic" => curTick' >= Exact
         /\ status' # "panic" => /\ Stage(h)'
                                 /\ \A x \in exits' : x \in exits \/ ExitOf(x, h)
<1>1. PICK g : g = GoodbyeOf(h)
  OBVIOUS
<1>2. g \in Goodbyes /\ h \in Hellos /\ g = GoodbyeOf(h)'
  BY <1>1, ExitAt, ParametersStay DEF HelloTypes
<1>3. PICK n : n = bytes_copied(g)
  OBVIOUS
<1>4. /\ n \in Nat /\ n <= MessageLength /\ used \in Nat
      /\ used + n <= Capacity(g)
  BY <1>1, <1>2, <1>3, BytesCopied
<1>5. fillBuffer(g, h, queue)
  BY <1>1
<1>6. PICK when \in Nat :
           /\ Matches(when, curTick' + params.write_bandwidth[g] * n)
           /\ \/ /\ status' = "panic"
                 /\ events' = queue /\ exits' = exits
                 /\ curTick' >= Exact \/ \E e \in queue : e.obj = g
              \/ /\ status' = status /\ when >= curTick'
                 /\ events' = queue \cup {[obj |-> g, tick |-> when]}
                 /\ exits' = exits
                 /\ n = MessageLength
                 /\ used + n < Capacity(g)
              \/ /\ status' = status /\ when >= curTick'
                 /\ events' = queue
                 /\ exits' = exits \cup {[tick |-> when, cause |-> buffer'[g]]}
                 /\ used + n = Capacity(g)
  <2>1. h \in Hellos \cup {Nobody}
    BY <1>2
  <2> QED
    BY <1>1, <1>2, <1>3, <1>5, <2>1, FillBuffer
<1>7. /\ buffer'[g] = Repeated(h, used + n)
      /\ message'[g] = h
  <2>1. /\ buffer' = [buffer EXCEPT ![g] = buffer[g] \o SubSeq(Text(h), 1, n)]
        /\ message' = [message EXCEPT ![g] = h]
    BY <1>3, <1>5, Zenon DEF fillBuffer
  <2>2. g \in DOMAIN buffer /\ g \in DOMAIN message
    BY <1>2 DEF HelloTypes
  <2>3. buffer'[g] = buffer[g] \o SubSeq(Text(h), 1, n) /\ message'[g] = h
    BY <2>1, <2>2, Zenon
  <2>4. Repeated(h, used) \o SubSeq(Text(h), 1, n) = Repeated(h, used + n)
    BY <1>4, RepeatedGrows
  <2> QED
    BY <1>1, <2>3, <2>4
<1>8. Matches(when, WrittenAt(h, used + n))
  <2>1. PICK bw, w, t : /\ bw = params.write_bandwidth[g]
                        /\ w = bw * n /\ t = WrittenAt(h, used)
    OBVIOUS
  <2>2. bw \in Nat /\ w \in Nat
    BY <1>2, <1>4, <2>1, GoodbyeParameters DEF HelloTypes
  <2>3. t \in Nat
    <3>1. GoodbyeTick(h) \in Nat
      BY <1>2, HelloParameters DEF HelloTypes
    <3>2. t = GoodbyeTick(h) + bw * used
      BY <1>1, <2>1 DEF WrittenAt
    <3> QED
      BY <1>4, <2>2, <3>1, <3>2
  <2>4. Matches(when, t + w)
    BY <1>6, <2>1, <2>2, <2>3, MatchesGrow
  <2>5. t + w = WrittenAt(h, used + n)
    <3>1. t = GoodbyeTick(h) + bw * used /\ GoodbyeTick(h) \in Nat
      BY <1>1, <1>2, <2>1, HelloParameters DEF WrittenAt, HelloTypes
    <3>2. WrittenAt(h, used + n) = GoodbyeTick(h) + bw * (used + n)
      BY <1>1, <2>1 DEF WrittenAt
    <3> QED
      BY <1>4, <2>1, <2>2, <3>1, <3>2
  <2> QED
    BY <2>4, <2>5
<1>9. bufferUsed(g)' = used + n
  BY <1>4, <1>7, RepeatedLength DEF bufferUsed
<1>10. /\ Total(h)' = Total(h) /\ Capacity(g)' = Capacity(g)
       /\ \A m : WrittenAt(h, m)' = WrittenAt(h, m)
       /\ \A x : ExitOf(x, h)' <=> ExitOf(x, h)
  BY ParametersStay DEF WrittenAt
<1>11. CASE status' = "panic"
  BY <1>1, <1>6, <1>11
<1>12. CASE /\ status' # "panic"
            /\ events' = queue \cup {[obj |-> g, tick |-> when]}
            /\ exits' = exits
            /\ n = MessageLength
            /\ used + n < Capacity(g)
  <2>1. (used + n) % MessageLength = 0
    BY <1>4, <1>12, HelloAssumption, Remainders
  <2>2. \E e \in events' : e.obj = g
    <3>1. PICK e : e = [obj |-> g, tick |-> when]
      OBVIOUS
    <3>2. e \in events' /\ e.obj = g
      BY <1>12, <3>1
    <3> QED
      BY <3>2
  <2>3. \A e \in events' : e.obj = g => e.tick = when
    BY <1>1, <1>12
  <2>4. Writing(h)'
    BY <1>2, <1>7, <1>8, <1>9, <1>10, <1>12, <2>1, <2>2, <2>3 DEF Writing, Scheduled
  <2> QED
    BY <1>12, <2>4 DEF Stage
<1>13. CASE /\ status' # "panic"
            /\ events' = queue
            /\ exits' = exits \cup {[tick |-> when, cause |-> buffer'[g]]}
            /\ used + n = Capacity(g)
  <2>1. PICK x : x = [tick |-> when, cause |-> buffer'[g]]
    OBVIOUS
  <2>2. Written(h) = used + n /\ ExitTick(h) = WrittenAt(h, used + n)
    BY <1>1, <1>13, ExitAt DEF HelloTypes
  <2>3. ExitOf(x, h)
    BY <1>7, <1>8, <2>1, <2>2 DEF ExitOf
  <2>4. ~Scheduled(g)'
    BY <1>1, <1>13 DEF Scheduled
  <2>5. Said(h)'
    BY <1>2, <1>10, <1>13, <2>1, <2>3, <2>4 DEF Said
  <2> QED
    BY <1>13, <2>1, <2>3, <2>5 DEF Stage
<1> QED
  BY <1>6, <1>11, <1>12, <1>13

-----------------------------------------------------------------------------
(* The steps of a HelloObject.                                             *)

(* When it fires, how often it has, and whether that is often enough.      *)
LEMMA Counting ==
  ASSUME HelloInv, NEW h \in Hellos, Fire(h),
         timesLeft' = [timesLeft EXCEPT ![h] = @ - 1]
  PROVE  /\ timesLeft' \in [Hellos -> Int]
         /\ \A k \in Hellos : k # h => timesLeft'[k] = timesLeft[k]
         /\ Fired(h) \in Nat /\ Fired(h) < Total(h)
         /\ Fired(h)' = Fired(h) + 1
         /\ curTick' = params.time_to_wait[h] * (Fired(h) + 1)
         /\ timesLeft'[h] > 0 => Fired(h)' < Total(h)
         /\ timesLeft'[h] <= 0 => Fired(h)' = Total(h) /\ curTick' = GoodbyeTick(h)
<1>1. HelloTypes /\ FiringOnTime(h)
  BY DEF HelloInv, AllFiringOnTime
<1>2. timesLeft \in [Hellos -> Int]
  BY <1>1 DEF HelloTypes
<1>3. /\ timesLeft' \in [Hellos -> Int]
      /\ \A k \in Hellos : k # h => timesLeft'[k] = timesLeft[k]
      /\ timesLeft'[h] = timesLeft[h] - 1
  BY <1>2
<1>4. params' = params /\ \E e \in events : e.obj = h /\ e.tick = curTick'
  BY NextEvent
<1>5. Fired(h) < Total(h) /\ curTick' = params.time_to_wait[h] * (Fired(h) + 1)
  BY <1>1, <1>4 DEF FiringOnTime
<1>6. PICK fires, left : fires = params.number_of_fires[h] /\ left = timesLeft[h]
  OBVIOUS
<1>7. fires \in Int /\ left \in Int /\ Fired(h) = fires - left
  BY <1>1, <1>2, <1>6, HelloParameters DEF HelloTypes, Fired
<1>8. Fired(h)' = fires - (left - 1)
  BY <1>3, <1>4, <1>6 DEF Fired
<1>9. Fired(h) \in Nat /\ Fired(h)' = Fired(h) + 1
  BY <1>1, <1>7, <1>8 DEF FiringOnTime
<1>10. Total(h) \in Nat /\ Total(h) = IF fires < 1 THEN 1 ELSE fires
  BY <1>1, <1>6, HelloParameters DEF HelloTypes, Total, AtLeast
<1>11. ASSUME timesLeft'[h] > 0
       PROVE  Fired(h)' < Total(h)
  BY <1>3, <1>6, <1>7, <1>8, <1>10, <1>11
<1>12. ASSUME timesLeft'[h] <= 0
       PROVE  Fired(h)' = Total(h) /\ curTick' = GoodbyeTick(h)
  <2>1. Fired(h)' = Total(h)
    BY <1>3, <1>5, <1>6, <1>7, <1>8, <1>9, <1>10, <1>12
  <2> QED
    BY <1>5, <1>9, <2>1 DEF GoodbyeTick
<1> QED
  BY <1>3, <1>5, <1>9, <1>11, <1>12

(* Its own count and event after that.                                     *)
LEMMA FiredOnTime ==
  ASSUME HelloInv, NEW h \in Hellos, Fire(h),
         timesLeft' = [timesLeft EXCEPT ![h] = @ - 1],
         \/ /\ timesLeft'[h] > 0
            /\ EventsOf(h)' =
                 {[obj |-> h, tick |-> curTick' + params.time_to_wait[h]]}
         \/ timesLeft'[h] <= 0 /\ EventsOf(h)' = {}
  PROVE  FiringOnTime(h)'
<1>1. /\ Fired(h) \in Nat /\ Fired(h) < Total(h)
      /\ Fired(h)' = Fired(h) + 1
      /\ curTick' = params.time_to_wait[h] * (Fired(h) + 1)
      /\ timesLeft'[h] > 0 => Fired(h)' < Total(h)
      /\ timesLeft'[h] <= 0 => Fired(h)' = Total(h) /\ curTick' = GoodbyeTick(h)
  BY Counting
<1>2. params' = params
  BY NextEvent
<1>3. Total(h)' = Total(h) /\ GoodbyeTick(h)' = GoodbyeTick(h)
  BY <1>2, ParametersStay
<1>4. /\ Total(h) \in Nat /\ params.time_to_wait[h] \in Nat /\ GoodbyeTick(h) \in Nat
  BY HelloParameters DEF HelloInv, HelloTypes
<1>5. \A e \in events' : e.obj = h => e \in EventsOf(h)'
  BY DEF EventsOf
<1>6. CASE /\ timesLeft'[h] > 0
           /\ EventsOf(h)' =
                {[obj |-> h, tick |-> curTick' + params.time_to_wait[h]]}
  <2>1. PICK e : e = [obj |-> h, tick |-> curTick' + params.time_to_wait[h]]
    OBVIOUS
  <2>2. e \in events' /\ e.obj = h
    BY <1>6, <2>1 DEF EventsOf
  <2>3. Scheduled(h)'
    BY <2>2 DEF Scheduled
  <2>4. PICK w, n : w = params.time_to_wait[h] /\ n = Fired(h)
    OBVIOUS
  <2>5. w * (n + 1) + w = w * ((n + 1) + 1)
    <3>1. w \in Nat /\ n \in Nat
      BY <1>1, <1>4, <2>4
    <3> QED
      BY <3>1
  <2>6. e.tick = params'.time_to_wait[h] * (Fired(h)' + 1)
    BY <1>1, <1>2, <2>1, <2>4, <2>5
  <2>7. \A d \in events' : d.obj = h => d = e
    BY <1>5, <1>6, <2>1
  <2>8. 0 <= Fired(h)' /\ Fired(h)' < Total(h)' /\ Fired(h)' \in Nat /\ Total(h)' \in Nat
    BY <1>1, <1>3, <1>4, <1>6
  <2> QED
    BY <2>3, <2>6, <2>7, <2>8 DEF FiringOnTime
<1>7. CASE timesLeft'[h] <= 0 /\ EventsOf(h)' = {}
  <2>1. \A e \in events' : e.obj # h
    BY <1>5, <1>7
  <2>2. /\ Fired(h)' = Total(h)' /\ curTick' = GoodbyeTick(h)'
        /\ Fired(h)' \in Nat /\ Total(h)' \in Nat /\ curTick' \in Nat
    BY <1>1, <1>3, <1>4, <1>7
  <2> QED
    BY <2>1, <2>2 DEF FiringOnTime
<1> QED
  BY <1>6, <1>7

(* FireAgain and DoneFiring: nothing happens but to its own event.         *)
LEMMA QuietFiring ==
  ASSUME HelloInv, NEW h \in Hellos, Fire(h),
         timesLeft' = [timesLeft EXCEPT ![h] = @ - 1],
         NEW new, events' = Without(h) \cup new,
         \/ /\ timesLeft'[h] > 0
            /\ new = {[obj |-> h, tick |-> curTick' + params.time_to_wait[h]]}
         \/ timesLeft'[h] <= 0 /\ new = {} /\ h \notin Polite,
         UNCHANGED <<exits, message, buffer, status>>
  PROVE  HelloInv'
<1>1. /\ HelloTypes /\ BuffersKept /\ NothingPassed
      /\ AllFiringOnTime /\ OnlyNamed /\ StagesKept
  BY DEF HelloInv
<1>2. /\ status = "running" /\ params' = params
      /\ curTick' \in Nat /\ curTick <= curTick'
      /\ \A t \in Pending : curTick' <= t
  BY NextEvent
<1>3. /\ timesLeft' \in [Hellos -> Int]
      /\ \A k \in Hellos : k # h => timesLeft'[k] = timesLeft[k]
      /\ Fired(h) < Total(h) /\ Fired(h) \in Nat /\ Total(h) \in Nat
      /\ timesLeft'[h] > 0 => Fired(h)' < Total(h)
  BY <1>1, Counting, HelloParameters DEF HelloTypes
<1>4. PICK next \in Nat :
        /\ next >= curTick'
        /\ new \subseteq {[obj |-> h, tick |-> next]}
  <2>1. PICK next : next = curTick' + params.time_to_wait[h]
    OBVIOUS
  <2>2. next \in Nat /\ next >= curTick'
    BY <1>1, <1>2, <2>1, HelloParameters DEF HelloTypes
  <2>3. new \subseteq {[obj |-> h, tick |-> next]}
    BY <2>1
  <2> QED
    BY <2>2, <2>3
<1>5. \A e \in new : e.obj = h /\ e.tick = next
  BY <1>4
<1>6. \A e \in events' : e \in events \/ e \in new
  BY DEF Without
<1>7. h \notin Goodbyes
  BY HelloAssumption
<1>8. HelloTypes'
  <2>1. events' \subseteq [obj : Objects, tick : Nat]
    BY <1>1, <1>4, <1>6 DEF HelloTypes, Objects
  <2> QED
    BY <1>1, <1>2, <1>3, <2>1 DEF HelloTypes
<1>9. BuffersKept'
  <2>1. \A g \in Goodbyes : bufferUsed(g)' <= Capacity(g)'
    BY <1>1, <1>2, ParametersStay DEF BuffersKept, bufferUsed
  <2>2. \A e \in events' : e.obj \in Goodbyes => message'[e.obj] \in Hellos
    BY <1>1, <1>5, <1>6, <1>7 DEF BuffersKept
  <2> QED
    BY <2>1, <2>2 DEF BuffersKept
<1>10. NothingPassed'
  <2>1. ASSUME NEW t \in Pending'
        PROVE  curTick' <= t
    <3>1. t \in Pending \/ t = next
      BY <1>5, <1>6, <2>1 DEF Pending
    <3> QED
      BY <1>2, <1>4, <3>1
  <2> QED
    BY <2>1 DEF NothingPassed
<1>11. AllFiringOnTime'
  <2>1. EventsOf(h)' = new
    BY <1>5 DEF EventsOf, Without
  <2>2. FiringOnTime(h)'
    BY <2>1, FiredOnTime
  <2>3. ASSUME NEW k \in Hellos, k # h
        PROVE  FiringOnTime(k)'
    <3>1. EventsOf(k)' = EventsOf(k)
      BY <1>5, <2>3, EventsStay
    <3> QED
      BY <1>1, <1>2, <1>3, <2>3, <3>1, FiringStays DEF AllFiringOnTime
  <2> QED
    BY <2>2, <2>3 DEF AllFiringOnTime
<1>12. OnlyNamed'
  <2>1. Polite' = Polite /\ \A k : GoodbyeOf(k)' = GoodbyeOf(k)
    BY <1>2, ParametersStay
  <2>2. \A e \in events' : e.obj \in Goodbyes => \E k \in Polite : GoodbyeOf(k) = e.obj
    BY <1>1, <1>5, <1>6, <1>7 DEF OnlyNamed
  <2> QED
    BY <2>1, <2>2 DEF OnlyNamed
<1>13. StagesKept'
  <2>1. SUFFICES ASSUME ~Shared
                 PROVE  /\ \A k \in Polite : Stage(k)'
                        /\ \A x \in exits : \E k \in Polite : ExitOf(x, k)'
    <3>1. Polite' = Polite /\ (Shared' <=> Shared)
      BY <1>2, ParametersStay
    <3> QED
      BY <2>1, <3>1 DEF StagesKept
  <2>2. /\ \A k \in Polite : Stage(k)
        /\ \A x \in exits : \E k \in Polite : ExitOf(x, k)
    BY <1>1, <1>2, <2>1 DEF StagesKept
  <2>3. ASSUME NEW k \in Polite
        PROVE  Stage(k)'
    <3>1. k \in Hellos /\ GoodbyeOf(k) \in Goodbyes
      BY <1>1, <2>3, ExitAt DEF HelloTypes
    <3>2. PICK g : g = GoodbyeOf(k)
      OBVIOUS
    <3>3. g # h /\ g = GoodbyeOf(k)'
      BY <1>2, <1>7, <3>1, <3>2, ParametersStay
    <3>4. EventsOf(g)' = EventsOf(g)
      BY <1>5, <3>3, EventsStay
    <3>5. EventsOf(GoodbyeOf(k))' = EventsOf(GoodbyeOf(k))
      BY <3>2, <3>3, <3>4
    <3>6. \/ Fired(k)' = Fired(k)
          \/ Fired(k) < Total(k) /\ ~(Fired(k) = Total(k)) /\ Fired(k)' < Total(k)
      <4>1. CASE k # h
        BY <1>2, <1>3, <3>1, <4>1 DEF Fired
      <4>2. CASE k = h
        BY <1>3, <4>2
      <4> QED
        BY <4>1, <4>2
    <3> QED
      BY <1>2, <2>2, <3>5, <3>6, StageStays
  <2>4. \A x \in exits : \E k \in Polite : ExitOf(x, k)'
    BY <1>2, <2>2, ParametersStay
  <2> QED
    BY <2>3, <2>4
<1> QED
  BY <1>8, <1>9, <1>10, <1>11, <1>12, <1>13 DEF HelloInv

(* FireAgain as the model has it.                                          *)
LEMMA FireAgainStep ==
  ASSUME HelloInv, NEW h \in Hellos, FireAgain(h)
  PROVE  HelloInv'
<1>1. PICK new : new = {[obj |-> h, tick |-> curTick' + params.time_to_wait[h]]}
  OBVIOUS
<1>2. /\ Fire(h)
      /\ timesLeft' = [timesLeft EXCEPT ![h] = @ - 1]
      /\ timesLeft'[h] > 0
      /\ events' = Without(h) \cup new
      /\ UNCHANGED <<exits, message, buffer, status>>
  BY <1>1 DEF FireAgain
<1> QED
  BY <1>1, <1>2, QuietFiring

(* The last event of a HelloObject without a GoodbyeObject.                *)
LEMMA DoneFiringStep ==
  ASSUME HelloInv, NEW h \in Hellos, DoneFiring(h)
  PROVE  HelloInv'
<1>1. PICK new : new = {}
  OBVIOUS
<1>2. /\ Fire(h)
      /\ timesLeft' = [timesLeft EXCEPT ![h] = @ - 1]
      /\ timesLeft'[h] <= 0
      /\ events' = Without(h) \cup new
      /\ UNCHANGED <<exits, message, buffer, status>>
      /\ h \notin Polite
  BY <1>1 DEF DoneFiring, Polite
<1> QED
  BY <1>1, <1>2, QuietFiring

-----------------------------------------------------------------------------
(* The steps that fill a buffer.                                           *)

(* Each HelloObject has a GoodbyeObject of its own.                        *)
LEMMA OneEach ==
  ASSUME ~Shared, NEW h \in Polite, NEW k \in Polite, GoodbyeOf(h) = GoodbyeOf(k)
  PROVE  h = k
  BY DEF Shared, Polite, GoodbyeOf

(* The event of o makes the object of h write the message of m, which is   *)
(* that of h unless others share the object.                               *)
LEMMA FillStep ==
  ASSUME HelloInv, NEW o, Fire(o), AllFiringOnTime',
         timesLeft' \in [Hellos -> Int],
         NEW h \in Polite, NEW m \in Hellos,
         \A k \in Hellos : k # h => timesLeft'[k] = timesLeft[k],
         o \in Hellos \/ o = GoodbyeOf(h),
         fillBuffer(GoodbyeOf(h), m, Without(o)),
         NEW used, used = bufferUsed(GoodbyeOf(h)),
         ~Shared =>
           /\ m = h /\ Fired(h)' = Total(h)
           /\ used % MessageLength = 0
           /\ buffer[GoodbyeOf(h)] = Repeated(h, used)
           /\ Matches(curTick', WrittenAt(h, used))
           /\ \A e \in Without(o) : e.obj # GoodbyeOf(h)
  PROVE  HelloInv' /\ OnlySharedOrLatePanics'
<1>1. /\ HelloTypes /\ BuffersKept /\ NothingPassed
      /\ AllFiringOnTime /\ OnlyNamed /\ StagesKept
  BY DEF HelloInv
<1>2. /\ status = "running" /\ params' = params
      /\ curTick' \in Nat /\ curTick <= curTick'
      /\ \A t \in Pending : curTick' <= t
  BY NextEvent
<1>3. PICK g : g = GoodbyeOf(h)
  OBVIOUS
<1>4. g \in Goodbyes /\ h \in Hellos /\ g = GoodbyeOf(h)'
  BY <1>1, <1>2, <1>3, ExitAt, ParametersStay DEF HelloTypes
<1>5. PICK queue : queue = Without(o)
  OBVIOUS
<1>6. queue \subseteq events /\ fillBuffer(g, m, queue)
  BY <1>3, <1>5 DEF Without
<1>7. HelloTypes' /\ BuffersKept'
  BY <1>1, <1>2, <1>4, <1>6, FillKeepsTypes
<1>8. NothingPassed'
  BY <1>1, <1>2, <1>4, <1>6, FillPassesNothing
<1>9. PICK when \in Nat :
        /\ \/ events' = queue
           \/ events' = queue \cup {[obj |-> g, tick |-> when]}
        /\ exits \subseteq exits'
  BY <1>1, <1>2, <1>4, <1>6, FillBuffer
<1>10. PICK new : new = events' \ queue
  OBVIOUS
<1>. events' = queue \cup new /\ \A e \in new : e.obj = g
  BY <1>9, <1>10
<1>11. OnlyNamed'
  <2>1. Polite' = Polite /\ \A k : GoodbyeOf(k)' = GoodbyeOf(k)
    BY <1>2, ParametersStay
  <2>2. \A e \in events' : e.obj \in Goodbyes => \E k \in Polite : GoodbyeOf(k) = e.obj
    BY <1>1, <1>3, <1>6 DEF OnlyNamed
  <2> QED
    BY <2>1, <2>2 DEF OnlyNamed
<1>12. CASE Shared
  <2>1. Shared'
    BY <1>2, <1>12, ParametersStay
  <2>2. StagesKept' /\ OnlySharedOrLatePanics'
    BY <2>1 DEF StagesKept, OnlySharedOrLatePanics
  <2> QED
    BY <1>7, <1>8, <1>11, <2>2 DEF HelloInv
<1>13. CASE ~Shared
  <2>1. /\ m = h /\ Fired(h)' = Total(h)
        /\ used % MessageLength = 0
        /\ buffer[GoodbyeOf(h)] = Repeated(h, used)
        /\ Matches(curTick', WrittenAt(h, used))
        /\ \A e \in queue : e.obj # GoodbyeOf(h)
    BY <1>5, <1>13
  <2>2. fillBuffer(GoodbyeOf(h), h, queue)
    BY <1>5, <2>1
  <2>3. /\ status' = "panic" => curTick' >= Exact
        /\ status' # "panic" => /\ Stage(h)'
                                /\ \A x \in exits' : x \in exits \/ ExitOf(x, h)
    BY <1>1, <1>2, <2>1, <2>2, FillStage
  <2>4. OnlySharedOrLatePanics'
    BY <2>3 DEF OnlySharedOrLatePanics, Exact
  <2>5. ASSUME NEW k \in Polite, k # h
        PROVE  Stage(k)'
    <3>1. PICK d : d = GoodbyeOf(k)
      OBVIOUS
    <3>2. k \in Hellos /\ d \in Goodbyes /\ d = GoodbyeOf(k)'
      BY <1>1, <1>2, <3>1, ExitAt, ParametersStay DEF HelloTypes
    <3>3. d # g
      BY <1>3, <1>13, <2>5, <3>1, OneEach
    <3>4. d # o
      BY <1>3, <3>2, <3>3, HelloAssumption
    <3>5. EventsOf(d)' = EventsOf(d)
      BY <1>5, <3>3, <3>4 DEF EventsOf, Without
    <3>6. EventsOf(GoodbyeOf(k))' = EventsOf(GoodbyeOf(k))
      BY <3>1, <3>2, <3>5
    <3>7. buffer'[d] = buffer[d] /\ message'[d] = message[d]
      <4>1. /\ \E s : buffer' = [buffer EXCEPT ![g] = s]
            /\ message' = [message EXCEPT ![g] = m]
        BY <1>6, Zenon DEF fillBuffer
      <4>2. d \in DOMAIN buffer /\ d \in DOMAIN message
        BY <1>1, <3>2 DEF HelloTypes
      <4> QED
        BY <3>3, <4>1, <4>2, Zenon
    <3>8. Fired(k)' = Fired(k)
      BY <1>2, <2>5, <3>2 DEF Fired
    <3>9. Stage(k)
      BY <1>1, <1>2, <1>13 DEF StagesKept
    <3> QED
      BY <1>2, <1>9, <3>1, <3>6, <3>7, <3>8, <3>9, StageStays
  <2>6. StagesKept'
    <3>1. SUFFICES ASSUME status' = "running"
                   PROVE  /\ \A k \in Polite : Stage(k)'
                          /\ \A x \in exits' : \E k \in Polite : ExitOf(x, k)'
      <4>1. Polite' = Polite
        BY <1>2, ParametersStay
      <4> QED
        BY <3>1, <4>1 DEF StagesKept
    <3>2. \A x \in exits' : \E k \in Polite : ExitOf(x, k)
      BY <1>1, <1>2, <1>13, <2>3, <3>1 DEF StagesKept
    <3>3. \A x \in exits' : \E k \in Polite : ExitOf(x, k)'
      BY <1>2, <3>2, ParametersStay
    <3> QED
      BY <2>3, <2>5, <3>1, <3>3
  <2> QED
    BY <1>7, <1>8, <1>11, <2>4, <2>6 DEF HelloInv
<1> QED
  BY <1>12, <1>13

(* The HelloObjects that the step is not about fire as before.             *)
LEMMA FillFirings ==
  ASSUME HelloInv, NEW o, Fire(o), NEW k \in Hellos, k # o,
         timesLeft'[k] = timesLeft[k],
         NEW g \in Goodbyes, NEW m \in Hellos, fillBuffer(g, m, Without(o))
  PROVE  FiringOnTime(k)'
<1>1. HelloTypes /\ BuffersKept /\ FiringOnTime(k)
  BY DEF HelloInv, AllFiringOnTime
<1>2. params' = params /\ curTick' \in Nat /\ curTick <= curTick'
  BY NextEvent
<1>3. PICK queue : queue = Without(o)
  OBVIOUS
<1>4. fillBuffer(g, m, queue)
  BY <1>3
<1>5. PICK when \in Nat : \/ events' = queue
                          \/ events' = queue \cup {[obj |-> g, tick |-> when]}
  BY <1>1, <1>2, <1>4, FillBuffer
<1>6. k # g
  BY HelloAssumption
<1>7. EventsOf(k)' = EventsOf(k)
  BY <1>3, <1>5, <1>6 DEF EventsOf, Without
<1> QED
  BY <1>1, <1>2, <1>7, FiringStays

(* Saying goodbye: the buffer is empty and the object has no event yet.    *)
LEMMA SayGoodbyeStep ==
  ASSUME HelloInv, NEW h \in Hellos, SayGoodbye(h)
  PROVE  HelloInv' /\ OnlySharedOrLatePanics'
<1>1. /\ HelloTypes /\ BuffersKept /\ StagesKept
  BY DEF HelloInv
<1>2. /\ h \in Polite /\ Fire(h)
      /\ timesLeft' = [timesLeft EXCEPT ![h] = @ - 1]
      /\ timesLeft'[h] <= 0
      /\ fillBuffer(GoodbyeOf(h), h, Without(h))
  BY DEF SayGoodbye, Polite, GoodbyeOf
<1>3. /\ timesLeft' \in [Hellos -> Int]
      /\ \A k \in Hellos : k # h => timesLeft'[k] = timesLeft[k]
      /\ Fired(h) < Total(h) /\ Fired(h) \in Nat
      /\ Fired(h)' = Total(h) /\ curTick' = GoodbyeTick(h)
  BY <1>2, Counting
<1>4. status = "running" /\ curTick' \in Nat
  BY <1>2, NextEvent
<1>5. PICK g : g = GoodbyeOf(h)
  OBVIOUS
<1>6. g \in Goodbyes /\ g # h
  BY <1>1, <1>2, <1>5, ExitAt, HelloAssumption DEF HelloTypes
<1>7. fillBuffer(g, h, Without(h))
  BY <1>2, <1>5
<1>8. FiringOnTime(h)'
  <2>1. PICK queue : queue = Without(h)
    OBVIOUS
  <2>2. fillBuffer(g, h, queue)
    BY <1>7, <2>1
  <2>3. PICK when \in Nat : \/ events' = queue
                            \/ events' = queue \cup {[obj |-> g, tick |-> when]}
    BY <1>1, <1>4, <1>6, <2>2, FillBuffer
  <2>4. EventsOf(h)' = {}
    BY <1>6, <2>1, <2>3 DEF EventsOf, Without
  <2> QED
    BY <1>2, <2>4, FiredOnTime
<1>9. AllFiringOnTime'
  <2>1. ASSUME NEW k \in Hellos, k # h
        PROVE  FiringOnTime(k)'
    BY <1>2, <1>3, <1>6, <1>7, <2>1, FillFirings
  <2> QED
    BY <1>8, <2>1 DEF AllFiringOnTime
<1>10. PICK used : used = bufferUsed(GoodbyeOf(h))
  OBVIOUS
<1>11. ASSUME ~Shared
       PROVE  /\ used % MessageLength = 0
              /\ buffer[GoodbyeOf(h)] = Repeated(h, used)
              /\ Matches(curTick', WrittenAt(h, used))
              /\ \A e \in Without(h) : e.obj # GoodbyeOf(h)
  <2>1. Stage(h)
    BY <1>1, <1>2, <1>4, <1>11 DEF StagesKept
  <2>2. ~(Fired(h) = Total(h))
    BY <1>3
  <2>3. Talking(h)
    BY <2>1, <2>2 DEF Stage, Writing, Said
  <2>4. buffer[GoodbyeOf(h)] = <<>> /\ ~Scheduled(GoodbyeOf(h))
    BY <2>3 DEF Talking
  <2>5. used = 0
    BY <1>10, <2>4 DEF bufferUsed
  <2>6. used % MessageLength = 0
    BY <2>5, HelloAssumption
  <2>7. Repeated(h, 0) = <<>>
    BY DEF Repeated
  <2>8. WrittenAt(h, 0) = GoodbyeTick(h)
    <3>1. PICK bw, t : bw = params.write_bandwidth[GoodbyeOf(h)] /\ t = GoodbyeTick(h)
      OBVIOUS
    <3>2. bw \in Nat /\ t \in Nat
      BY <1>1, <1>3, <1>4, <1>5, <1>6, <3>1, GoodbyeParameters DEF HelloTypes
    <3>3. t + bw * 0 = t
      BY <3>2
    <3> QED
      BY <3>1, <3>3 DEF WrittenAt
  <2>9. Matches(curTick', WrittenAt(h, used))
    BY <1>3, <1>4, <2>5, <2>8, ExactType DEF Matches
  <2>10. \A e \in Without(h) : e.obj # GoodbyeOf(h)
    BY <2>4 DEF Scheduled, Without
  <2> QED
    BY <2>4, <2>5, <2>6, <2>7, <2>9, <2>10
<1> QED
  BY <1>2, <1>3, <1>9, <1>10, <1>11, FillStep

(* Going on: the event was the only one of the object, and it is due when  *)
(* the messages before are written.                                        *)
LEMMA ProcessGoodbyeStep ==
  ASSUME HelloInv, NEW g \in Goodbyes, ProcessGoodbye(g)
  PROVE  HelloInv' /\ OnlySharedOrLatePanics'
<1>1. /\ HelloTypes /\ BuffersKept /\ OnlyNamed /\ StagesKept
  BY DEF HelloInv
<1>2. /\ Fire(g) /\ timesLeft' = timesLeft
      /\ fillBuffer(g, message[g], Without(g))
  BY DEF ProcessGoodbye
<1>3. /\ status = "running" /\ params' = params /\ curTick' \in Nat
  BY <1>2, NextEvent
<1>4. PICK e \in events : e.obj = g /\ e.tick = curTick'
  BY <1>2, NextEvent
<1>5. PICK h \in Polite : GoodbyeOf(h) = g
  BY <1>1, <1>4 DEF OnlyNamed
<1>6. PICK m \in Hellos : m = message[g]
  BY <1>1, <1>4 DEF BuffersKept
<1>7. fillBuffer(g, m, Without(g))
  BY <1>2, <1>6
<1>8. timesLeft' \in [Hellos -> Int]
  BY <1>1, <1>2 DEF HelloTypes
<1>9. AllFiringOnTime'
  <2>1. ASSUME NEW k \in Hellos
        PROVE  FiringOnTime(k)'
    <3>1. k # g
      BY HelloAssumption
    <3> QED
      BY <1>2, <1>7, <3>1, FillFirings
  <2> QED
    BY <2>1 DEF AllFiringOnTime
<1>10. PICK used : used = bufferUsed(GoodbyeOf(h))
  OBVIOUS
<1>11. ASSUME ~Shared
       PROVE  /\ m = h /\ Fired(h)' = Total(h)
              /\ used % MessageLength = 0
              /\ buffer[GoodbyeOf(h)] = Repeated(h, used)
              /\ Matches(curTick', WrittenAt(h, used))
              /\ \A d \in Without(g) : d.obj # GoodbyeOf(h)
  <2>1. Stage(h)
    BY <1>1, <1>3, <1>11 DEF StagesKept
  <2>2. Scheduled(GoodbyeOf(h))
    BY <1>4, <1>5 DEF Scheduled
  <2>3. Writing(h)
    BY <2>1, <2>2 DEF Stage, Talking, Said
  <2>4. /\ Fired(h) = Total(h) /\ message[GoodbyeOf(h)] = h
        /\ used % MessageLength = 0
        /\ buffer[GoodbyeOf(h)] = Repeated(h, used)
        /\ \A d \in events : d.obj = GoodbyeOf(h) => Matches(d.tick, WrittenAt(h, used))
    BY <1>10, <2>3 DEF Writing
  <2>5. Fired(h)' = Fired(h)
    BY <1>2, <1>3 DEF Fired
  <2>6. Matches(curTick', WrittenAt(h, used))
    BY <1>4, <1>5, <2>4
  <2> QED
    BY <1>5, <1>6, <2>4, <2>5, <2>6 DEF Without
<1>12. \A k \in Hellos : k # h => timesLeft'[k] = timesLeft[k]
  BY <1>2
<1>13. fillBuffer(GoodbyeOf(h), m, Without(g)) /\ g = GoodbyeOf(h)
  BY <1>5, <1>7
<1> QED
  BY <1>2, <1>8, <1>9, <1>10, <1>11, <1>12, <1>13, FillStep

-----------------------------------------------------------------------------
(* The start.                                                              *)
LEMMA InitHello ==
  ASSUME Init
  PROVE  HelloInv
<1>1. /\ params \in Parameters /\ curTick = 0 /\ exits = {}
      /\ events = {[obj |-> h, tick |-> params.time_to_wait[h]] : h \in Hellos}
      /\ timesLeft = params.number_of_fires /\ status = "running"
      /\ message = [g \in Goodbyes |-> Nobody]
      /\ buffer = [g \in Goodbyes |-> <<>>]
  BY DEF Init
<1>2. \A h \in Hellos : params.time_to_wait[h] \in Nat
  BY <1>1, HelloParameters
<1>3. \A e \in events : /\ e.obj \in Hellos /\ e.obj \notin Goodbyes
                        /\ e.tick \in Nat /\ e.tick = params.time_to_wait[e.obj]
  BY <1>1, <1>2, HelloAssumption
<1>4. HelloTypes
  <2>1. events \subseteq [obj : Objects, tick : Nat]
    BY <1>1, <1>2 DEF Objects
  <2>2. timesLeft \in [Hellos -> Int]
    BY <1>1, HelloAssumption DEF Parameters
  <2>3. buffer \in [Goodbyes -> Seq(Bytes)] /\ message \in [Goodbyes -> Hellos \cup {Nobody}]
    BY <1>1
  <2> QED
    BY <1>1, <2>1, <2>2, <2>3 DEF HelloTypes
<1>5. BuffersKept
  <2>1. ASSUME NEW g \in Goodbyes
        PROVE  bufferUsed(g) <= Capacity(g)
    <3>1. bufferUsed(g) = 0
      BY <1>1 DEF bufferUsed
    <3>2. Capacity(g) \in Nat
      BY <1>1, GoodbyeParameters
    <3> QED
      BY <3>1, <3>2
  <2> QED
    BY <1>3, <2>1 DEF BuffersKept
<1>6. NothingPassed
  <2>1. \A t \in Pending : t \in Nat
    BY <1>1, <1>3 DEF Pending
  <2> QED
    BY <1>1, <2>1 DEF NothingPassed
<1>7. ASSUME NEW h \in Hellos
      PROVE  /\ Fired(h) = 0 /\ 0 < Total(h) /\ Total(h) \in Nat /\ Scheduled(h)
  <2>1. params.number_of_fires[h] \in Int /\ 0 < Total(h) /\ Total(h) \in Nat
    BY <1>1, HelloParameters
  <2>2. Fired(h) = 0
    BY <1>1, <2>1 DEF Fired
  <2>3. Scheduled(h)
    <3>1. PICK e : e = [obj |-> h, tick |-> params.time_to_wait[h]]
      OBVIOUS
    <3>2. e \in events /\ e.obj = h
      BY <1>1, <3>1
    <3> QED
      BY <3>2 DEF Scheduled
  <2> QED
    BY <2>1, <2>2, <2>3
<1>8. AllFiringOnTime
  <2>1. ASSUME NEW h \in Hellos
        PROVE  FiringOnTime(h)
    <3>1. \A w \in Nat : w = w * (0 + 1)
      OBVIOUS
    <3>2. \A e \in events : e.obj = h => e.tick = params.time_to_wait[h] * (Fired(h) + 1)
      BY <1>2, <1>3, <1>7, <3>1
    <3> QED
      BY <1>7, <3>2 DEF FiringOnTime
  <2> QED
    BY <2>1 DEF AllFiringOnTime
<1>9. OnlyNamed
  BY <1>3 DEF OnlyNamed
<1>10. StagesKept
  <2>1. ASSUME NEW h \in Polite
        PROVE  Stage(h)
    <3>1. h \in Hellos /\ GoodbyeOf(h) \in Goodbyes
      BY <1>1, ExitAt
    <3>2. ~Scheduled(GoodbyeOf(h)) /\ buffer[GoodbyeOf(h)] = <<>>
      BY <1>1, <1>3, <3>1 DEF Scheduled
    <3>3. Talking(h)
      BY <1>7, <3>1, <3>2 DEF Talking
    <3> QED
      BY <3>3 DEF Stage
  <2> QED
    BY <1>1, <2>1 DEF StagesKept
<1> QED
  BY <1>4, <1>5, <1>6, <1>8, <1>9, <1>10 DEF HelloInv

-----------------------------------------------------------------------------
(* The end.                                                                *)

(* Something is pending for whoever has a goodbye to say, and while ticks  *)
(* are few no later than its exit.                                         *)
LEMMA ExitAwaited ==
  ASSUME HelloInv, status = "running", ~Shared, NEW h \in Polite
  PROVE  /\ Pending # {}
         /\ ExitTick(h) < Exact => \E t \in Pending : t <= ExitTick(h)
<1>1. HelloTypes /\ AllFiringOnTime /\ Stage(h)
  BY DEF HelloInv, StagesKept
<1>2. /\ h \in Hellos /\ GoodbyeOf(h) \in Goodbyes
      /\ Written(h) = Capacity(GoodbyeOf(h)) /\ Written(h) \in Nat
      /\ ExitTick(h) \in Nat /\ GoodbyeTick(h) <= ExitTick(h)
      /\ \A n \in Nat : n <= Written(h) =>
              WrittenAt(h, n) \in Nat /\ WrittenAt(h, n) <= ExitTick(h)
  BY <1>1, ExitAt DEF HelloTypes
<1>3. /\ \A e \in events : e.tick \in Pending
      /\ \A x \in exits : x.tick \in Pending
  BY DEF Pending
<1>4. CASE Talking(h)
  <2>1. PICK e \in events : e.obj = h
    BY <1>1, <1>2, <1>4 DEF AllFiringOnTime, FiringOnTime, Talking, Scheduled
  <2>2. PICK w, n, all : w = params.time_to_wait[h] /\ n = Fired(h) /\ all = Total(h)
    OBVIOUS
  <2>3. e.tick = w * (n + 1) /\ 0 <= n /\ n < all
    BY <1>1, <1>2, <2>1, <2>2 DEF AllFiringOnTime, FiringOnTime
  <2>4. w \in Nat /\ all \in Nat /\ GoodbyeTick(h) = w * all
    BY <1>1, <1>2, <2>2, HelloParameters DEF HelloTypes, GoodbyeTick
  <2>5. n \in Int
    BY <1>1, <1>2, <2>2, HelloParameters DEF HelloTypes, Fired
  <2>6. w * (n + 1) <= w * all /\ w * (n + 1) \in Nat /\ w * all \in Nat
    BY <2>3, <2>4, <2>5
  <2>7. e.tick <= ExitTick(h)
    BY <1>2, <2>3, <2>4, <2>6
  <2> QED
    BY <1>3, <2>1, <2>7
<1>5. CASE Writing(h)
  <2>1. PICK e \in events : e.obj = GoodbyeOf(h)
    BY <1>5 DEF Writing, Scheduled
  <2>2. PICK used : used = bufferUsed(GoodbyeOf(h))
    OBVIOUS
  <2>3. used < Capacity(GoodbyeOf(h)) /\ Matches(e.tick, WrittenAt(h, used))
    BY <1>5, <2>1, <2>2 DEF Writing
  <2>4. used \in Nat
    <3>1. buffer[GoodbyeOf(h)] \in Seq(Bytes)
      BY <1>1, <1>2 DEF HelloTypes
    <3> QED
      BY <2>2, <3>1 DEF bufferUsed
  <2>5. WrittenAt(h, used) \in Nat /\ WrittenAt(h, used) <= ExitTick(h)
    BY <1>2, <2>3, <2>4
  <2>6. ExitTick(h) < Exact => e.tick <= ExitTick(h)
    BY <1>2, <2>3, <2>5, ExactType DEF Matches
  <2> QED
    BY <1>3, <2>1, <2>6
<1>6. CASE Said(h)
  <2>1. PICK x \in exits : ExitOf(x, h)
    BY <1>6 DEF Said
  <2>2. ExitTick(h) < Exact => x.tick = ExitTick(h)
    BY <2>1 DEF ExitOf, Matches
  <2> QED
    BY <1>2, <1>3, <2>1, <2>2
<1> QED
  BY <1>1, <1>4, <1>5, <1>6 DEF Stage

(* An exit that is on time: of one whose goodbye is written first.         *)
FirstExit ==
  \E h \in Polite, x \in exits :
    /\ \A k \in Polite : ExitTick(h) <= ExitTick(k)
    /\ curTick = ExitTick(h)
    /\ x.cause = Repeated(h, Written(h))

(* All have fired as often as they have to, and nobody says goodbye.       *)
AllQuiet ==
  /\ Polite = {}
  /\ \A h \in Hellos :
       curTick >= params.time_to_wait[h] * params.number_of_fires[h]

(* That some exit is due while ticks are few.                              *)
SomeDue ==
  \A h \in Polite :
    (\A k \in Polite : ExitTick(h) <= ExitTick(k)) => ExitTick(h) < Exact

(* These are what ExitsOnTime asks for.                                    *)
LEMMA OnTime ==
  (status = "ended" /\ ~Shared /\ SomeDue => FirstExit \/ AllQuiet)
    => ExitsOnTime
<1>1. SUFFICES ASSUME status = "ended", ~Shared, SomeDue => FirstExit \/ AllQuiet
               PROVE  ExitsOnTime
  BY DEF ExitsOnTime
<1>2. SUFFICES
        ASSUME \A k \in {d \in Polite : \A o \in Polite : ExitTick(d) <= ExitTick(o)} :
                 ExitTick(k) < 2^FloatBits
        PROVE  IF Polite = {}
               THEN \A k \in Hellos :
                      curTick >= params.time_to_wait[k] * params.number_of_fires[k]
               ELSE
               \E k \in {d \in Polite : \A o \in Polite : ExitTick(d) <= ExitTick(o)},
                  x \in exits :
                 /\ curTick = ExitTick(k)
                 /\ x.cause = Repeated(k, Written(k))
  BY DEF ExitsOnTime, Polite, Repeated
<1>3. SomeDue
  BY <1>2 DEF SomeDue, Exact
<1>4. CASE FirstExit
  BY <1>4 DEF FirstExit
<1>5. CASE AllQuiet
  BY <1>5 DEF AllQuiet
<1> QED
  BY <1>1, <1>3, <1>4, <1>5

(* ExitsOnTime in these words.                                             *)
EndsOnTime == status = "ended" /\ ~Shared /\ SomeDue => FirstExit \/ AllQuiet

(* What both ways to end leave of the invariant.                           *)
LEMMA EndingKeeps ==
  ASSUME HelloInv, status' = "ended", curTick' \in Nat, curTick <= curTick',
         exits' \subseteq exits,
         UNCHANGED <<params, events, timesLeft, message, buffer>>
  PROVE  HelloInv'
<1>1. HelloTypes /\ BuffersKept /\ AllFiringOnTime /\ OnlyNamed
  BY DEF HelloInv
<1>2. HelloTypes'
  BY <1>1 DEF HelloTypes
<1>3. BuffersKept'
  BY <1>1, ParametersStay DEF BuffersKept, bufferUsed
<1>4. AllFiringOnTime'
  <2>1. ASSUME NEW h \in Hellos
        PROVE  FiringOnTime(h)'
    <3>1. EventsOf(h)' = EventsOf(h)
      BY DEF EventsOf
    <3> QED
      BY <1>1, <3>1, FiringStays DEF AllFiringOnTime
  <2> QED
    BY <2>1 DEF AllFiringOnTime
<1>5. OnlyNamed'
  BY <1>1, ParametersStay DEF OnlyNamed
<1>6. NothingPassed' /\ StagesKept'
  BY DEF NothingPassed, StagesKept
<1> QED
  BY <1>2, <1>3, <1>4, <1>5, <1>6 DEF HelloInv

(* The exit taken is the first that is due, since nothing pending is       *)
(* before it.                                                              *)
LEMMA ExitStep ==
  ASSUME HelloInv, Exit
  PROVE  HelloInv' /\ EndsOnTime' /\ status' = "ended"
<1>1. PICK x \in exits : /\ IsNext(x.tick)
                         /\ curTick' = x.tick
                         /\ exits' = {x}
  BY DEF Exit
<1>2. /\ status = "running" /\ status' = "ended"
      /\ UNCHANGED <<params, events, timesLeft, message, buffer>>
  BY DEF Exit
<1>3. HelloTypes /\ NothingPassed
  BY DEF HelloInv
<1>4. x.tick \in Nat /\ x.tick \in Pending
  BY <1>3 DEF HelloTypes, Pending
<1>5. HelloInv'
  <2>1. curTick <= curTick'
    BY <1>1, <1>2, <1>3, <1>4 DEF NothingPassed
  <2> QED
    BY <1>1, <1>2, <1>4, <2>1, EndingKeeps
<1>6. ASSUME ~Shared, SomeDue
      PROVE  FirstExit'
  <2>1. PICK h \in Polite : ExitOf(x, h)
    BY <1>2, <1>6 DEF HelloInv, StagesKept
  <2>2. \A k \in Polite : ExitTick(k) \in Nat
    BY <1>3, ExitAt DEF HelloTypes
  <2>3. PICK d \in Polite : \A k \in Polite : ExitTick(d) <= ExitTick(k)
    <3>1. PICK S : S = {ExitTick(k) : k \in Polite}
      OBVIOUS
    <3>2. S \subseteq Nat /\ S # {}
      BY <2>1, <2>2, <3>1
    <3>3. PICK n \in S : \A m \in S : n <= m
      BY <3>2, LeastNumber
    <3> QED
      BY <3>1, <3>3
  <2>4. ExitTick(d) < Exact
    BY <1>6, <2>3 DEF SomeDue
  <2>5. PICK t \in Pending : t <= ExitTick(d)
    BY <1>2, <1>6, <2>4, ExitAwaited
  <2>6. x.tick <= t
    BY <1>1, <2>5 DEF IsNext
  <2>7. x.tick <= ExitTick(d)
    <3>1. t \in Nat
      BY <1>3, <2>5 DEF HelloTypes, Pending
    <3> QED
      BY <1>4, <2>2, <2>5, <2>6, <3>1
  <2>8. x.tick = ExitTick(h)
    BY <1>4, <2>1, <2>2, <2>4, <2>7, ExactType DEF ExitOf, Matches
  <2>9. \A k \in Polite : ExitTick(h) <= ExitTick(k)
    BY <2>2, <2>3, <2>7, <2>8
  <2>10. x.cause = Repeated(h, Written(h))
    BY <2>1 DEF ExitOf
  <2>11. /\ Polite' = Polite
         /\ \A k : ExitTick(k)' = ExitTick(k) /\ Written(k)' = Written(k)
    BY <1>2, ParametersStay
  <2>12. /\ \A k \in Polite' : ExitTick(h)' <= ExitTick(k)'
         /\ curTick' = ExitTick(h)'
         /\ x.cause = Repeated(h, Written(h)')
         /\ h \in Polite' /\ x \in exits'
    BY <1>1, <2>8, <2>9, <2>10, <2>11
  <2> QED
    BY <2>12 DEF FirstExit
<1>7. (SomeDue' <=> SomeDue) /\ (Shared' <=> Shared)
  BY <1>2, ParametersStay DEF SomeDue
<1>8. EndsOnTime'
  BY <1>6, <1>7 DEF EndsOnTime
<1> QED
  BY <1>2, <1>5, <1>8

(* Without anything pending all have fired and nobody has a goodbye to     *)
(* say.                                                                    *)
LEMMA LimitStep ==
  ASSUME HelloInv, LimitReached
  PROVE  HelloInv' /\ EndsOnTime' /\ status' = "ended"
<1>1. /\ status = "running" /\ Pending = {} /\ status' = "ended"
      /\ UNCHANGED <<params, curTick, events, exits, timesLeft, message, buffer>>
  BY DEF LimitReached
<1>2. HelloTypes /\ AllFiringOnTime
  BY DEF HelloInv
<1>3. curTick \in Nat
  BY <1>2 DEF HelloTypes
<1>4. HelloInv'
  BY <1>1, <1>3, EndingKeeps
<1>5. ASSUME ~Shared
      PROVE  AllQuiet'
  <2>1. Polite' = {}
    <3>1. Polite = {}
      BY <1>1, <1>5, ExitAwaited
    <3> QED
      BY <1>1, <3>1, ParametersStay
  <2>2. ASSUME NEW h \in Hellos
        PROVE  curTick >= params.time_to_wait[h] * params.number_of_fires[h]
    <3>1. ~Scheduled(h)
      BY <1>1 DEF Scheduled, Pending
    <3>2. PICK w, n, all : /\ w = params.time_to_wait[h]
                           /\ n = params.number_of_fires[h] /\ all = Total(h)
      OBVIOUS
    <3>3. w \in Nat /\ n \in Int /\ all \in Nat /\ all >= n /\ GoodbyeTick(h) = w * all
      BY <1>2, <3>2, HelloParameters DEF HelloTypes, GoodbyeTick
    <3>4. Fired(h) = Total(h)
      <4>1. /\ Fired(h) <= Total(h) /\ ~(Fired(h) < Total(h))
        BY <1>2, <3>1 DEF AllFiringOnTime, FiringOnTime
      <4>2. Fired(h) \in Int /\ Total(h) \in Int
        BY <1>2, HelloParameters DEF HelloTypes, Fired
      <4> QED
        BY <4>1, <4>2
    <3>5. curTick >= w * all
      BY <1>2, <3>3, <3>4 DEF AllFiringOnTime, FiringOnTime
    <3>6. w * n <= w * all /\ w * n \in Int /\ w * all \in Int
      BY <3>3
    <3> QED
      BY <1>3, <3>2, <3>5, <3>6
  <2> QED
    BY <1>1, <2>1, <2>2 DEF AllQuiet
<1>6. Shared' <=> Shared
  BY <1>1, ParametersStay
<1>7. EndsOnTime'
  BY <1>5, <1>6 DEF EndsOnTime
<1> QED
  BY <1>1, <1>4, <1>7

-----------------------------------------------------------------------------
(* Theorems.                                                               *)

(* The inductive invariant.                                                *)
EndingInv == HelloInv /\ OnlySharedOrLatePanics /\ EndsOnTime

(* Every step keeps it.                                                    *)
LEMMA NextEnding ==
  ASSUME EndingInv, Next
  PROVE  EndingInv'
<1>1. HelloInv
  BY DEF EndingInv
<1>2. ASSUME NEW h \in Hellos, FireAgain(h)
      PROVE  EndingInv'
  <2>1. HelloInv'
    BY <1>1, <1>2, FireAgainStep
  <2>2. status' = "running"
    BY <1>2 DEF FireAgain, Fire
  <2> QED
    BY <2>1, <2>2 DEF EndingInv, OnlySharedOrLatePanics, EndsOnTime
<1>3. ASSUME NEW h \in Hellos, DoneFiring(h)
      PROVE  EndingInv'
  <2>1. HelloInv'
    BY <1>1, <1>3, DoneFiringStep
  <2>2. status' = "running"
    BY <1>3 DEF DoneFiring, Fire
  <2> QED
    BY <2>1, <2>2 DEF EndingInv, OnlySharedOrLatePanics, EndsOnTime
<1>4. ASSUME NEW h \in Hellos, SayGoodbye(h)
      PROVE  EndingInv'
  <2>1. HelloInv' /\ OnlySharedOrLatePanics'
    BY <1>1, <1>4, SayGoodbyeStep
  <2>2. status' # "ended"
    BY <1>4 DEF SayGoodbye, Fire, fillBuffer
  <2> QED
    BY <2>1, <2>2 DEF EndingInv, EndsOnTime
<1>5. ASSUME NEW g \in Goodbyes, ProcessGoodbye(g)
      PROVE  EndingInv'
  <2>1. HelloInv' /\ OnlySharedOrLatePanics'
    BY <1>1, <1>5, ProcessGoodbyeStep
  <2>2. status' # "ended"
    BY <1>5 DEF ProcessGoodbye, Fire, fillBuffer
  <2> QED
    BY <2>1, <2>2 DEF EndingInv, EndsOnTime
<1>6. CASE Exit
  BY <1>1, <1>6, ExitStep DEF EndingInv, OnlySharedOrLatePanics
<1>7. CASE LimitReached
  BY <1>1, <1>7, LimitStep DEF EndingInv, OnlySharedOrLatePanics
<1> QED
  BY <1>2, <1>3, <1>4, <1>5, <1>6, <1>7 DEF Next

(* So does one that changes nothing.                                       *)
LEMMA StutterEnding ==
  ASSUME EndingInv, UNCHANGED vars
  PROVE  EndingInv'
<1>1. /\ params' = params /\ curTick' = curTick /\ events' = events
      /\ exits' = exits /\ timesLeft' = timesLeft /\ message' = message
      /\ buffer' = buffer /\ status' = status
  BY DEF vars
<1>2. HelloInv /\ OnlySharedOrLatePanics /\ EndsOnTime
  BY DEF EndingInv
<1>3. /\ \A h : Total(h)' = Total(h) /\ GoodbyeTick(h)' = GoodbyeTick(h)
      /\ \A h : GoodbyeOf(h)' = GoodbyeOf(h) /\ ExitTick(h)' = ExitTick(h)
      /\ \A h : Written(h)' = Written(h) /\ Fired(h)' = Fired(h)
      /\ \A g : Capacity(g)' = Capacity(g) /\ bufferUsed(g)' = bufferUsed(g)
      /\ \A o : EventsOf(o)' = EventsOf(o)
      /\ Polite' = Polite /\ (Shared' <=> Shared)
  BY <1>1, ParametersStay DEF Fired, bufferUsed, EventsOf
<1>4. HelloTypes' /\ BuffersKept' /\ NothingPassed' /\ OnlyNamed'
  BY <1>1, <1>2, <1>3
  DEF HelloInv, HelloTypes, BuffersKept, NothingPassed, OnlyNamed, Pending
<1>5. AllFiringOnTime'
  <2>1. ASSUME NEW h \in Hellos
        PROVE  FiringOnTime(h)'
    <3>1. HelloTypes /\ FiringOnTime(h)
      BY <1>2 DEF HelloInv, AllFiringOnTime
    <3>2. curTick' \in Nat /\ curTick <= curTick'
      BY <1>1, <3>1 DEF HelloTypes
    <3> QED
      BY <1>1, <1>3, <3>1, <3>2, FiringStays
  <2> QED
    BY <2>1 DEF AllFiringOnTime
<1>6. StagesKept'
  <2>1. SUFFICES ASSUME ~Shared, status = "running"
                 PROVE  /\ \A h \in Polite : Stage(h)'
                        /\ \A x \in exits : \E h \in Polite : ExitOf(x, h)'
    BY <1>1, <1>3 DEF StagesKept
  <2>2. /\ \A h \in Polite : Stage(h)
        /\ \A x \in exits : \E h \in Polite : ExitOf(x, h)
    BY <1>2, <2>1 DEF HelloInv, StagesKept
  <2>3. ASSUME NEW h \in Polite
        PROVE  Stage(h)'
    <3>1. PICK g : g = GoodbyeOf(h) /\ g = GoodbyeOf(h)'
      BY <1>3
    <3>2. EventsOf(GoodbyeOf(h))' = EventsOf(GoodbyeOf(h))
      <4>1. EventsOf(g)' = EventsOf(g)
        BY <1>3
      <4> QED
        BY <3>1, <4>1
    <3> QED
      BY <1>1, <1>3, <2>2, <3>2, StageStays
  <2>4. \A x \in exits : \E h \in Polite : ExitOf(x, h)'
    BY <1>1, <2>2, ParametersStay
  <2> QED
    BY <2>3, <2>4
<1>7. HelloInv'
  BY <1>4, <1>5, <1>6 DEF HelloInv
<1>8. OnlySharedOrLatePanics'
  BY <1>1, <1>2, <1>3 DEF OnlySharedOrLatePanics
<1>9. (SomeDue' <=> SomeDue) /\ (FirstExit' <=> FirstExit) /\ (AllQuiet' <=> AllQuiet)
  BY <1>1, <1>3 DEF SomeDue, FirstExit, AllQuiet
<1>10. EndsOnTime'
  BY <1>1, <1>2, <1>3, <1>9 DEF EndsOnTime
<1> QED
  BY <1>7, <1>8, <1>10 DEF EndingInv

(* It holds in every state that can be reached.                            *)
LEMMA EndingInvariant == Spec => []EndingInv
<1>1. Init => EndingInv
  <2>1. SUFFICES ASSUME Init
                 PROVE  EndingInv
    OBVIOUS
  <2>2. HelloInv
    BY <2>1, InitHello
  <2>3. status = "running"
    BY <2>1 DEF Init
  <2> QED
    BY <2>2, <2>3 DEF EndingInv, OnlySharedOrLatePanics, EndsOnTime
<1>2. EndingInv /\ [Next]_vars => EndingInv'
  BY NextEnding, StutterEnding
<1> QED
  BY <1>1, <1>2, PTL DEF Spec

(* Types: of parameters, ticks, events and exits, whatever is shared.      *)
THEOREM HelloTypeCorrect == Spec => []HelloTypes
<1>1. EndingInv => HelloTypes
  BY DEF EndingInv, HelloInv
<1> QED
  BY <1>1, EndingInvariant, PTL

(* No buffer is written past its size but one (goodbye_object.cc:74-79),   *)
(* whoever shares it and whatever its size, none at all included; and the  *)
(* assertion of fillBuffer, that there is a message, never fails.          *)
THEOREM GoodbyeBuffersKept == Spec => []BuffersKept
<1>1. EndingInv => BuffersKept
  BY DEF EndingInv, HelloInv
<1> QED
  BY <1>1, EndingInvariant, PTL

(* A HelloObject fires at whole numbers of its wait, as often as it is to  *)
(* and once at least, whatever the others do (hello_object.cc:51-62).      *)
THEOREM HelloFiresOnTime == Spec => []AllFiringOnTime
<1>1. EndingInv => AllFiringOnTime
  BY DEF EndingInv, HelloInv
<1> QED
  BY <1>1, EndingInvariant, PTL

(* The simulation fails only where two HelloObjects share a GoodbyeObject, *)
(* whose event is then scheduled twice, or where ticks are too many for a  *)
(* float, so that fillBuffer may schedule for one that has passed.         *)
THEOREM HelloOnlySharedOrLatePanics == Spec => []OnlySharedOrLatePanics
<1>1. EndingInv => OnlySharedOrLatePanics
  BY DEF EndingInv
<1> QED
  BY <1>1, EndingInvariant, PTL

(* The simulation ends at the tick that the parameters say, with the first *)
(* goodbye written to the last byte, while ticks are few enough for a      *)
(* float; or, without goodbyes, when all have fired.                       *)
THEOREM HelloExitsOnTime == Spec => []ExitsOnTime
<1>1. EndingInv => ExitsOnTime
  BY OnTime DEF EndingInv, EndsOnTime
<1> QED
  BY <1>1, EndingInvariant, PTL

=============================================================================
