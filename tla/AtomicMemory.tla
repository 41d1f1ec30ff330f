---------------------------- MODULE AtomicMemory ----------------------------
(***************************************************************************)
(* What a cache between a CPU and memory promises: each port has at most   *)
(* one access under way, and the access takes effect at one moment between *)
(* its acceptance and its answer.                                          *)
(***************************************************************************)
EXTENDS Naturals

CONSTANTS
  Port,      \* the ports of the CPU
  Packet,    \* the accesses: cmd, addr, words, and the data to write or read
  Word,      \* the words of a block
  Value      \* the contents memory may have

VARIABLES
  value,     \* contents of memory, [Addr -> [Word -> Data]]
  access     \* [Port -> set with the access under way]

vars == <<value, access>>

Access(pkt, done) == [pkt |-> pkt, done |-> done]

(* The words of an access take effect on a block, or are read from it.     *)
Written(pkt, block) ==
  [w \in Word |-> IF w \in pkt.words THEN pkt.data[w] ELSE block[w]]
Read(pkt, block) ==
  [pkt EXCEPT !.data =
     [w \in Word |-> IF w \in pkt.words THEN block[w] ELSE @[w]]]

Init ==
  /\ value \in Value
  /\ access = [p \in Port |-> {}]

Accept(p) ==
  /\ access[p] = {}
  /\ \E pkt \in {pkt \in Packet : pkt.port = p} :
       access' = [access EXCEPT ![p] = {Access(pkt, FALSE)}]
  /\ UNCHANGED value

Perform(p) ==
  \E x \in access[p] :
    /\ ~x.done
    /\ \/ /\ x.pkt.cmd = "WriteReq"
          /\ value' = [value EXCEPT ![x.pkt.addr] = Written(x.pkt, @)]
          /\ access' = [access EXCEPT ![p] = {Access(x.pkt, TRUE)}]
       \/ /\ x.pkt.cmd = "ReadReq"
          /\ access' = [access EXCEPT ![p] =
                          {Access(Read(x.pkt, value[x.pkt.addr]), TRUE)}]
          /\ UNCHANGED value

Answer(p) ==
  /\ \E x \in access[p] : x.done
  /\ access' = [access EXCEPT ![p] = {}]
  /\ UNCHANGED value

(* A functional write takes effect at once.                                *)
FunctionalWrite ==
  /\ \E pkt \in Packet :
       pkt.cmd = "WriteReq"
         /\ value' = [value EXCEPT ![pkt.addr] = Written(pkt, @)]
  /\ UNCHANGED access

Next == FunctionalWrite \/ \E p \in Port : Accept(p) \/ Perform(p) \/ Answer(p)

Spec == Init /\ [][Next]_vars

=============================================================================
