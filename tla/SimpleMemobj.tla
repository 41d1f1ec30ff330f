---------------------------- MODULE SimpleMemobj ----------------------------
(***************************************************************************)
(* The SimpleMemobj of part 2: a blocking object between the two ports of  *)
(* a CPU and a memory.  Packets cross the ports by calls; who refuses one  *)
(* owes the sender a retry.                                                *)
(*                                                                         *)
(* A call may come back: the CPU may send its next request while it takes  *)
(* a response or a retry.  handleResponse is therefore cut at its calls to *)
(* the CPU, and "calls" holds those it has still to make.                  *)
(***************************************************************************)
EXTENDS Naturals, Sequences, FiniteSets

CONSTANTS
  Refusing,        \* ports at which the CPU may refuse a response
  MaxUnanswered    \* bound: requests of one port accepted and not answered

Port == {"inst_port", "data_port"}

ASSUME MemobjConstants ==
  /\ Refusing \subseteq Port
  /\ MaxUnanswered \in Nat \ {0}

VARIABLES
  blocked,            \* a request is on the memory side
  needRetry,          \* [Port -> BOOLEAN]: CPUSidePort::needRetry
  blockedPacket,      \* [Port -> Packet or None]: CPUSidePort::blockedPacket
  memBlockedPacket,   \* MemSidePort::blockedPacket
  calls,              \* calls to the CPU that handleResponse has still to make
  refused,            \* [Port -> BOOLEAN]: the CPU's request waits for a retry
  unanswered,         \* [Port -> Nat]: the CPU's requests accepted so far
  atMemory,           \* [Port -> Nat]: those memory has accepted
  panicked            \* the panic or assertion that ended the simulation

objectVars == <<blocked, needRetry, blockedPacket, memBlockedPacket>>
peerVars == <<refused, unanswered, atMemory>>
vars == <<objectVars, calls, peerVars, panicked>>

(* All that matters of a packet is isInstFetch, which names its port.      *)
Packet == Port
None == "None"
NoPanic == <<>>

Call == [fn : {"sendPacket", "trySendRetry"}, port : Port]

-----------------------------------------------------------------------------
(* MemSidePort::sendPacket: keep the packet if memory refuses it.          *)
memSendPacket(pkt, accepted) ==
  /\ memBlockedPacket' = IF accepted THEN None ELSE pkt
  /\ atMemory' = IF accepted THEN [atMemory EXCEPT ![pkt] = @ + 1]
                             ELSE atMemory

(* CPUSidePort::sendPacket: keep the packet if the CPU refuses it.         *)
cpuSendPacket_AlwaysKept(pkt, accepted) ==               \* seeded fault
  /\ accepted \/ pkt \in Refusing
  /\ blockedPacket' = [blockedPacket EXCEPT ![pkt] = pkt]
  /\ unanswered' = IF accepted THEN [unanswered EXCEPT ![pkt] = @ - 1]
                               ELSE unanswered
cpuSendPacket(pkt, accepted) ==
  /\ accepted \/ pkt \in Refusing
  /\ blockedPacket' = [blockedPacket EXCEPT ![pkt] =
                         IF accepted THEN None ELSE pkt]
  /\ unanswered' = IF accepted THEN [unanswered EXCEPT ![pkt] = @ - 1]
                               ELSE unanswered

(* handleRequest: forward the request, or leave it with the CPU.           *)
handleRequest_NotBlocking(pkt, accepted) ==              \* seeded fault
  /\ ~blocked /\ memBlockedPacket = None
  /\ UNCHANGED blocked
  /\ memSendPacket(pkt, accepted)
handleRequest_Open(pkt, accepted) ==                     \* seeded fault
  /\ memBlockedPacket = None
  /\ blocked' = TRUE
  /\ memSendPacket(pkt, accepted)
handleRequest(pkt, accepted) ==
  /\ ~blocked /\ memBlockedPacket = None
  /\ blocked' = TRUE
  /\ memSendPacket(pkt, accepted)

(* CPUSidePort::recvTimingReq, with the retry flags it finds.              *)
recvTimingReq(p, flags, accepted) ==
  \/ /\ handleRequest(p, accepted)
     /\ needRetry' = flags
     /\ refused' = [refused EXCEPT ![p] = FALSE]
     /\ unanswered' = [unanswered EXCEPT ![p] = @ + 1]
  \/ /\ blocked
     /\ needRetry' = [flags EXCEPT ![p] = TRUE]
     /\ refused' = [refused EXCEPT ![p] = TRUE]
     /\ UNCHANGED <<blocked, memBlockedPacket, unanswered, atMemory>>

-----------------------------------------------------------------------------
Calling(fn, p) == calls # <<>> /\ Head(calls) = [fn |-> fn, port |-> p]

(* A CPU port sends its next request, on its own or within a call to it,   *)
(* but not within a response it then refuses.                              *)
SendTimingReq(p, accepted) ==
  /\ ~refused[p] /\ ~Calling("sendPacket", p)
  /\ unanswered[p] < MaxUnanswered
  /\ recvTimingReq(p, needRetry, accepted)
  /\ UNCHANGED <<blockedPacket, calls, panicked>>

(* MemSidePort::recvReqRetry: memory can take the packet it refused.       *)
RecvReqRetry(accepted) ==
  /\ calls = <<>>
  /\ memBlockedPacket # None
  /\ memSendPacket(memBlockedPacket, accepted)
  /\ UNCHANGED <<blocked, needRetry, blockedPacket, calls, refused,
                 unanswered, panicked>>

(* What handleResponse does once it has unblocked the object.              *)
afterResponse_OnePort(p) ==                              \* seeded fault
  <<[fn |-> "sendPacket", port |-> p], [fn |-> "trySendRetry", port |-> p]>>
afterResponse(p) ==
  <<[fn |-> "sendPacket", port |-> p],
    [fn |-> "trySendRetry", port |-> "inst_port"],
    [fn |-> "trySendRetry", port |-> "data_port"]>>

(* MemSidePort::recvTimingResp and handleResponse: memory answers.         *)
HandleResponse(p) ==
  /\ calls = <<>>
  /\ atMemory[p] > 0
  /\ blocked
  /\ blocked' = FALSE
  /\ atMemory' = [atMemory EXCEPT ![p] = @ - 1]
  /\ calls' = afterResponse(p)
  /\ UNCHANGED <<needRetry, blockedPacket, memBlockedPacket, refused,
                 unanswered, panicked>>

(* The response goes out.                                                  *)
SendResponse(p, accepted) ==
  /\ Calling("sendPacket", p)
  /\ blockedPacket[p] = None
  /\ cpuSendPacket(p, accepted)
  /\ calls' = Tail(calls)
  /\ UNCHANGED <<blocked, needRetry, memBlockedPacket, refused, atMemory,
                 panicked>>

(* trySendRetry, when the port is free: the CPU sends its request again    *)
(* within the call.                                                        *)
MayRetry(p) == needRetry[p] /\ blockedPacket[p] = None

SendRetryReq_Twice(p, accepted) ==                       \* seeded fault
  /\ Calling("trySendRetry", p)
  /\ MayRetry(p)
  /\ recvTimingReq(p, needRetry, accepted)
  /\ calls' = Tail(calls)
  /\ UNCHANGED <<blockedPacket, panicked>>
SendRetryReq(p, accepted) ==
  /\ Calling("trySendRetry", p)
  /\ MayRetry(p)
  /\ recvTimingReq(p, [needRetry EXCEPT ![p] = FALSE], accepted)
  /\ calls' = Tail(calls)
  /\ UNCHANGED <<blockedPacket, panicked>>

(* trySendRetry, when nobody waits or the port is not free.                *)
NoRetryReq(p) ==
  /\ Calling("trySendRetry", p)
  /\ ~MayRetry(p)
  /\ calls' = Tail(calls)
  /\ UNCHANGED <<objectVars, peerVars, panicked>>

(* CPUSidePort::recvRespRetry: the CPU can take the response it refused.   *)
RecvRespRetry(p, accepted) ==
  /\ calls = <<>>
  /\ blockedPacket[p] # None
  /\ cpuSendPacket(p, accepted)
  /\ UNCHANGED <<blocked, needRetry, memBlockedPacket, calls, refused,
                 atMemory, panicked>>

Fault ==
  {"sendPacket to the CPU", "sendPacket to memory", "handleResponse"} \X Port

(* What the panics and assertions of the object look for, at a port.       *)
Faults ==
  {<<"sendPacket to the CPU", p>> : p \in {p \in Port :
     Calling("sendPacket", p) /\ blockedPacket[p] # None}}
  \cup {<<"sendPacket to memory", p>> : p \in {p \in Port :
     ~refused[p] /\ ~blocked /\ memBlockedPacket # None}}
  \cup {<<"handleResponse", p>> : p \in {p \in Port :
     calls = <<>> /\ atMemory[p] > 0 /\ ~blocked}}

Panic ==
  /\ \E fault \in Faults : panicked' = fault
  /\ UNCHANGED <<objectVars, calls, peerVars>>

-----------------------------------------------------------------------------
Init ==
  /\ blocked = FALSE
  /\ needRetry = [p \in Port |-> FALSE]
  /\ blockedPacket = [p \in Port |-> None]
  /\ memBlockedPacket = None
  /\ calls = <<>>
  /\ refused = [p \in Port |-> FALSE]
  /\ unanswered = [p \in Port |-> 0]
  /\ atMemory = [p \in Port |-> 0]
  /\ panicked = NoPanic

PortStep(p, accepted) ==
  \/ SendTimingReq(p, accepted)
  \/ SendResponse(p, accepted)
  \/ SendRetryReq(p, accepted)
  \/ RecvRespRetry(p, accepted)

Next ==
  /\ panicked = NoPanic
  /\ \/ \E p \in Port, accepted \in BOOLEAN : PortStep(p, accepted)
     \/ \E accepted \in BOOLEAN : RecvReqRetry(accepted)
     \/ \E p \in Port : HandleResponse(p) \/ NoRetryReq(p)
     \/ Panic

Spec == Init /\ [][Next]_vars

(* A handler runs to its end, memory answers what it accepts, and who      *)
(* refuses a packet asks for it again and takes it in the end.             *)
Running(A) == panicked = NoPanic /\ A

Fairness ==
  /\ SF_vars(Running(RecvReqRetry(TRUE)))
  /\ WF_vars(Running(Panic))
  /\ \A p \in Port :
       /\ WF_vars(Running(HandleResponse(p)))
       /\ WF_vars(Running(\E accepted \in BOOLEAN : SendResponse(p, accepted)))
       /\ WF_vars(Running(\E accepted \in BOOLEAN : SendRetryReq(p, accepted)))
       /\ WF_vars(Running(NoRetryReq(p)))
       /\ SF_vars(Running(RecvRespRetry(p, TRUE)))

FairSpec == Spec /\ Fairness

-----------------------------------------------------------------------------
TypeOK ==
  /\ blocked \in BOOLEAN
  /\ needRetry \in [Port -> BOOLEAN]
  /\ blockedPacket \in [Port -> Packet \cup {None}]
  /\ memBlockedPacket \in Packet \cup {None}
  /\ calls \in Seq(Call)
  /\ refused \in [Port -> BOOLEAN]
  /\ unanswered \in [Port -> 0..MaxUnanswered]
  /\ atMemory \in [Port -> Nat]
  /\ panicked \in {NoPanic} \cup Fault

(* Where the accepted requests of port p are.                              *)
OnMemorySide(p) == atMemory[p] + (IF memBlockedPacket = p THEN 1 ELSE 0)
OnCPUSide(p) ==
  Cardinality({i \in DOMAIN calls :
                 calls[i] = [fn |-> "sendPacket", port |-> p]})
    + (IF blockedPacket[p] # None THEN 1 ELSE 0)

(* The object is blocked exactly while one request is on the memory side,  *)
(* and no request or response is lost or sent twice, however the calls     *)
(* nest and whoever refuses.                                               *)
RequestsAccounted ==
  /\ OnMemorySide("inst_port") + OnMemorySide("data_port")
       = IF blocked THEN 1 ELSE 0
  /\ \A p \in Port : unanswered[p] = OnMemorySide(p) + OnCPUSide(p)

(* The object remembers exactly the ports that wait for its retry.         *)
RetryOwed == \A p \in Port : needRetry[p] <=> refused[p]

(* The memory side is never asked to send while it holds a packet, no      *)
(* response comes while the object is not blocked, and a CPU port that     *)
(* takes its responses is never sent one too many.                         *)
OnlyRefusingPortsPanic ==
  panicked # NoPanic =>
    panicked[1] = "sendPacket to the CPU" /\ panicked[2] \in Refusing

(* The request of port p does not wait for a retry that never comes.       *)
Retried(p) ==
  \/ []<>~refused[p]
  \/ []<>(panicked # NoPanic)
  \/ []<><<\E accepted \in BOOLEAN : SendRetryReq(p, accepted)>>_vars

(* A port that takes its responses gets its retries, whatever the other    *)
(* port refuses and however often memory does.                             *)
RetriesSentIfTaken == \A p \in Port \ Refusing : Retried(p)

(* memoryobject.rst on recvTimingReq: "If this function returns false, at  *)
(* some point in the future this object must call sendReqRetry".           *)
RetriesSent == \A p \in Port : Retried(p)

=============================================================================
