------------------------------- MODULE MSIMsg -------------------------------
(***************************************************************************)
(* Messages and virtual networks of the MSI protocol (MSI-msg.sm, and the  *)
(* MessageBuffers that msi_caches.py connects).                            *)
(*                                                                         *)
(* Every buffer is created with ordered = True and the network is          *)
(* point-to-point, so what one controller sends another on one virtual     *)
(* network arrives in order; nothing relates messages of different senders *)
(* or of different virtual networks.  A channel is therefore one FIFO      *)
(* sequence per (sender, receiver, virtual network).  A receiver may look  *)
(* at the head of any of them, except that the requests of all caches meet *)
(* in the directory's requestFromCache: a request that the directory       *)
(* stalls there holds back the ones that arrived after it, whoever sent    *)
(* them.  (Responses are never stalled, and forwards have one sender, so   *)
(* the buffers they arrive in need no model of their own.)                 *)
(***************************************************************************)
EXTENDS Integers, Sequences, FiniteSets

CONSTANTS
  Cache,       \* the L1Cache controllers
  Directory,   \* the one Directory controller
  Addr,        \* line addresses
  Data,        \* contents of a block
  ZeroBlock    \* contents of a new block and of memory at start

ASSUME MSIConstants ==
  /\ IsFiniteSet(Cache)
  /\ Directory \notin Cache
  /\ ZeroBlock \in Data

VARIABLES
  requestToDir,     \* [Cache -> Seq]: virtual network 0, cache to directory
  requestFromCache, \* Seq: requests that arrived at the directory
  forwardToCache,   \* [Cache -> Seq]: virtual network 1, directory to cache
  responseToDir,    \* [Cache -> Seq]: virtual network 2, cache to directory
  responseToCache,  \* [Cache -> [Machine -> Seq]]: virtual network 2,
                    \*   receiver, then sender
  panicked          \* <<>>, or <<state, event>> of the assertion failure or
                    \*   "Invalid transition" panic that ended the simulation

channels == <<requestToDir, requestFromCache, forwardToCache, responseToDir,
              responseToCache>>

Machine == Cache \cup {Directory}

(* Requests to the directory; only a PutM fills DataBlk.                   *)
RequestMsg ==
  [Type : {"GetS", "GetM", "PutS", "PutM"}, addr : Addr, Requestor : Cache,
   DataBlk : Data]

(* What the directory puts on the forward network: the requests it passes  *)
(* on for a cache, and its own acknowledgement of a put.                   *)
ForwardMsg ==
  [Type : {"GetS", "GetM", "Inv"}, addr : Addr, Requestor : Cache]
    \cup [Type : {"PutAck"}, addr : Addr, Requestor : {Directory}]

(* Data and InvAck.  The block an InvAck carries is read by nobody, so it  *)
(* is left at ZeroBlock.                                                   *)
ResponseMsg ==
  [Type : {"Data", "InvAck"}, addr : Addr, Sender : Machine, Acks : Int,
   DataBlk : Data]

CacheResponse == {m \in ResponseMsg : m.Sender \in Cache}

NoPanic == <<>>

(* A step that finds an error only records it; the simulation is over.     *)
Panic(fault) ==
  /\ panicked' = fault
  /\ UNCHANGED channels

(* The generated code panics on an event its state has no transition for;  *)
(* defined maps each event to the states that have one, stalls included.   *)
Undefined(defined, state, event) ==
  IF state \in defined[event] THEN NoPanic ELSE <<state, event>>

(* The network delivers a request to the directory's buffer.               *)
Deliver(c) ==
  /\ requestToDir[c] # <<>>
  /\ requestFromCache' = Append(requestFromCache, Head(requestToDir[c]))
  /\ requestToDir' = [requestToDir EXCEPT ![c] = Tail(@)]
  /\ UNCHANGED <<forwardToCache, responseToDir, responseToCache, panicked>>

ChannelsTypeOK ==
  /\ requestToDir \in [Cache -> Seq(RequestMsg)]
  /\ requestFromCache \in Seq(RequestMsg)
  /\ forwardToCache \in [Cache -> Seq(ForwardMsg)]
  /\ responseToDir \in [Cache -> Seq(CacheResponse)]
  /\ responseToCache \in [Cache -> [Machine -> Seq(ResponseMsg)]]

ChannelsInit ==
  /\ requestToDir = [c \in Cache |-> <<>>]
  /\ requestFromCache = <<>>
  /\ forwardToCache = [c \in Cache |-> <<>>]
  /\ responseToDir = [c \in Cache |-> <<>>]
  /\ responseToCache = [c \in Cache |-> [s \in Machine |-> <<>>]]
  /\ panicked = NoPanic

=============================================================================
