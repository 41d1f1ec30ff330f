-------------------------------- MODULE MSI --------------------------------
(***************************************************************************)
(* The MSI protocol of part 3: the L1 caches and the directory, composed   *)
(* over the network.  MSIProperties states what makes it correct.          *)
(***************************************************************************)
EXTENDS MSICache, MSIDir

vars == <<cacheVars, dirVars, channels, panicked>>

Init == CacheInit /\ DirInit /\ ChannelsInit

(* A failed assertion or an invalid transition ends the simulation.        *)
PanicStep ==
  \E fault \in CacheFaults \cup DirFaults :
    Panic(fault) /\ UNCHANGED <<cacheVars, dirVars>>

Next ==
  /\ panicked = NoPanic
  /\ \/ CacheNext /\ UNCHANGED dirVars
     \/ DirNext /\ UNCHANGED cacheVars
     \/ \E c \in Cache : Deliver(c) /\ UNCHANGED <<cacheVars, dirVars>>
     \/ PanicStep

Spec == Init /\ [][Next]_vars

(* A state, and the event or the assertion that ended the simulation there. *)
Fault ==
  (CacheState \cup DirState)
    \X (DOMAIN CacheTransitions \cup DOMAIN DirTransitions
         \cup {"assert of response_in", "assert PutS of a sharer",
               "error message type"})

TypeOK ==
  /\ CacheTypeOK
  /\ DirTypeOK
  /\ ChannelsTypeOK
  /\ panicked \in Fault \cup {NoPanic}

-----------------------------------------------------------------------------
(* Every controller is woken while a buffer of its has a message, and the  *)
(* network and memory deliver what they accept.  Response buffers are      *)
(* never stalled and serve senders in order of arrival, so every channel   *)
(* of theirs is served.  Whether a stalled forward lets the mandatory      *)
(* queue through is not assumed.                                           *)

ForwardStalled(c) ==
  /\ forwardToCache[c] # <<>>
  /\ LET m == Head(forwardToCache[c]) IN
       \/ m.Type \in {"GetS", "GetM"} /\ LineState(c, m.addr) \in Stalled
       \/ m.Type = "Inv" /\ LineState(c, m.addr) = "IS_D"

Running(A) == panicked = NoPanic /\ A

CacheFairness(c) ==
  /\ WF_vars(Running(/\ \E s \in Machine : ResponseStep(c, s)
                     /\ UNCHANGED dirVars))
  /\ WF_vars(Running(ForwardStep(c) /\ UNCHANGED dirVars))
  /\ WF_vars(Running(~ForwardStalled(c) /\ MandatoryStep(c)
                       /\ UNCHANGED dirVars))

DirFairness ==
  /\ WF_vars(Running(RequestStep /\ UNCHANGED cacheVars))
  /\ WF_vars(Running((\E c \in Cache : S_D_Data(c)) /\ UNCHANGED cacheVars))
  /\ WF_vars(Running((\E m \in memQueue : MemoryStep(m))
                       /\ UNCHANGED cacheVars))
  /\ \A c \in Cache :
       WF_vars(Running(Deliver(c) /\ UNCHANGED <<cacheVars, dirVars>>))

FairSpec == Spec /\ DirFairness /\ \A c \in Cache : CacheFairness(c)

=============================================================================
