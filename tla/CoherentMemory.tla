--------------------------- MODULE CoherentMemory ---------------------------
(***************************************************************************)
(* What the caches promise the CPUs: one memory.  A CPU's cache sees the   *)
(* value last stored to a line or nothing of it; a load is answered with   *)
(* what the cache sees, and a store takes effect while no other cache      *)
(* sees the line.                                                          *)
(***************************************************************************)
CONSTANTS Cache, Addr, Data, ZeroBlock, Nothing

VARIABLES
  pending,   \* [Cache -> [Addr -> "None", "Load" or "Store"]]
  view,      \* [Cache -> [Addr -> Data or Nothing]]: what a load would return
  value      \* [Addr -> Data]: what the last store wrote

vars == <<pending, view, value>>

Init ==
  /\ pending = [c \in Cache |-> [a \in Addr |-> "None"]]
  /\ view = [c \in Cache |-> [a \in Addr |-> Nothing]]
  /\ value = [a \in Addr |-> ZeroBlock]

Issue(c, a, type) ==
  /\ pending[c][a] = "None"
  /\ pending' = [pending EXCEPT ![c][a] = type]
  /\ UNCHANGED <<view, value>>

Answer(c, a, type) ==
  /\ pending[c][a] = type
  /\ pending' = [pending EXCEPT ![c][a] = "None"]

Load(c, a) ==
  /\ Answer(c, a, "Load")
  /\ view' = [view EXCEPT ![c][a] = value[a]]
  /\ UNCHANGED value

Store(c, a, d) ==
  /\ Answer(c, a, "Store")
  /\ \A x \in Cache \ {c} : view[x][a] = Nothing
  /\ view' = [view EXCEPT ![c][a] = d]
  /\ value' = [value EXCEPT ![a] = d]

Lose(c, a) ==
  /\ view' = [view EXCEPT ![c][a] = Nothing]
  /\ UNCHANGED <<pending, value>>

Next ==
  \E c \in Cache, a \in Addr :
    \/ Issue(c, a, "Load") \/ Issue(c, a, "Store")
    \/ Load(c, a) \/ Lose(c, a)
    \/ \E d \in Data : Store(c, a, d)

Spec == Init /\ [][Next]_vars

=============================================================================
