------------------------------- MODULE MCMSI -------------------------------
(***************************************************************************)
(* Instances of the MSI protocol for TLC.                                  *)
(***************************************************************************)
EXTENDS MSIProperties, TLC

CONSTANTS c1, c2, a1, a2

AnyRequest == Cache \X Addr \X RequestType

(* Two lines, crosswise: each cache stores to one and loads the other.     *)
Crossed == {<<c1, a1, "Store">>, <<c1, a2, "Load">>,
            <<c2, a2, "Store">>, <<c2, a1, "Load">>}

(* The bound on the run of three caches: of their requests and evictions   *)
(* at most three are under way at a time, such as two puts that cross a    *)
(* request, or the requests of all.                                        *)
MaxUnderWay == 3
FewUnderWay ==
  Cardinality({<<c, a>> \in Cache \X Addr : outstanding[c][a] # "None"})
    + Cardinality({<<c, a>> \in Cache \X Addr :
                     LineState(c, a) \in {"MI_A", "SI_A", "II_A"}})
    <= MaxUnderWay

(* The caches are interchangeable: no action and no property names one.    *)
CacheSymmetry == Permutations(Cache)

=============================================================================
