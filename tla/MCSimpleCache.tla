--------------------------- MODULE MCSimpleCache ---------------------------
(***************************************************************************)
(* Instances of the SimpleCache for TLC.                                   *)
(***************************************************************************)
EXTENDS SimpleCache

(* A block of two words.  The CPU accesses the first word or the block.    *)
Halves == {"low", "high"}
LowOrWhole == {{"low"}, {"low", "high"}}

=============================================================================
