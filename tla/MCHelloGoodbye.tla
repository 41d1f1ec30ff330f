--------------------------- MODULE MCHelloGoodbye ---------------------------
(***************************************************************************)
(* Two HelloObjects, with a GoodbyeObject each or with one between them.   *)
(* Floats have three bits: from tick 8 on only every second one is exact,  *)
(* from 16 on every fourth.                                                *)
(***************************************************************************)
EXTENDS HelloGoodbye

MCFires == {-1, 1, 3}
MCBufferSizes == {0, 1, 2, 6}
=============================================================================
