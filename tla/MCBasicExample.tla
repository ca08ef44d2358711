--------------------------- MODULE MCBasicExample ---------------------------
(* basic_example.main with two GDRHandle objects and two driver contexts  *)
(* that pin_buffer_v2 and open may hand out.                              *)
EXTENDS BasicExample, TLC

CONSTANTS h1, h2, c1, c2

MCHandles == {h1, h2}
MCCtxs == {c1, c2}
=============================================================================
