----------------------------- MODULE MCGdrCopy -----------------------------
(* Small instances of GdrCopy for TLC: two GDRHandle objects, two driver   *)
(* contexts (so that close followed by open hands out a fresh context).   *)
EXTENDS GdrCopy, TLC

CONSTANTS h1, h2, c1, c2

MCHandles == {h1, h2}
MCCtxs == {c1, c2}
\* one context: the handle lifecycle does not depend on reopening
MCLifecycleCtxs == {c1}
=============================================================================
