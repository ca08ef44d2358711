------------------------- MODULE MCCudaIntegration -------------------------
(* cuda_integration.py with one size (three calls of benchmark_transfer,  *)
(* one through compare_with_cupy_transfer) and two iterations per copy    *)
(* loop: each call needs its own GDRHandle and driver context.            *)
EXTENDS CudaIntegration, TLC

CONSTANTS h1, h2, h3, c1, c2, c3

MCHandles == {h1, h2, h3}
MCCtxs == {c1, c2, c3}
=============================================================================
