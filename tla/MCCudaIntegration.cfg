\* cuda_integration.py against a driver that may fail any call; a failed
\* gdr_close still tears the context down.  The program ends, so a final
\* state without successors is expected.
CONSTANTS
    h1 = h1
    h2 = h2
    h3 = h3
    c1 = c1
    c2 = c2
    c3 = c3
    NULL = NULL
    Handles <- MCHandles
    Ctxs <- MCCtxs
    CloseWithLivePins = TRUE
    CloseMayLeak = FALSE
    Sizes = 1
    Iterations = 2
SPECIFICATION ExSpec
INVARIANT CudaInv
PROPERTY EventuallyReleased
CHECK_DEADLOCK FALSE
