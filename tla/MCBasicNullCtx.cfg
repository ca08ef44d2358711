\* Expected violation: main closes the context in its finally, then the
\* handle's finalizer calls gdr_unpin_buffer (and gdr_unmap) with a NULL
\* context.  The program ends, so a final state without successors is expected.
CONSTANTS
    h1 = h1
    h2 = h2
    c1 = c1
    c2 = c2
    NULL = NULL
    Handles <- MCHandles
    Ctxs <- MCCtxs
    CloseWithLivePins = TRUE
    CloseMayLeak = FALSE
SPECIFICATION ExSpec
PROPERTY NoInvalidContextCall
CHECK_DEADLOCK FALSE
