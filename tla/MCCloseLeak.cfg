\* Expected violation: when gdr_close reports an error and the driver keeps
\* the context, nothing can release the pins and mappings made in it: close()
\* has already cleared _handle.  The program ends, so a final state without
\* successors is expected.
CONSTANTS
    h1 = h1
    h2 = h2
    h3 = h3
    c1 = c1
    c2 = c2
    c3 = c3
    NULL = NULL
    Handles <- MCHandles
    Ctxs <- MCCtxs
    CloseWithLivePins = TRUE
    CloseMayLeak = TRUE
    Sizes = 1
    Iterations = 2
SPECIFICATION ExSpec
PROPERTY EventuallyReleased
CHECK_DEADLOCK FALSE
