\* Expected violation: close() leaves handles copying through released mappings.
CONSTANTS
    h1 = h1
    h2 = h2
    c1 = c1
    c2 = c2
    NULL = NULL
    Handles <- MCHandles
    Ctxs <- MCCtxs
    CloseWithLivePins = TRUE
    CloseMayLeak = TRUE
SPECIFICATION Spec
PROPERTY CopyThroughLiveMapping
