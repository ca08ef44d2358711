\* The core safety run: the caller closes a context only after unpinning.
CONSTANTS
    h1 = h1
    h2 = h2
    c1 = c1
    c2 = c2
    NULL = NULL
    Handles <- MCHandles
    Ctxs <- MCCtxs
    CloseWithLivePins = FALSE
    CloseMayLeak = TRUE
SPECIFICATION Spec
INVARIANT IInv
PROPERTY ReleaseOnlyHeld
PROPERTY CopyThroughLiveMapping
